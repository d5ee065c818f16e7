# pproxy: TLA+ models, checks and proofs

pproxy is a personal proxy: a server with an administration interface and a
data plane, gates that carry tunnels out (Cloudflare and Vercel workers, and
the native `gate-server`), an engine and a desktop application that use the
tunnels, a forwarder that fails over between nodes, and a command line. This
directory models the parts of it that keep state shared by several tasks,
processes or restarts, checks them with TLC and proves the central invariants
with TLAPS. Paths below are relative to the repository's root.

1. Inventory
2. Modules and the code they model
3. Runs, bounds and fairness
4. Proofs
5. Where code and text disagree
6. Not modelled
7. Plan

## 1. Inventory

| component | state | operations | interacts with |
|---|---|---|---|
| token service (`crates/core/src/token.rs`, `store/tokens.rs`) | `tokens` table in SQLite, cache of it behind an `RwLock` | create, revoke, verify, reload, bootstrap of the admin | called by the admin API and, for `verify`, by every data plane |
| usage tracker (`core/src/usage.rs`, `store/usage.rs`) | live counters in a concurrent map, `usage` table | record, hourly flush, query | data plane records, `main.rs` flushes, admin API queries |
| route table (`core/src/route.rs`) | `routes` table and its cache | create, update, delete, match | admin API, data plane |
| user service (`core/src/user.rs`) | `users` table and its cache | create, disable, verify | command line writes, CONNECT authentication reads |
| authentication, gatekeeper (`core/src/auth.rs`, `gatekeeper.rs`) | failure records per address | check, record failure, record success | CONNECT of server and engine |
| HA forwarder, cluster tickets (`core/src/ha_forwarder.rs`, `cluster*.rs`) | health flag, ring of peers | probe, forward, fall back | engine, CLI |
| quota monitor and alerts (`core/src/quota.rs`, `alert.rs`, `server/src/monitor.rs`) | snapshots and events in SQLite, last percentages in memory | poll, compare, alert, prune | external providers |
| store and import (`core/src/store`) | SQLite file, configuration file and its backup | open, import, rewrite | all services |
| server data plane (`server/src/gateway.rs`, `core/src/edge.rs`) | connection permits, one task per request | accept, split CONNECT from HTTP, forward, retry, fail over | tokens, routes, usage, edges |
| server CONNECT (`server/src/connect.rs`) | one task per tunnel | authenticate, choose gates, establish, relay | gatekeeper, pool, gates |
| tunnel pool (`transport/src/pool.rs`) | idle WebSocket sessions, one background task | checkout, invalidate, refill, expire | CONNECT of server, engine and desktop |
| transport (`transport/src/route.rs`, `proto.rs`, `relay.rs`) | none | order endpoints, dial, bind, relay | the three data planes |
| gate-server (`gate-server/src/lib.rs`, `connect_proxy.rs`) | connection counts, byte counters, revoked tokens and their file | upgrade, CONNECT, relay, revoke, load, profile, subscription, fetch | clients of the tunnels, admin API |
| engine crate (`engine/src`) | users and tokens as loaded, one task per connection | authenticate, establish, relay, forward | forwarder, gates, edges |
| node and command line (`cli/src/cmd/serve.rs`, `service.rs`, `cluster.rs`, `upgrade.rs`) | processes, ports, lock and PID files, the unit, the executable and its backup | start, stop, restart, upgrade, restore a failed upgrade | systemd, forwarder, engine |
| configuration sync (`cli/src/cmd/sync.rs`, `config.rs`) | nonces in a locked file, configuration, routes | export, import | another node |
| desktop: credential (`desktop/src-tauri/src/lib.rs`, `proxy/engine_tunnel.rs`) | keyring entry, file, audit record, watch channel of the engine | save, clear, read with repair, heal after 401 | other programs that write the keyring |
| desktop: system proxy (`lib.rs`, `proxy/sysproxy.rs`, `pac.rs`, `whitelist.rs`, `engine.rs`, `engine_upstream.rs`) | the system's settings, a snapshot file, statics, traffic totals | enable, disable, leave, recover, serve script and connections | the operating system, browsers |
| edge workers (`src/deploy`) | none | relay | external platforms |

What is hard in it:

* Caches are rebuilt by *list the table, then swap the map*, in two steps with
  no lock across them (tokens, routes), or never again after the start (users).
* Decisions are taken from values read before an `.await` or in another task:
  the connection count of a gate, the deficit of the pool, the drained batch
  of the usage tracker, the gatekeeper's verdict, the backup of a route, the
  flag of the forwarder, the script a browser fetched.
* Things are in two places: a revocation in memory and in a file, a count in
  the live map, in a batch or in the table, a credential in a keyring and in a
  file, routes in a configuration and in a table, the user's settings in the
  registry and in a snapshot.
* Processes die between two writes: of an import, of an upgrade, of the
  system's settings.
* Errors are passed over: a revocation list, a nonce file or a snapshot that
  cannot be read or written counts as an empty one or as done.
* Standby sessions die silently, tokens rotate while a connect is under way,
  endpoints fail over, and every loop that retries has to end.
* Relays have to give back slots, permits and sockets on every way out.

What makes each component correct is stated by the properties in section 3;
`PROJECT.json` lists under `hazards` the line where each difficulty bites.

## 2. Modules and the code they model

Every module has one action per step between two `.await`s, lock acquisitions
or writes of the code; `PROJECT.json` maps every definition to its lines.
Operators introduced by "Seeded fault" are plausible bugs; no specification
uses them, they only show that the properties would notice.

### Server

**TokenService** (`token.rs`, `store/tokens.rs`, token handlers of
`server/src/api.rs`). `db` is the table, `cache` the map of the data plane,
`snap[w]` the list a call has read and not yet installed. A call is
`CreateInsert` or `RevokeAccept; RevokeWrite`, then `ReloadList`,
`ReloadInstall` and the answer; each write is one SQL statement and therefore
one step. `StoreFails` is the error of any of them, `Crash` and `Boot` a
restart with the admin's bootstrap. A token's secret is its row's identity:
hashing is injective for the purpose of these properties. Verification is the
state function `lookup_verified`, since it changes nothing it depends on.

**LaggingTable** is abstract: a table, the versions it has had, and a view that
is always one of them. **RouteTable** (`route.rs`, `store/routes.rs`, route
handlers) implements it, by an `INSTANCE ... WITH` that maps the cache to the
view. **UserService** (`user.rs`, `store/users.rs`, `cli/src/cmd/user.rs`) has a
table that the command line edits and a map that is read when the server starts
and never again.

**Forwarding** (`auth_middleware` and `forward_handler` of `gateway.rs`,
`edge.rs`) is a request over the route table: authentication, `resolve`,
attempts on the primary, the second look at the table for the backup, attempts
there, streaming, usage. `sends` is what has left for the edges: how often (three
stands for more) and to which of them.

**UsageTracker** (`usage.rs`, `store/usage.rs`, the loop of
`server/src/main.rs`). The map is drained, merged back and read key by key.
`recorded[h]` and `stored[h]` count what was recorded, and what is in the
table, for hour `h` *or later* (so index 0 is everything, and a query since
hour `h` reads `stored[h]`); `lost` is what a crash took.

**Egress** (`transport/src/route.rs`): which gates may carry a host and in which
order; shared by the two modules that tunnel.

**DataPlane** (`server/src/gateway.rs`, `server/src/connect.rs`,
`core/src/gatekeeper.rs`, `transport/src/proto.rs`, `relay.rs`).
A connection holds a permit from `Accept` on. `Check`, `Refuse` and the
`Admit` actions are the gatekeeper and the credential check; `EndpointsFor` is
the order of the gates for a host, restricted to the compliant ones where the
code demands it; `Checkout`, `Cold`, `Dial*`, `Bind*` and `AttemptOver` are
the establishment with standby session, failover and retry rounds; the rest is
the relay. In the relay `"relay"` is the `select!`, `"send"` and `"write"` are
the awaits in the bodies of its branches. The standby pool appears as what a
checkout can return: a session of a listed endpoint that is not Vercel's.
A connection that is not CONNECT is a permit held until hyper is done; what
happens to it is Forwarding.

**TunnelPool** (`transport/src/pool.rs`). `idle[e]` is the queue of endpoint
`e` as the tokens its sessions were opened with, the first `nold[e]` of them
past their lifetime. `maintain` is the background task, split at its awaits
(`Top`, `Key`, `Endpoint`, connect, fuse, wait); `Callers` are checkouts,
invalidation, changes of the configuration and the drop of the pool by its
host. The rules about Vercel, Anycast and native VPS endpoints are `Target`.

### Exit gateway

**GateServer** (`gate-server/src/lib.rs`, `connect_proxy.rs`). A session is a
WebSocket or a CONNECT; its two directions are pumps that read, deliver and
charge. `conns` and `used` are the two per-user atomics, each action touches
one once. `delivered` is a history variable; `leftover` counts the bytes that
came with a CONNECT head, which the code forwards before its meters exist.

**RevocationList** (`handle_revoke`, `load_revoked_tokens`). `mem` is the set
in force, `file` the sequence of fragments written; `writeln!` on an
unbuffered file is two writes, `AppendId` and `AppendNewline`, which those of
another request may separate. `Lines` parses the file as the loader does; a
`Load` that cannot read the file leaves the set empty and the gateway starts all
the same (`blind`).

**GateAccess** composes it with the requests that read the set. A request is a
door, the headers it carries and a host; `Presented` is the order in which its
credentials are tried, `CheckCredential` and `CheckSub` the two look-ups of
`principal_for_token`, `Resolve` the single resolution of a CONNECT's target.
A v4 address is a number; `parse_legacy_ipv4` reads one to four segments as
`inet_aton` does, and the ranges of `is_public_v4` are the parameter `IsPublic`.
`sure` records what the gateway could know to be revoked when the request came
(`Known`): the set, and the whole lines of a file that its start could read.

### Node and cluster

**EngineConn** (`engine/src/*.rs`) is a connection in the engine after
admission; **HaNode** (`ha_forwarder.rs`, `cluster_ticket.rs`) puts the
forwarder in front of it, with the local engine and a peer's, the prober, the
flag and the users (UserService) by which engines admit. An engine that listens
may still be too slow for the prober (80 ms) and for the forwarder's connects
(80 ms to the local one, 300 ms to a peer).

**ConfigImport** (`store/migrate.rs`), **SyncPhrase** (`cli/src/cmd/sync.rs`),
**BinaryUpgrade** (`cluster.rs`, `upgrade.rs`), **NodeProcess** (`serve.rs`,
`service.rs`, `cluster.rs`, `server/src/main.rs`) and **QuotaMonitor**
(`server/src/monitor.rs`, `core/src/quota.rs`, `alert.rs`) are the parts of a
node's life; **NodeOps** composes them: a process that starts imports, binds
its port or leaves it to a forwarder, and runs the monitor; an administrator
stops, upgrades and kills it. The node's unit runs `pproxy-server` or, as
`scripts/install.sh` sets it up, `pproxy serve`; serve can also be run by hand,
with or without a unit beside it. A unit's process that ends takes what it has
spawned with it and is started again (`Restart=always`). `stop` finds processes
by the lock file, by the unit and by name; systemctl may fail, and processes
and units may be another user's and out of reach (`foreign`). A binary is a version or
torn, the restore after a failed rename empties its target first; a process
never gets the identifier of an earlier one; SIGTERM ends it at once.

### Desktop

**CredentialStore** (`lib.rs`): keyring, file, audit record, backups, the lock of
the writers and the readers without it, who may repair; a credential comes in
by hand, by a connect code or by another device's phrase, which counts as used
before anything is stored. **DesktopEngine**
(`engine_tunnel.rs`) adds the engine: the watch channel, the 401 and the reload
with its cooldown.

**HostRules** (`whitelist.rs`, `pac.rs`, `decide` of `engine.rs`): hosts are
sequences of labels; the whitelist's minimisation, the script's verdict and the
engine's. **DesktopConn** (`engine.rs`, `engine_upstream.rs`) is a connection
from a program that follows a script it fetched earlier, or from the local
network; the hosts that bypass the tunnel (`bypass`) are read from `tunnel.json`
for every decision, and a changed endpoint does not renew the script. **DesktopProxy** (`lib.rs`, `sysproxy.rs`) is the process around them:
the registry values, the snapshot file and the statics, written one after
another by the threads that run commands, recovery, flush and exit.

## 3. Runs, bounds and fairness

Run a check with `tlc -workers 2 -config X.cfg MCModule`.
The type invariants (`TypeOK`, `AccessTypeOK`, `PoolTypeOK`, `UsageTypeOK`) are
theorems of section 4; the configurations leave them out.

| run | shows |
|---|---|
| `token_race` | `CacheIsPast`: cache and pending lists are earlier states of the table. `OneTokenPerName`: the data plane never admits two tokens of one name, even from a stale cache |
| `token_revoke_race` | *expects a violation* of `RevokeSticks`: a create that listed the table before a revoke installs its list after it and brings the revoked token back, although `token.rs:7-8` says the reload excludes such a race and `token.rs:13` that a revoked token is unusable from then on. The store works and nothing crashes |
| `usage_flush` | `Conserved`, `NeverBackdated`, `Persisted`: counts are neither lost nor doubled by flushes that fail or race with requests, never booked to an earlier hour, and reach the table |
| `forward_requests` | `ResendOnlyByFailover`: a request that must not be repeated is sent at most once per edge. `SentWhereRouted`: only to an edge some version of its route named, although the table is read twice. `RequestAnswered`: once its body is read, a request is answered. `LagsBehindStore`: the routes in memory implement `LaggingTable` |
| `data_connect` | `CompliantEgress`: a compliant host is never tunnelled through Cloudflare, not by a standby session and not after failover. `LockoutHolds`: a lockout lets through no more guesses than had passed its check. `EstablishEnds`, `DrainedRelayEnds` |
| `pool_refill` | `OneCredential`, `WithinPlan`, `StaleDrained`, `TaskEnds` |
| `gate_relay` | `SlotsBalanced`, `ChargedExactly`, `OverrunBounded` over all ways a session can end, `ConnectEnds` |
| `revocation_faults` | `AdmittedSoundly`: what was revoked in memory, or stands on a whole line of a file the start could read, opens no door, across concurrent, failing and interrupted revocations and restarts; a CONNECT dials only a public address |
| `ha_failover` | `FlagFollowsEngine`: the flag ends up right although prober and connections overwrite each other. `EngineEgress`: no tunnel of a compliant host through Cloudflare in the engine either |
| `node_ops` | One node started, stopped, killed, upgraded, set up and polled. `UpMeansReachable`: an engine that is up is reachable on the public port. `StopStops`: when stop has answered, nothing it found and could signal is left. `AllOrNothing`: the executable is the old or the new one, whole. `LegacyNeverLost`, `AlertPerCrossing`, `PhraseOnce` |
| `desktop_store` | `ClearedStaysEmpty`, `SavedIsRead`: the two copies of the credential with failing writes, foreign writers and repairs. `EngineConverges`: the engine is not stuck with a token its gates refuse, provided the cooldown after a 401 runs out now and then |
| `desktop_proxy` | `UserSettingsBack`: the user's settings come back over starts, stops and crashes between any two writes. `PacAgrees`: script and engine agree, and what a fresh script sends to the engine never leaves directly. `TrafficOnce` |

Some properties name an exception, a history variable that becomes true in one
case the code does not exclude; each is reached in its run, and section 5 says
what happens in it:

| variable | property | becomes true when |
|---|---|---|
| `blind` | `AdmittedSoundly` | the start could not read the revocation file |
| `doubt` | `SavedIsRead` | the last write was not by hand or left no record, or a repair decided before a save replaced its file |
| `unsaved`, `excused` | `UserSettingsBack` | the snapshot's file failed (`unsaved`) and then had to be read; commands overlapped, or one was cut off by leaving; the registry refused the restore |
| `overtaken` | `TrafficOnce` | a reading was merged after a later one |
| `late`, `forgot` | `PhraseOnce` | an import came to the lock when its phrase had expired; the nonce file could not be read |
| `torn` | `AllOrNothing` | the copy that restores the executable in place was killed, failed, or copied a torn backup |
| `fwdLost` | `UpMeansReachable` | a forwarder ended by itself, lost the public port to an engine started beside it, or was ended by a stop that could not end its engine |
| `missed` | `AlertPerCrossing` | the store refused an alert |

Bounds. They are constants of the configurations:

* Tokens: two calls, three rows (the admin's and two that can share a name),
  clock up to 2 and lifetimes 1 or none, so that a token can expire between
  any two steps. Two calls suffice for every race of two reloads, and the
  proofs do not depend on the bound.
* Usage: two keys recorded on at most two and one times, two hours.
* Forwarding: one request and two management calls that overlap, three
  writes of the table, two attempts on either edge (the code has three and
  five: the loop has one step of its own per attempt), one chunk of body.
* Data plane: two connections with as many permits, one loopback and one
  remote address, with and without forwarding header and valid credentials,
  one compliant and one video host, two retry rounds, lockout after two
  failures, and a list of three gates or of the Cloudflare gate only, for
  which a compliant host has to be refused.
* Pool: three endpoints, one of each class, two tokens, three configurations,
  size 2 and a fuse of 2 failures, so that every branch of the task is taken.
* Gate: two sessions, one tenant, an exempt user and the tunnel principal,
  chunks of 2 against a quota of 4, so that the quota is reached within a
  session and overrun by the other one.
* Doors: two revocations at a time of a jti and a user, six fragments of file
  (a whole line and two interleaved ones), a token that can be revoked either
  way and one that cannot, two environments, bytes of two values: one private
  address in every spelling, a public one and a number past the end.
* HA: one session, the local engine and one peer, three edits of users and two
  attempts (the code has five) over the endpoints; the client's own
  authentication by `X-Pony-Token` is left to `DataPlane`.
* Node: two versions, four processes, a unit that is absent, runs the server or
  runs serve, three polls; a load of five where a command weighs two, a poll or
  an import of a phrase one and the first import three; one fault or crash (a
  rename that fails is not counted as one, so that the restore after it can
  fail); two phrases and three imports that begin before the first command, so
  that two can overlap and a third can come after the expiry; an exporting node
  whose clock is ahead by at most one tick, which is too much. The theorems
  hold for any bounds.
* Desktop credential: one command besides the engine's reloads, one fault, two
  dials before a connection gives up. Desktop proxy: two commands, two crashes
  or faults (a snapshot that is not saved and a crash that then needs it), one
  byte of traffic per connection, two attempts (the code has five), clients that
  hold a script of the global mode from earlier, one gate besides the fixed
  bypass hosts to change the endpoint to.

Only the two runs of `TokenService` use symmetry; their properties are invariants and workers and
row identifiers are interchangeable there.

Fairness:

* `GateServer`: strong fairness of `LifetimeCap`, a timer that is polled
  whenever a pump waits, and weak fairness of `Charge`, which awaits nothing.
* `TunnelPool`: weak fairness of the task; all its awaits have timeouts.
* `UsageTracker`: weak fairness of the flush, a loop that never returns, and
  strong fairness of the upsert: the table is not locked or full for ever.
  Without it nothing can be said about persistence.
* `DataPlane`: weak fairness of the establishment, whose dials and binds have
  deadlines; strong fairness of `Deadline`, because a deadline that has passed
  is one of the ready branches of every later `select!` and `select!` picks
  among the ready ones at random.
* `Forwarding`: weak fairness of `Serve`, the attempts on the edges and what
  follows them: `send()` is cut off after 120 s (`edge.rs:120`) and pauses are
  timers. Reading the request's body (`gateway.rs:394`) and passing on the
  response (`gateway.rs:498`) have no timeout and no fairness: `RequestAnswered`
  begins where the body is read and ends at the answer, not at its last byte.
* `HaNode`: weak fairness of the prober, a loop with a timer, and of the
  forwarder's steps of a session, which have timeouts. Nothing is assumed of
  engines, clients and relays.
* `DesktopEngine`: weak fairness of the threads in the middle of a call and of
  a connection's steps; strong fairness of clients that connect and of gates
  that answer 401 to a wrong token, without which nothing makes the engine look
  at the store. Nothing makes the cooldown after a 401 run out: every 401 within
  it starts it afresh (`engine_tunnel.rs:265`). `EngineConverges` therefore has
  the hypothesis `[]<>~cooling`: clients have to pause now and then for as long
  as the cooldown.

Otherwise nothing is assumed of clients, targets and gates.

## 4. Proofs

Checked with `tlapm XProofs.tla`; the assumptions are the named `ASSUME`s of
the modules.

**TokenServiceProofs.** For any workers, names and rows: `TypeCorrect`,
`CacheIsAlwaysPast`, `NamesNeverShared`, `AdminNeverLockedOut`. None of the
properties is inductive: an admitted pair of equal names could come from a list
that is about to be installed, so `IInv` speaks of all three copies of the
table (`db`, `cache`, `snap`), says that live names are unique in each
(`UniqueInv`), that the rows of the admin are never revoked nor expiring and
the same in every copy that may be read (`AdminInv`), and what a call
in progress knows (`CallInv`: it revokes a row it found not to be the
admin's, and rows never change their name). The key lemma about data is that
`Older` is a preorder which every step of the table extends (`TableSteps`,
`OlderPreserved`).

**ForwardingProofs.** For any routes, edits, edges, requests and number of
attempts: `RoutesLagBehindStore`, `ForwardingTypeCorrect`, `NeverMisrouted`,
`ResentOnlyByFailover`.
The first is the refinement `Spec => LagsBehindStore` of `LaggingTable` with
the routes in memory as the view: `VersionInv` says that the table, the map in
memory *and every list a management call has read and not yet installed* are
versions the table has had, since two reloads may install their lists in
either order. `SentWhereRouted` needs more than what was sent: `BoundInv` says
that a request under way is bound for an edge that some version of its route
names, before it is sent there and after it has looked at the table a second
time for a backup, and that a new request has been sent nowhere. Versions are
never forgotten, so a step of the administration preserves it (`Named`).
`ResendInv` follows a request that must not be repeated: it has been sent at
most once before the failover and at most once more after it, and an attempt
that is due has not been made, whatever became of its route.

The second half of the module is about `UsageTracker`, for any keys and hours:
`UsageTypeCorrect`, `CountsConserved`, `CountsNeverBackdated`,
`QueriesNeverOvercount`, `QuietQueriesComplete`. In `UsageInv`, `FlushInv` says
which keys of the batch are still to come or gone back, `HourInv` that a batch was
recorded no later than its stamp plus what was recorded since, `QueryInv` what a
query has already added up. The last two theorems have no run of their own.

**GateServerProofs.** For any sessions, users, quotas and sizes of reads:
`GateTypeCorrect`, `SlotsAlwaysBalance`, `EveryByteCharged`,
`QuotaOverrunBounded`; `GateAssumption` asks for a largest chunk (reads fill a
fixed buffer) and finitely many sessions. What is delivered and not yet charged
is a sum over the open directions of all sessions. The community module's fold
is not something the prover can unfold, and the library's induction takes an
operator; the sums are established by a *least counterexample* instead: a set
of subsets of a finite set has a minimal element (`LeastSubset`, from the
well-foundedness of inclusion), and a minimal set without a sum is impossible
(`SumExists`, `FoldIsSum`). `OverrunBounded` is not inductive: a count
just above the quota says nothing of what the directions that are still open
will add. `Cut` counts one largest chunk for each of them in advance (`Live`),
and a direction that charges past the quota closes.

The last part is about `GateAccess`, for any clients, tokens, requests,
environments and lookups: `AlwaysAdmittedSoundly`. `ListInv` says that while the
process runs, and unless its start could not read the file, every line of the file
is in the set, *and that a handler about to
write its identifier has put it there*: with interleaved or failing writes the
file says less than the set, never more (`LinesGrow`: one more write adds no line
but the one it writes). `DoorInv` says that a request is judged by a set that
holds all that was revoked when it came, also between the look-ups of jti and
sub, and that nobody is known before both are done. `TargetFacts` is the claim
about `resolve_target`: it returns only public addresses. `AccessTypeCorrect`
needs an invariant of its own for the bound of the file, because a request
reserves room for its two writes when it begins and the others write meanwhile:
`RoomKept` counts two places for each request that has its identifier to write and
one for each that has its line end (`WritingMoves`).

**DataPlaneProofs.** For any connections, permits, addresses, lists of gates and
attempts: `PlaneTypeCorrect`, `EgressAlwaysCompliant`, `LockoutAlwaysHolds`. What
the filter and the rotation of lists return is shown by the least counterexample
again, here a number (`LeastNat`, `OnlyFacts`, `RotateFacts`, `EndpointFacts`:
a list for a compliant host has no Cloudflare gate). `Local` carries that from
the choice of the list through dialling and binding to the relay.
`LockoutHolds` bounds the guesses that get in during a lockout; the
invariant `Lockouts` adds those still being verified (`Guessing`), and the
connection whose failure began the lockout has a permit and is no longer among
them, hence strictly fewer than permits.

**HaNodeProofs.** For any sessions, clients, users, gates and attempts:
`NodeTypeCorrect`, `EngineEgressCompliant`. `TunnelInv` is the engine's
counterpart of `Local`. A lemma for each kind of step says which part of the
state it leaves alone, and the invariant is proved by parts (`InvParts`).

**NodeOpsProofs.** For any processes, faults, versions, routes, phrases,
imports, sources and percentages. Each part of a node has an invariant over its
own variables and a lemma saying which of its actions a step of the node can be
(`ImportSteps`, `FilesSteps`, `SyncSteps`, `MonitorSteps`, `ProcSteps`):

* `LegacyAlwaysKept` (`ImportInv`): before the file is rewritten, what was read
  is still in it; at the rewrite every valid route of it is in the table or was
  deleted through the API.
* `UpgradeAllOrNothing` (`FilesInv`), for any number of faults and kills: a
  backup made by the upgrade under way is the target as it was, or was cut
  short, and a target that is torn is `torn` or being copied.
* `PhraseAlwaysOnce` (`SyncInv`): a phrase taken in is among the nonces, was lost
  with an unreadable record (`forgot`) or has expired; an import at the nonce has
  read a clock before the expiry.
* `AlertAlwaysPerCrossing` (`MonitorInv`): the last percentage in memory is the
  last stored sample, or none; a poll between the sample and its alert is the
  one exception to the equality of alerts and crossings.
* `UpAlwaysReachable` and `StopAlwaysStops` (`ProcInv`). `UnitInv`: the unit is on
  exactly while it has a process; what that process has spawned are forwarders,
  and there are some only once it is past the admin port; lock and PID files never
  name a forwarder. `PortInv`: one process at a time is past the admin port, and
  one that took the inner port has a forwarder or lost it. `StopInv`: what a stop
  found and may signal it may still signal at every later stage, *whatever the
  units and processes do meanwhile*, and pgrep has named what is left of it; the
  properties alone say nothing between the first and the last stage. `EndsKeep`
  and `GoesOn` are the two shapes of a step, processes that end with their group
  and a process that goes on; `StopKept` says that steps besides the stop only
  take from what it has to end, `OthersForwarded` that an engine outside of the unit
  has its forwarder outside of it, so that stopping the unit takes none away.
* `NodeOpsTypeCorrect`: the invariants above have the types of what they speak of;
  `AlertType` and `Bounds` add the alerts that wait for delivery and the bounds
  on commands and faults.

**DesktopEngineProofs.** For any threads, secrets, endpoints, commands and faults:
`EngineTypeCorrect`, `ClearedAlwaysEmpty`, `SavedAlwaysRead`. Neither property is
inductive. A credential that was cleared could come back from a writer that is
between the keyring and the files, and a save that was reported could be undone by
a repair that read the store before it. `cleared` begins when a clear has really
removed every copy, since it also answers Ok when it has not (section 5).
`StoreInv` has three parts for that.
`Placed` says which command can be at which step (only a clear deletes, what a
command by hand sends it has written). `Writing` says that a thread between its two
writes holds the lock, that nothing is cleared while it is about to write the
files, and that nothing is reported saved while a command of the window is at it.
`RecordInv` says that, without doubt, the fallback file is what its audit record
says a person wrote, and that a command which has written (`Wrote`) finds its own
secret there when it reads back. `doubt` is a history variable of `CredentialStore`:
the last write was not by hand or left no record, or a repair that was decided
before it has replaced its file. A lemma per step of `cred_set_impl`, `cred_detail_impl`, the
clear and the repair preserves these parts; steps that only change what a thread has
read go through `QuietStep`.

The second half is about `TunnelPool`, for any endpoints, tokens, configurations
and size: `PoolTypeCorrect`, `PoolHasOneCredential`, `PoolWithinPlan`. `WithinPlan`
is not inductive, because the deficit is read under the lock and used without it:
in `PoolInv`, `PlanInv` counts the sessions still to be opened (`Pending`) as if
they were there, and `RoundInv` says that the round in progress works from the
configuration the pool was last cleared for. Everything that happens meanwhile only
shortens queues (`QueueSteps`).

**DesktopProxyProofs.** For any hosts, whitelists, settings of the user, commands,
faults and bytes: `ProxyTypeCorrect`, `SettingsAlwaysBack`, `PacAlwaysAgrees`,
`TrafficCountedOnce`.

* `UserSettingsBack` speaks of the moments when no command is under way. The
  registry, the snapshot file and the two statics are written one after another, so
  `SettingsInv` says what holds after each write: at any moment, also that of a kill,
  either the registry has the user's settings or the file has them and the registry
  is ours (`Kept`); `PcInv` says what the thread relies on at each step of enable,
  of the script's time stamp, of disable, recovery and exit; `PhaseInv` and `PutInv` which steps there
  are in which phase of the process. A snapshot that could not be written is in
  it (`unsaved`): the settings are then in memory only, and the theorem still says
  that a stop puts them back; what is excused is a restore that needed the file.
* `PacAgrees`: that the script and the engine agree is proved for every host, every
  whitelist and bypass list and every mode (`ScriptIsTunnelled`,
  `TunnelledIsScript`, `AllAgree`), not only for the hosts of the run; `SafeConn`
  carries the decision from the script that a program fetched to the connection it
  makes later.
* `TrafficOnce`: `TrafficInv` says that a reading on its way to the merge and the
  base are never ahead of the engine's counter.

Only model-checked: the liveness properties (`ConnectEnds`,
`StaleDrained`, `TaskEnds`, `Persisted`, `EstablishEnds`, `DrainedRelayEnds`,
`RequestAnswered`, `FlagFollowsEngine`, `EngineConverges`), since the prover does not
reason about fairness. Every safety property of a passing run is a theorem. The theorems
about recursive functions and folds say what is needed of their results for every
input, not what they compute.

## 5. Where code and text disagree

The run `token_revoke_race` shows one of them. The others are in the models too,
and the properties say what still holds; the variable of section 3 that marks
the case is named.

* A create that listed the tokens before a revoke and installs its list after
  it brings the revoked token back (`token.rs:287`), although the reload is said
  to be free of such races (`token.rs:7`): `RevokeSticks`, violated. A revoke
  whose reload fails is answered with an error, and its retry finds the row
  already revoked and answers 200 without reloading (`token.rs:189`).
* The connection limit of the gate is checked before the upgrade and counted
  after it, in another task; the comment speaks of an atomic reservation
  (`gate-server/src/lib.rs:554`).
* Two revocations can run together on one line of the file, which is then lost
  at the next start; the comment speaks of a file lock (`lib.rs:197`).
  `AdmittedSoundly` is therefore about whole lines.
* A gateway that cannot read its revocation file, be it for an I/O error or for
  bytes that are not UTF-8, starts with an empty list and says nothing
  (`gate-server/src/lib.rs:54`): every revoked token is valid again (`blind`).
* A query that overlaps a flush misses the batch in flight (`usage.rs:223`).
* A relay's deadlines are not polled while a send or a write blocks, so a peer
  that stops reading keeps the permit (`transport/src/relay.rs:133`; the
  desktop's relay, `engine.rs:471`, likewise). `DrainedRelayEnds` assumes peers
  that take what they are sent.
* The edge client does not resend a POST without an idempotency key
  (`edge.rs:85`), but the failover to the backup does (`gateway.rs:441`).
  `ResendOnlyByFailover` allows exactly that.
* A disabled user stays in until the server restarts: `user disable` reports
  the user as disabled (`cli/src/cmd/user.rs:285`), the server keeps to the map
  it loaded when it started (`core/src/user.rs:107`).
* A peer that listens but accepts later than 300 ms after the connect is passed
  over, and if there is no other the client gets 502 although a peer is up
  (`ha_forwarder.rs:207`, `:256`).
* A request whose body stops arriving, or whose response stops coming, is kept
  for ever (`gateway.rs:394`, `:498`): neither has a timeout.
* Clearing the desktop's credential answers Ok when a file could not be removed
  (`lib.rs:524`) or the keyring's entry not be opened (`lib.rs:539`), and what is
  left is read back; the reload after a 401 may write back a secret it read
  before the clear. `cleared` begins only when every copy is gone and ends with
  such a write. A `.dat.tmp` left by a crash (`lib.rs:471`) is never removed; it
  is not modelled, because nothing reads it.
* A repair of the credential file that was decided before a save may replace the
  saved file after it, and the reload after a 401 replaces what was saved by hand
  (`engine_tunnel.rs:225`); the engine then needs another 401 (`doubt`).
* Every 401 that heals nothing restarts the self-heal cooldown, also within it
  (`engine_tunnel.rs:265`): clients that connect more often than every 30 s with
  a refused token keep the engine from ever reading the store again.
* `save_snapshot` passes over every error (`sysproxy.rs:60`) and enable goes on to
  replace the user's settings (`unsaved`). As long as the process lives they are
  in memory; if it dies, the next start finds no snapshot, or an old one, and
  takes our script out without putting theirs back, while `sysproxy.rs:171` says
  that saving before the registry is written guarantees the recovery (`excused`). `excused` has three more cases. Enable
  and disable may overlap, since window and tray run on different threads: a
  second enable then takes our own settings for the user's. Leaving does not wait
  for a command under way. And a registry that refuses the restore, without
  settings in memory or on the way out, is given up on.
* A phrase may be taken in twice although `sync.rs:45` says that the lock excludes
  it. The clock is read before the lock, so an import that waited past the expiry
  purges the winner's nonce before it looks (`late`). And a nonce file that cannot
  be read, or holds no JSON, counts as empty (`sync.rs:59`, `forgot`).
* The traffic total can be merged from a reading older than the base
  (`overtaken`).
* The restore after a failed rename copies the backup over the target in place and
  its error is ignored (`cluster.rs:281`): killed or failing there, or from a
  backup that was cut short, it leaves a torn executable (`torn`) where the failed
  rename had left a whole one.
* The public port is said never to close (`serve.rs:338`, `:412`), but nothing
  restarts a forwarder that died, that found the port taken by an engine run beside
  it, or that a stop ended without its engine (`fwdLost`).
* `pproxy stop` reports a complete stop (`service.rs:310`) also when systemctl
  failed, when processes were another user's and could not be signalled
  (`service.rs:131`, `:246`), and when it killed the process of a unit with
  `Restart=always` by its lock file first, so that the unit was "activating" when
  it was asked and systemd starts it again. `StopStops` is about the processes
  that stop found and may signal: they are gone; others may be running.
* `.old` is written only by the first upgrade, though every later one reports
  that the previous version was backed up (`cluster.rs:256`, `:493`); a torn
  `.bak` of the configuration is never replaced.

Seen while modelling, without a property of their own:

* A denial by a standby session is followed by a cold round, and only the error
  of the last endpoint decides about a retry, while `connect.rs:36` says that
  denials are not retried.
* Loopback clients are said not to be recorded by the gatekeeper
  (`gateway.rs:79`), but one with a forwarding header is, exempt ones then get
  429 as well, and failures behind a reverse proxy lock out local clients.
* The pool's fuse counts failures of all endpoints together and a success of
  any of them resets it; nothing calls `AuthGatekeeper::prune_stale`.
* An upgrade that replaced the executable of
  the process it restarts by PID finds "(deleted)" in its path; the health check
  after an upgrade can be answered by a peer through the forwarder
  (`cluster.rs:393`), and one that fails reports an error and takes nothing back
  (`cluster.rs:507`).
* A new configuration with an empty admin token, as `sync import` writes it on a
  fresh machine, fails to load, so the next command starts from defaults and
  drops it (`sync.rs:299`, `config.rs:69`); reading and writing the
  configuration is not under a lock; routes imported before the first start make
  the legacy import report that it was done (`migrate.rs`); the desktop derives
  the phrase's key differently from the command line.
* An alert the store refuses is not retried (`monitor.rs:397`), because the last
  percentage has already been replaced (`missed`).
* The desktop's LAN subscription is served without a token when none is
  configured, while a comment calls it fail-closed (`engine.rs:560`); tunnel
  errors of loopback clients are counted twice; the engine task that ends on an
  accept error makes the next enable fail once.

## 6. Not modelled

Cryptography (password hashing, signatures, TLS), encodings (HTTP heads, WebSocket
frames, JSON, PAC and Clash texts), classification of host names, the ranges of
private addresses, user interface, deployment scripts and remote deployment, shell
variables (`proxy_env.rs`), interactive set-up, diagnostics, the edge workers.
`PROJECT.json` gives the reason per component.

Liveness under fairness is beyond the prover and stays with TLC.

## 7. Plan

Every safety property of the passing runs is proved; what is left is breadth.

Models that would add most: a run with two window commands of the desktop's
credential store (now one, next to the engine's reloads); the shell variables of
`proxy_env.rs` with their snapshot, which a second `env suspend` overwrites;
the cluster's heartbeat table (`core/src/cluster.rs`), which no process uses
yet; the rest of `api.rs`, whose handlers only read.
