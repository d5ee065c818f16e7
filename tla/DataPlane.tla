----------------------------- MODULE DataPlane -----------------------------
(***************************************************************************)
(* The server's data plane (crates/server/src/gateway.rs accept loop and   *)
(* connect.rs, crates/core/src/gatekeeper.rs, crates/transport/src/        *)
(* route.rs, proto.rs and relay.rs).                                       *)
(*                                                                         *)
(* A connection holds one of Cap permits from its accept to its end.  A    *)
(* CONNECT passes the gatekeeper and the credential check, is bound to its *)
(* target through one of the gates - on a standby session first, then on   *)
(* freshly dialled ones, up to MaxAttempts rounds - and is then relayed.   *)
(* Awaits are the boundaries of the actions; the gatekeeper's map is       *)
(* locked for each of its calls, not from check() to record_failure().     *)
(*                                                                         *)
(* What a connection is answered is told by the action that ends it.       *)
(***************************************************************************)
EXTENDS Egress, FiniteSets

CONSTANTS Conns,        \* connections that may be open at once
          Cap,          \* PPROXY_MAX_CONNECTIONS
          Ips,          \* peer addresses
          Loopback,     \* those is_loopback() accepts
          GateLists,    \* the lists of them that may be configured
          Offsets,      \* values of GATE_URL_COUNTER, modulo the lists' lengths
          MaxAttempts,
          MaxFailures,  \* GatekeeperConfig.max_failures
          None

(* What a client brings: its address, a forwarding header, credentials that
   verify_connect_credentials accepts. *)
Clients == [ip : Ips, forwarded : BOOLEAN, valid : BOOLEAN]

ASSUME PlaneAssumption ==
  /\ Cap \in Nat \ {0} /\ MaxAttempts \in Nat \ {0} /\ MaxFailures \in Nat \ {0}
  /\ Loopback \subseteq Ips
  /\ GateLists \subseteq Seq(Endpoints) /\ <<>> \notin GateLists
  /\ Offsets \subseteq Nat /\ Offsets # {}
  /\ None \notin Hosts \cup Endpoints \cup Clients

VARIABLES gates,  \* gate_url of the process, read when it starts
          st,     \* per connection: the await it is at
          client, \* who it is, until its credentials are checked
          host,   \* target
          list,   \* ordered_refs
          att,    \* attempt
          idx,    \* endpoint at work; 0 for a standby session
          via,    \* the endpoint of the session it is bound on or to be
          done,   \* client_done
          count,  \* per address: FailRecord.count, 0 without a record
          locked, \* per address: now < lockout_until
          late    \* history: failures recorded during the present lockout

conn == <<st, client, host, list, att, idx, via, done>>
shared == <<gates, count, locked, late>>
vars == <<conn, shared>>

Waiting == {"head", "check", "verify"}
Relaying == {"relay", "send", "write"}
Tunnelled == Relaying \cup {"flush"}

TypeOK ==
  /\ gates \in GateLists
  /\ st \in [Conns -> Waiting \cup Tunnelled \cup
                      {"free", "http", "video", "attempt", "dial", "bind", "plain"}]
  /\ client \in [Conns -> Clients \cup {None}]
  /\ host \in [Conns -> Hosts \cup {None}]
  /\ list \in [Conns -> Seq(Endpoints)]
  /\ att \in [Conns -> 0 .. MaxAttempts - 1]
  /\ idx \in [Conns -> Nat]
  /\ via \in [Conns -> Endpoints \cup {None}]
  /\ done \in [Conns -> BOOLEAN]
  /\ count \in [Ips -> 0 .. MaxFailures]
  /\ locked \in [Ips -> BOOLEAN]
  /\ late \in [Ips -> Nat]

Init ==
  /\ gates \in GateLists
  /\ st = [c \in Conns |-> "free"]
  /\ client = [c \in Conns |-> None]
  /\ host = [c \in Conns |-> None]
  /\ list = [c \in Conns |-> <<>>]
  /\ att = [c \in Conns |-> 0]
  /\ idx = [c \in Conns |-> 0]
  /\ via = [c \in Conns |-> None]
  /\ done = [c \in Conns |-> FALSE]
  /\ count = [i \in Ips |-> 0]
  /\ locked = [i \in Ips |-> FALSE]
  /\ late = [i \in Ips |-> 0]

-----------------------------------------------------------------------------
(* The choice of endpoints (transport/src/route.rs). *)

(* Seeded fault: without a compliant endpoint all of them are used. *)
EndpointsFallingBack(h, n) ==
  LET q == ordered_gate_urls(gates, h, n)
      f == compliant_egress_endpoints(q)
  IN  IF h \in Compliant /\ f # <<>> THEN f ELSE q

EndpointsFor(h, n) ==
  LET q == ordered_gate_urls(gates, h, n)
  IN  IF h \in Compliant THEN compliant_egress_endpoints(q) ELSE q

-----------------------------------------------------------------------------
(* AuthGatekeeper (core/src/gatekeeper.rs). *)

(* record_failure.  The count matters up to max_failures: beyond it only the
   length of the lockout grows. *)
record_failure(ip) ==
  /\ count' = [count EXCEPT ![ip] = IF @ < MaxFailures THEN @ + 1 ELSE @]
  /\ locked' = [locked EXCEPT ![ip] = @ \/ count[ip] + 1 >= MaxFailures]
  /\ late' = [late EXCEPT ![ip] = IF locked[ip] THEN @ + 1 ELSE @]
  /\ UNCHANGED gates

record_success(ip) ==
  /\ count' = [count EXCEPT ![ip] = 0]
  /\ locked' = [locked EXCEPT ![ip] = FALSE]
  /\ late' = [late EXCEPT ![ip] = 0]
  /\ UNCHANGED gates

(* The lockout runs out; the next check() clears it and keeps the count. *)
LockoutEnds(ip) ==
  /\ locked[ip]
  /\ locked' = [locked EXCEPT ![ip] = FALSE]
  /\ late' = [late EXCEPT ![ip] = 0]
  /\ UNCHANGED <<count, gates, conn>>

-----------------------------------------------------------------------------
(* The connection is over and its permit dropped. *)
End(c) ==
  /\ st' = [st EXCEPT ![c] = "free"]
  /\ client' = [client EXCEPT ![c] = None]
  /\ host' = [host EXCEPT ![c] = None]
  /\ list' = [list EXCEPT ![c] = <<>>]
  /\ att' = [att EXCEPT ![c] = 0]
  /\ idx' = [idx EXCEPT ![c] = 0]
  /\ via' = [via EXCEPT ![c] = None]
  /\ done' = [done EXCEPT ![c] = FALSE]

At(c, from, to) ==
  /\ st[c] = from
  /\ st' = [st EXCEPT ![c] = to]

(* accept() with a permit left; without one reject_saturation answers 503 on
   the spot and nothing changes. *)
Accept(c, k) ==
  /\ Cardinality({d \in Conns : st[d] # "free"}) < Cap
  /\ At(c, "free", "head")
  /\ client' = [client EXCEPT ![c] = k]
  /\ UNCHANGED <<host, list, att, idx, via, done, shared>>

(* accept() fails: serve_data_plane returns, main returns, the process is
   started again with nothing in memory,
   perhaps with other gates. *)
AcceptFails ==
  /\ \E c \in Conns : st[c] # "free"
  /\ gates' \in GateLists
  /\ st' = [c \in Conns |-> "free"]
  /\ client' = [c \in Conns |-> None]
  /\ host' = [c \in Conns |-> None]
  /\ list' = [c \in Conns |-> <<>>]
  /\ att' = [c \in Conns |-> 0]
  /\ idx' = [c \in Conns |-> 0]
  /\ via' = [c \in Conns |-> None]
  /\ done' = [c \in Conns |-> FALSE]
  /\ count' = [i \in Ips |-> 0]
  /\ locked' = [i \in Ips |-> FALSE]
  /\ late' = [i \in Ips |-> 0]

(* handle_conn: the first bytes tell CONNECT, whose head is read to its end,
   from other requests, which go to hyper for as long as it keeps the
   connection. *)
ReadHead(c) ==
  /\ At(c, "head", "check")
  /\ UNCHANGED <<client, host, list, att, idx, via, done, shared>>

PeekHttp(c) ==
  /\ At(c, "head", "http")
  /\ client' = [client EXCEPT ![c] = None]
  /\ UNCHANGED <<host, list, att, idx, via, done, shared>>

HttpEnds(c) == st[c] = "http" /\ End(c) /\ UNCHANGED shared

(* 30 s without a first byte or a whole head, or the client hangs up. *)
HeadTimeout(c) == st[c] = "head" /\ End(c) /\ UNCHANGED shared

(* Seeded fault: the lockout is written down and never looked at. *)
CheckIgnored(c) ==
  /\ At(c, "check", "verify")
  /\ UNCHANGED <<client, host, list, att, idx, via, done, shared>>

(* handle_connect_raw: gatekeeper.check(), answered 429 when locked ... *)
Check(c) ==
  /\ st[c] = "check"
  /\ IF locked[client[c].ip]
       THEN End(c)
       ELSE /\ At(c, "check", "verify")
            /\ UNCHANGED <<client, host, list, att, idx, via, done>>
  /\ UNCHANGED shared

connect_auth_allowed(k) == (k.ip \in Loopback /\ ~k.forwarded) \/ k.valid

(* ... then the credentials: 407 and a failure on record ... *)
Refuse(c) ==
  /\ st[c] = "verify" /\ ~connect_auth_allowed(client[c])
  /\ record_failure(client[c].ip)
  /\ End(c)

(* ... or the record is dropped.  400 and 403: no such target, port or
   tunnel. *)
AdmitInvalid(c) ==
  /\ st[c] = "verify" /\ connect_auth_allowed(client[c])
  /\ record_success(client[c].ip)
  /\ End(c)

(* The endpoints for the target; 502 if a compliant host has none. *)
Route(c, h, n) ==
  LET q == EndpointsFor(h, n) IN
  IF q = <<>>
    THEN End(c)
    ELSE /\ st' = [st EXCEPT ![c] = "attempt"]
         /\ client' = [client EXCEPT ![c] = None]
         /\ host' = [host EXCEPT ![c] = h]
         /\ list' = [list EXCEPT ![c] = q]
         /\ UNCHANGED <<att, idx, via, done>>

Admit(c, h, n) ==
  /\ st[c] = "verify" /\ connect_auth_allowed(client[c]) /\ h \notin Video
  /\ record_success(client[c].ip)
  /\ Route(c, h, n)

(* A video host goes to its own proxy, and by the tunnel if that fails. *)
AdmitVideo(c, h) ==
  /\ At(c, "verify", "video")
  /\ connect_auth_allowed(client[c]) /\ h \in Video
  /\ record_success(client[c].ip)
  /\ client' = [client EXCEPT ![c] = None]
  /\ host' = [host EXCEPT ![c] = h]
  /\ UNCHANGED <<list, att, idx, via, done>>

VideoOk(c) ==
  /\ At(c, "video", "plain")
  /\ UNCHANGED <<client, host, list, att, idx, via, done, shared>>

VideoFails(c, n) == st[c] = "video" /\ Route(c, host[c], n) /\ UNCHANGED shared

(* core::relay::relay: no deadline at all. *)
PlainEnds(c) == st[c] = "plain" /\ End(c) /\ UNCHANGED shared

-----------------------------------------------------------------------------
(* Establishment.  The first attempt takes a standby session of a listed
   endpoint if the pool has one; Vercel gates are never pooled. *)
Checkout(c) ==
  /\ st[c] = "attempt" /\ att[c] = 0
  /\ \E i \in 1..Len(list[c]) :
       /\ Class[list[c][i]] # "vercel"
       /\ via' = [via EXCEPT ![c] = list[c][i]]
  /\ At(c, "attempt", "bind")
  /\ UNCHANGED <<client, host, list, att, idx, done, shared>>

(* establish_with_endpoints starts, or goes on, at endpoint i. *)
Dial(c, i) ==
  /\ st' = [st EXCEPT ![c] = "dial"]
  /\ idx' = [idx EXCEPT ![c] = i]
  /\ via' = [via EXCEPT ![c] = list[c][i]]
  /\ UNCHANGED <<client, host, list, att, done>>

Cold(c) == st[c] = "attempt" /\ Dial(c, 1) /\ UNCHANGED shared

DialOk(c) ==
  /\ At(c, "dial", "bind")
  /\ UNCHANGED <<client, host, list, att, idx, via, done, shared>>

(* Seeded fault: the rounds are not counted. *)
AttemptOverUncounted(c, err) ==
  IF err = "denied"
    THEN End(c)
    ELSE /\ st' = [st EXCEPT ![c] = "attempt"]
         /\ idx' = [idx EXCEPT ![c] = 0]
         /\ via' = [via EXCEPT ![c] = None]
         /\ UNCHANGED <<client, host, list, att, done>>

(* A round failed with the error of its last endpoint: 502 if that was a
   denial or the rounds are used up, else back off and try again. *)
AttemptOver(c, err) ==
  IF err = "denied" \/ att[c] + 1 >= MaxAttempts
    THEN End(c)
    ELSE /\ st' = [st EXCEPT ![c] = "attempt"]
         /\ att' = [att EXCEPT ![c] = @ + 1]
         /\ idx' = [idx EXCEPT ![c] = 0]
         /\ via' = [via EXCEPT ![c] = None]
         /\ UNCHANGED <<client, host, list, done>>

NextEndpoint(c, err) ==
  IF idx[c] < Len(list[c]) THEN Dial(c, idx[c] + 1) ELSE AttemptOver(c, err)

DialFails(c) == st[c] = "dial" /\ NextEndpoint(c, "network") /\ UNCHANGED shared

(* bind_target: the gate confirmed the target, 200 is written ... *)
BindOk(c, leftover) ==
  /\ At(c, "bind", IF leftover THEN "flush" ELSE "relay")
  /\ list' = [list EXCEPT ![c] = <<>>]
  /\ att' = [att EXCEPT ![c] = 0]
  /\ idx' = [idx EXCEPT ![c] = 0]
  /\ UNCHANGED <<client, host, via, done, shared>>

(* ... or it denied it, or the session was dead.  A standby session is
   replaced by a cold round in either case. *)
BindFails(c, err) ==
  /\ st[c] = "bind"
  /\ IF idx[c] = 0 THEN Dial(c, 1) ELSE NextEndpoint(c, err)
  /\ UNCHANGED shared

-----------------------------------------------------------------------------
(* relay(): first what came with the head, before the deadlines exist, then
   relay_bidir_ws_bounded.  Its select! waits for a deadline, the client or
   the gate; the send or write that follows is awaited without deadline. *)
RelayStep(c, from, to) ==
  /\ At(c, from, to)
  /\ UNCHANGED <<client, host, list, att, idx, via, done, shared>>

Flushed(c) == RelayStep(c, "flush", "relay")

(* Client bytes go to the gate, a Ping of the gate is answered. *)
ClientData(c) == ~done[c] /\ RelayStep(c, "relay", "send")
GatePing(c) == RelayStep(c, "relay", "send")
GateData(c) == RelayStep(c, "relay", "write")

Sent(c) == RelayStep(c, "send", "relay")
Written(c) == RelayStep(c, "write", "relay")

(* Half-close: the way down stays open. *)
ClientEof(c) ==
  /\ st[c] = "relay" /\ ~done[c]
  /\ done' = [done EXCEPT ![c] = TRUE]
  /\ UNCHANGED <<st, client, host, list, att, idx, via, shared>>

(* The gate closes, or a read, send or write fails. *)
RelayFails(c) == st[c] \in Tunnelled /\ End(c) /\ UNCHANGED shared

(* Seeded fault: traffic of the client holds the deadline off. *)
DeadlineWhenQuiet(c) == st[c] = "relay" /\ done[c] /\ End(c) /\ UNCHANGED shared

(* The idle or the absolute deadline. *)
Deadline(c) == st[c] = "relay" /\ End(c) /\ UNCHANGED shared

-----------------------------------------------------------------------------
Establish(c) ==
  \/ Checkout(c) \/ Cold(c) \/ DialOk(c) \/ DialFails(c)
  \/ \E l \in BOOLEAN : BindOk(c, l)
  \/ \E err \in {"denied", "network"} : BindFails(c, err)

Relay(c) ==
  \/ Flushed(c) \/ ClientData(c) \/ GatePing(c) \/ GateData(c) \/ ClientEof(c)
  \/ Sent(c) \/ Written(c) \/ RelayFails(c) \/ Deadline(c)

Conn(c) ==
  \/ \E k \in Clients : Accept(c, k)
  \/ ReadHead(c) \/ PeekHttp(c) \/ HttpEnds(c) \/ HeadTimeout(c)
  \/ Check(c) \/ Refuse(c) \/ AdmitInvalid(c)
  \/ \E h \in Hosts, n \in Offsets : Admit(c, h, n)
  \/ \E h \in Hosts : AdmitVideo(c, h)
  \/ VideoOk(c) \/ \E n \in Offsets : VideoFails(c, n)
  \/ PlainEnds(c)
  \/ Establish(c) \/ Relay(c)

Next ==
  \/ \E c \in Conns : Conn(c)
  \/ \E ip \in Ips : LockoutEnds(ip)
  \/ AcceptFails

(* Dials and binds have deadlines.  A deadline of the relay that has passed
   is one of the ready branches of every later select!, which picks among
   them at random. *)
Fairness ==
  \A c \in Conns : WF_vars(Establish(c)) /\ SF_vars(Deadline(c))

Spec == Init /\ [][Next]_vars
FairSpec == Spec /\ Fairness

-----------------------------------------------------------------------------
(* A tunnel to a host that must leave by a compliant egress never goes
   through a Cloudflare gate: not on a standby session, not after failures of
   the gates before it (connect.rs, 合规出口专项). *)
CompliantEgress ==
  \A c \in Conns :
    st[c] \in Tunnelled /\ host[c] \in Compliant => Class[via[c]] # "cf"

(* During a lockout an address gets in no more guesses than were past the
   check when it began: one for every other permit. *)
LockoutHolds == \A ip \in Ips : late[ip] < Cap

(* A CONNECT that has started to establish its tunnel is relayed or answered
   502: failing over, falling back from the pool and retrying come to an end. *)
EstablishEnds ==
  \A c \in Conns : st[c] = "attempt" ~> st[c] \in Tunnelled \cup {"free"}

(* A relay ends, whatever traffic its peers keep up, provided that they take
   what they are sent. *)
DrainedRelayEnds ==
  \A c \in Conns :
    []<>(st[c] \notin {"flush", "send", "write"}) => (st[c] = "relay" ~> st[c] = "free")
=============================================================================
