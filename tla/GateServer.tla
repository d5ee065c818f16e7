----------------------------- MODULE GateServer -----------------------------
(***************************************************************************)
(* Admission, connection slots and quota metering of the exit gateway      *)
(* (crates/gate-server/src/lib.rs: handle_ws, handle_ws_socket;            *)
(* connect_proxy.rs: serve, relay, Meter, pump).                           *)
(*                                                                         *)
(* A session is one client connection, over WebSocket or over HTTP         *)
(* CONNECT.  Its two relay directions run concurrently with each other and *)
(* with every other session; what they share is the process-wide counter   *)
(* of the user's bytes and, for WebSocket, the user's connection count.    *)
(* Both live in memory only: Init is also the state after a restart.       *)
(*                                                                         *)
(* A request that is refused changes nothing and is not an action; its     *)
(* conditions are the guards of the action that admits.  The revocation    *)
(* list is the subject of module RevocationList.                           *)
(***************************************************************************)
EXTENDS Naturals, FiniteSets, FiniteSetsExt

CONSTANTS Sessions,   \* connections the process may have open at once
          Tenants,    \* users with a quota and a connection limit
          Exempt,     \* role = "admin" users: counted, neither limited nor metered
          Tunnel,     \* the single-password principal: not even counted
          Quota,      \* quota_bytes of each tenant
          Limit,      \* max_conns.max(10) * 4 of each tenant
          Chunks,     \* sizes of what one read may return
          MaxLeftover \* bound on the bytes counted in leftover

Subs == Tenants \cup Exempt
Users == Subs \cup {Tunnel}
Dirs == {"up", "down"}
Idle == [d \in Dirs |-> "off"]

ASSUME GateAssumption ==
  /\ Tunnel \notin Subs /\ Tenants \cap Exempt = {}
  /\ Quota \in [Tenants -> Nat \ {0}]
  /\ Limit \in [Tenants -> Nat \ {0}]
  /\ Chunks \subseteq Nat \ {0}
  /\ \E n \in Chunks : \A m \in Chunks : m <= n  \* a read fills a fixed buffer
  /\ IsFiniteSet(Sessions)

VARIABLES pc,        \* per session: where its task is
          kind,      \* per session: "ws" or "connect"
          usr,       \* per session: whose credential admitted it
          dir,       \* per session and direction: where the pump is
          len,       \* per session and direction: bytes of the chunk in hand
          cancel,    \* per session: the CancellationToken
          conns,     \* user_active_conns
          used,      \* user_used_bytes
          delivered, \* bytes the pumps have written to the other side
          leftover   \* bytes CONNECT forwarded before its pumps started

vars == <<pc, kind, usr, dir, len, cancel, conns, used, delivered, leftover>>
counters == <<conns, used, delivered, leftover>>

(* The phases in which a WebSocket task holds its ConnGuard. *)
Guarded == {"first", "dial", "relay"}

TypeOK ==
  /\ pc \in [Sessions -> {"free", "upgrade", "resolve"} \cup Guarded]
  /\ kind \in [Sessions -> {"ws", "connect"}]
  /\ usr \in [Sessions -> Users]
  /\ dir \in [Sessions -> [Dirs -> {"off", "read", "write", "charge", "done"}]]
  /\ len \in [Sessions -> [Dirs -> Nat]]
  /\ cancel \in [Sessions -> BOOLEAN]
  /\ conns \in [Subs -> Nat]
  /\ used \in [Tenants -> Nat]
  /\ delivered \in [Tenants -> Nat]
  /\ leftover \in [Tenants -> Nat]

Init ==
  /\ pc = [s \in Sessions |-> "free"]
  /\ kind = [s \in Sessions |-> "ws"]
  /\ usr = [s \in Sessions |-> Tunnel]
  /\ dir = [s \in Sessions |-> Idle]
  /\ len = [s \in Sessions |-> [d \in Dirs |-> 0]]
  /\ cancel = [s \in Sessions |-> FALSE]
  /\ conns = [u \in Subs |-> 0]
  /\ used = [u \in Tenants |-> 0]
  /\ delivered = [u \in Tenants |-> 0]
  /\ leftover = [u \in Tenants |-> 0]

-----------------------------------------------------------------------------
Goto(s, p) == pc' = [pc EXCEPT ![s] = p]

Holds(s, u) == kind[s] = "ws" /\ pc[s] \in Guarded /\ usr[s] = u

(* Drop of ConnGuard: saturating, and only for a principal with a sub. *)
DropGuard(s) ==
  conns' = [u \in Subs |-> IF Holds(s, u) /\ conns[u] > 0
                             THEN conns[u] - 1 ELSE conns[u]]

(* The task of session s ends. *)
End(s) ==
  /\ pc' = [pc EXCEPT ![s] = "free"]
  /\ kind' = [kind EXCEPT ![s] = "ws"]
  /\ usr' = [usr EXCEPT ![s] = Tunnel]
  /\ dir' = [dir EXCEPT ![s] = Idle]
  /\ len' = [len EXCEPT ![s] = [d \in Dirs |-> 0]]
  /\ cancel' = [cancel EXCEPT ![s] = FALSE]
  /\ DropGuard(s)

InQuota(u) == u \in Tenants => used[u] < Quota[u]
BelowLimit(u) == u \in Tenants => conns[u] < Limit[u]

Accept(s, u, k, p) ==
  /\ pc[s] = "free"
  /\ Goto(s, p)
  /\ usr' = [usr EXCEPT ![s] = u]
  /\ kind' = [kind EXCEPT ![s] = k]
  /\ UNCHANGED <<dir, len, cancel, counters>>

(* handle_ws lets the request through to on_upgrade.  The connection count is
   read here; it is incremented in another task, after the upgrade. *)
WsAdmit(s, u) ==
  /\ InQuota(u)
  /\ BelowLimit(u)
  /\ Accept(s, u, "ws", "upgrade")

(* The client never completes the upgrade: handle_ws_socket does not run. *)
UpgradeFails(s) ==
  /\ pc[s] = "upgrade"
  /\ End(s)
  /\ UNCHANGED <<used, delivered, leftover>>

(* handle_ws_socket starts: ConnGuard::new. *)
WsOpen(s) ==
  /\ pc[s] = "upgrade"
  /\ Goto(s, "first")
  /\ conns' = [u \in Subs |-> IF usr[s] = u THEN conns[u] + 1 ELSE conns[u]]
  /\ UNCHANGED <<kind, usr, dir, len, cancel, used, delivered, leftover>>

(* The first frame names an allowed target. *)
FirstFrame(s) ==
  /\ pc[s] = "first"
  /\ Goto(s, "dial")
  /\ UNCHANGED <<kind, usr, dir, len, cancel, counters>>

(* serve() of the CONNECT listener: authenticated and past the port check,
   then resolve_target is awaited, and only then is the quota looked at. *)
ConnectAdmit(s, u) == Accept(s, u, "connect", "resolve")

ConnectQuotaCheck(s) ==
  /\ pc[s] = "resolve"
  /\ InQuota(usr[s])
  /\ Goto(s, "dial")
  /\ UNCHANGED <<kind, usr, dir, len, cancel, counters>>

(* Every early return between admission and relay: a bad or missing first
   frame, an ACL refusal, the quota check, a dial error or timeout, a client
   that is gone when it is to be told ok. *)
GiveUp(s) ==
  /\ pc[s] \in {"first", "resolve", "dial"}
  /\ End(s)
  /\ UNCHANGED <<used, delivered, leftover>>

StartPumps(s) ==
  /\ pc[s] = "dial"
  /\ Goto(s, "relay")
  /\ dir' = [dir EXCEPT ![s] = [d \in Dirs |-> "read"]]

(* The upstream is connected and the client has been told. *)
WsRelay(s) ==
  /\ kind[s] = "ws"
  /\ StartPumps(s)
  /\ UNCHANGED <<kind, usr, len, cancel, counters>>

(* relay(): bytes that came with the CONNECT head are forwarded first, past
   the meters. *)
ConnectRelay(s, n) ==
  /\ kind[s] = "connect"
  /\ StartPumps(s)
  /\ n > 0 /\ usr[s] \in Tenants => leftover[usr[s]] + n <= MaxLeftover
  /\ leftover' = [u \in Tenants |-> leftover[u] + IF usr[s] = u THEN n ELSE 0]
  /\ UNCHANGED <<kind, usr, len, cancel, conns, used, delivered>>

-----------------------------------------------------------------------------
(* One direction of a relay: read, write to the other side, then charge.  The
   two directions are futures of one task: what one does without an await
   between - finish a write and charge it - the other cannot interrupt, while
   other sessions, on other threads, can. *)

Charging(s) == \E d \in Dirs : dir[s][d] = "charge"

At(s, d, p) ==
  /\ pc[s] = "relay"
  /\ dir[s][d] = p
  /\ Charging(s) => p = "charge"
Step(s, d, p) == dir' = [dir EXCEPT ![s][d] = p]

Read(s, d, n) ==
  /\ At(s, d, "read")
  /\ Step(s, d, "write")
  /\ len' = [len EXCEPT ![s][d] = n]
  /\ UNCHANGED <<pc, kind, usr, cancel, counters>>

Deliver(s, d) ==
  /\ At(s, d, "write")
  /\ Step(s, d, "charge")
  /\ delivered' = [u \in Tenants |->
                     delivered[u] + IF usr[s] = u THEN len[s][d] ELSE 0]
  /\ UNCHANGED <<pc, kind, usr, len, cancel, conns, used, leftover>>

(* Seeded fault: cut only beyond the quota. *)
ExhaustedLate(s, total) == usr[s] \in Tenants /\ total > Quota[usr[s]]

Exhausted(s, total) == usr[s] \in Tenants /\ total >= Quota[usr[s]]

(* fetch_add, and the decision on the total it returned. *)
Charge(s, d) ==
  LET total == IF usr[s] \in Tenants THEN used[usr[s]] + len[s][d] ELSE 0
  IN  /\ At(s, d, "charge")
      /\ used' = [u \in Tenants |-> IF usr[s] = u THEN total ELSE used[u]]
      /\ len' = [len EXCEPT ![s][d] = 0]
      /\ Step(s, d, IF Exhausted(s, total) THEN "done" ELSE "read")
      /\ cancel' = [cancel EXCEPT ![s] = @ \/ Exhausted(s, total)]
      /\ UNCHANGED <<pc, kind, usr, conns, delivered, leftover>>

(* A direction stops: it sees the cancellation; its source is at EOF; or
   reading, writing or the idle timer fails it - which CONNECT propagates to
   the other direction and WebSocket does not. *)
SeeCancel(s, d) ==
  /\ At(s, d, "read")
  /\ cancel[s]
  /\ Step(s, d, "done")
  /\ UNCHANGED <<pc, kind, usr, len, cancel, counters>>

Eof(s, d) ==
  /\ At(s, d, "read")
  /\ Step(s, d, "done")
  /\ UNCHANGED <<pc, kind, usr, len, cancel, counters>>

(* Seeded fault: the chunk whose write failed is charged. *)
FailCharged(s, d) ==
  /\ At(s, d, "read") \/ At(s, d, "write")
  /\ Step(s, d, "done")
  /\ len' = [len EXCEPT ![s][d] = 0]
  /\ used' = [u \in Tenants |-> used[u] + IF usr[s] = u THEN len[s][d] ELSE 0]
  /\ UNCHANGED <<pc, kind, usr, cancel, conns, delivered, leftover>>

Fail(s, d) ==
  /\ At(s, d, "read") \/ At(s, d, "write")
  /\ Step(s, d, "done")
  /\ len' = [len EXCEPT ![s][d] = 0]
  /\ cancel' = [cancel EXCEPT ![s] = @ \/ kind[s] = "connect"]
  /\ UNCHANGED <<pc, kind, usr, counters>>

(* Seeded faults: the guard is not dropped; the cap only cancels. *)
CloseKeepsSlot(s) ==
  /\ \A d \in Dirs : At(s, d, "done")
  /\ pc' = [pc EXCEPT ![s] = "free"]
  /\ dir' = [dir EXCEPT ![s] = Idle]
  /\ cancel' = [cancel EXCEPT ![s] = FALSE]
  /\ UNCHANGED <<kind, usr, len, counters>>

LifetimeCapOnlyCancels(s) ==
  /\ kind[s] = "connect" /\ pc[s] = "relay"
  /\ ~cancel[s]
  /\ cancel' = [cancel EXCEPT ![s] = TRUE]
  /\ UNCHANGED <<pc, kind, usr, dir, len, counters>>

(* join! of the two directions returns. *)
Close(s) ==
  /\ \A d \in Dirs : At(s, d, "done")
  /\ End(s)
  /\ UNCHANGED <<used, delivered, leftover>>

(* CONNECT only: the absolute lifetime is over; both directions are dropped
   where they await, never between a delivery and its charge. *)
LifetimeCap(s) ==
  /\ kind[s] = "connect" /\ pc[s] = "relay"
  /\ ~Charging(s)
  /\ End(s)
  /\ UNCHANGED <<used, delivered, leftover>>

PumpStep(s, d) ==
  \/ \E n \in Chunks : Read(s, d, n)
  \/ Deliver(s, d) \/ Charge(s, d) \/ SeeCancel(s, d) \/ Eof(s, d) \/ Fail(s, d)

SessionStep(s) ==
  \/ \E u \in Users : WsAdmit(s, u) \/ ConnectAdmit(s, u)
  \/ UpgradeFails(s) \/ WsOpen(s) \/ FirstFrame(s) \/ ConnectQuotaCheck(s)
  \/ GiveUp(s) \/ WsRelay(s)
  \/ \E n \in {0} \cup Chunks : ConnectRelay(s, n)
  \/ \E d \in Dirs : PumpStep(s, d)
  \/ Close(s) \/ LifetimeCap(s)

Next == \E s \in Sessions : SessionStep(s)

(* The lifetime timer of a CONNECT relay fires whatever its peers do (strong
   fairness: traffic disables the action for the instant between a delivery
   and its charge), and that charge does not wait for anything. *)
Fairness == \A s \in Sessions :
  /\ SF_vars(LifetimeCap(s))
  /\ \A d \in Dirs : WF_vars(Charge(s, d))

Spec == Init /\ [][Next]_vars
FairSpec == Spec /\ Fairness

-----------------------------------------------------------------------------
(* Every open WebSocket session of a user is counted once, and nothing else
   is: no exit path leaks a slot (which would lock the user out with 429)
   or gives one back twice (lib.rs ConnGuard). *)
SlotsBalanced ==
  \A u \in Subs : conns[u] = Cardinality({s \in Sessions : Holds(s, u)})

(* A user is charged for exactly the bytes the pumps delivered: neither for
   a chunk that was dropped nor less than was sent ("先交付成功再计费"),
   up to chunks whose charge is the pump's next step. *)
Uncharged(u) ==
  MapThenSumSet(LAMBDA sd : len[sd[1]][sd[2]],
    {sd \in Sessions \X Dirs : usr[sd[1]] = u /\ At(sd[1], sd[2], "charge")})

ChargedExactly ==
  \A u \in Tenants : used[u] + Uncharged(u) = delivered[u]

(* A quota is overrun by at most one chunk per open direction, however many
   sessions were admitted before it was used up. *)
MaxChunk == CHOOSE n \in Chunks : \A m \in Chunks : m <= n

OverrunBounded ==
  \A u \in Tenants :
    delivered[u] < Quota[u] + MaxChunk * 2 * Cardinality(Sessions)

(* A CONNECT relay ends and frees its task, however its peers behave
   ("内含绝对生命周期上限，不会悬挂", connect_proxy.rs). *)
ConnectEnds ==
  \A s \in Sessions : (kind[s] = "connect" /\ pc[s] = "relay") ~> pc[s] = "free"
=============================================================================
