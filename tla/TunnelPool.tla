----------------------------- MODULE TunnelPool -----------------------------
(***************************************************************************)
(* The pool of standby tunnel sessions (crates/transport/src/pool.rs).     *)
(*                                                                         *)
(* One background task, maintain(), refills the pool; any number of        *)
(* request tasks check sessions out; the 401 self-healing of the desktop   *)
(* engine (engine_tunnel.rs, establish) empties the pool and broadcasts a  *)
(* rotated token on the watch channel.  The map of queues is behind a      *)
(* mutex; maintain() awaits connects and wake-ups without holding it.      *)
(*                                                                         *)
(* A queue is the sequence of the tokens its sessions were opened with     *)
(* (token_fp8), oldest first.  Sessions are pushed at the end with the     *)
(* time of the push, so those beyond idle_ttl are a prefix: its length is  *)
(* nold.                                                                   *)
(***************************************************************************)
EXTENDS Naturals, Sequences

CONSTANTS Endpoints,  \* gate URLs
          Vercel,     \* classify_egress(ep) = Vercel
          Vps,        \* is_native_vps_endpoint(ep)
          Tokens,
          Configs,    \* values the watch channel carries, as parsed
          NoPoolConfig, \* url or token missing
          Orders,     \* the ordered_urls callers of checkout() pass
          Answers,    \* per endpoint: how connect_ws may end
          Size,
          FuseAt      \* 401s in a row that stop the refill; 5 in the code

Config == [eps : Seq(Endpoints), tok : Tokens]

ASSUME PoolAssumption ==
  /\ Configs \subseteq Config
  /\ NoPoolConfig \notin Config
  /\ Orders \subseteq Seq(Endpoints)
  /\ Answers \in [Endpoints -> SUBSET {"ok", "401", "err"}]
  /\ Size \in Nat
  /\ FuseAt \in Nat \ {0}

VARIABLES cfg,      \* value in the watch channel
          changed,  \* the receiver has not seen that value yet
          notified, \* the permit of `notify`
          host,     \* somebody still holds the pool
          idle,     \* per endpoint: its queue
          nold,     \* per endpoint: how many of them are beyond idle_ttl
          pc,       \* maintain(): where it is
          cur,      \* maintain(): configuration it read
          lastKey,  \* maintain(): last_key
          i,        \* maintain(): index of the endpoint at work
          need,     \* maintain(): sessions still to open there
          consec    \* maintain(): consec_401

poolVars == <<cfg, changed, notified, host, idle, nold, pc, cur, lastKey, i,
              need, consec>>
pool == <<idle, nold>>
env == <<cfg, changed, notified, host>>
task == <<pc, cur, lastKey, i, need, consec>>

PoolTypeOK ==
  /\ cfg \in Configs \cup {NoPoolConfig}
  /\ changed \in BOOLEAN /\ notified \in BOOLEAN /\ host \in BOOLEAN
  /\ idle \in [Endpoints -> Seq(Tokens)]
  /\ nold \in [Endpoints -> Nat]
  /\ pc \in {"top", "key", "endpoint", "connect", "fused", "wait", "unset", "gone"}
  /\ cur \in Configs \cup {NoPoolConfig}
  /\ lastKey \in Configs \cup {NoPoolConfig}
  /\ i \in Nat \ {0} /\ need \in Nat /\ consec \in Nat

PoolInit ==
  /\ cfg \in Configs \cup {NoPoolConfig}
  /\ changed = FALSE /\ notified = FALSE /\ host = TRUE
  /\ idle = [e \in Endpoints |-> <<>>]
  /\ nold = [e \in Endpoints |-> 0]
  /\ pc = "top"
  /\ cur = NoPoolConfig /\ lastKey = NoPoolConfig
  /\ i = 1 /\ need = 0 /\ consec = 0

-----------------------------------------------------------------------------
(* The queues. *)

Fresh(e) == SubSeq(idle[e], nold[e] + 1, Len(idle[e]))

(* retain(born.elapsed() < idle_ttl), on every queue. *)
Retain ==
  /\ idle' = [e \in Endpoints |-> Fresh(e)]
  /\ nold' = [e \in Endpoints |-> 0]

Clear ==
  /\ idle' = [e \in Endpoints |-> <<>>]
  /\ nold' = [e \in Endpoints |-> 0]

Matches(e, t) == {j \in nold[e] + 1 .. Len(idle[e]) : idle[e][j] = t}

Without(q, j) == SubSeq(q, 1, j - 1) \o SubSeq(q, j + 1, Len(q))

(* How many sessions maintain() keeps at an endpoint. *)
Uses(c, e) == c # NoPoolConfig /\ \E j \in 1..Len(c.eps) : c.eps[j] = e

Target(c, e) ==
  IF \/ ~Uses(c, e)
     \/ e \in Vercel
     \/ e \notin Vps /\ \E v \in Vps : Uses(c, v)
  THEN 0 ELSE Size

-----------------------------------------------------------------------------
(* Callers and the clock. *)

(* checkout(): per endpoint in order, the youngest unexpired session of token
   t; sessions of another token go back where they were; the expired ones of
   every queue that was emptied in the search are dropped. *)
CheckoutHit(order, t) ==
  \E k \in 1..Len(order) :
    LET e == order[k]
        before == {order[m] : m \in 1..(k - 1)} IN
    /\ host
    /\ Matches(e, t) # {}
    /\ \A f \in before : Matches(f, t) = {}
    /\ \E j \in Matches(e, t) :
         /\ \A m \in Matches(e, t) : m <= j
         /\ idle' = [f \in Endpoints |->
                       IF f = e THEN Without(idle[f], j)
                       ELSE IF f \in before THEN Fresh(f) ELSE idle[f]]
    /\ nold' = [f \in Endpoints |-> IF f \in before THEN 0 ELSE nold[f]]
    /\ notified' = TRUE
    /\ UNCHANGED <<cfg, changed, host, task>>

CheckoutMiss(order, t) ==
  LET seen == {order[m] : m \in 1..Len(order)} IN
  /\ host
  /\ \A f \in seen : Matches(f, t) = {}
  /\ idle' = [f \in Endpoints |-> IF f \in seen THEN Fresh(f) ELSE idle[f]]
  /\ nold' = [f \in Endpoints |-> IF f \in seen THEN 0 ELSE nold[f]]
  /\ notified' = (notified \/ \E f \in seen : idle[f] # <<>>)
  /\ UNCHANGED <<cfg, changed, host, task>>

invalidate ==
  /\ host
  /\ Clear
  /\ notified' = TRUE
  /\ UNCHANGED <<cfg, changed, host, task>>

(* A new value is broadcast: settings saved, or the 401 self-healing. *)
SendConfig(c) ==
  /\ cfg' = c
  /\ changed' = TRUE
  /\ UNCHANGED <<notified, host, pool, task>>

(* The last Arc outside maintain() is dropped. *)
DropHost ==
  /\ host
  /\ host' = FALSE
  /\ UNCHANGED <<cfg, changed, notified, pool, task>>

(* The oldest unexpired session of a queue reaches idle_ttl. *)
Expire(e) ==
  /\ nold[e] < Len(idle[e])
  /\ nold' = [nold EXCEPT ![e] = @ + 1]
  /\ UNCHANGED <<env, idle, task>>

-----------------------------------------------------------------------------
(* maintain(). *)

(* The loop head: exit if the host is gone, else drop the expired and read
   the watch (borrow() does not mark the value seen). *)
Top ==
  /\ pc = "top"
  /\ IF host
       THEN /\ pc' = "key"
            /\ cur' = cfg
            /\ Retain
       ELSE pc' = "gone" /\ UNCHANGED <<cur, pool>>
  /\ UNCHANGED <<env, lastKey, i, need, consec>>

(* Seeded faults: only a change of the endpoints empties the pool; the
   endpoints are counted from zero. *)
KeyIgnoringToken ==
  /\ pc = "key" /\ cur # NoPoolConfig
  /\ pc' = "endpoint"
  /\ i' = 1
  /\ lastKey' = cur
  /\ IF lastKey # NoPoolConfig /\ lastKey.eps = cur.eps
       THEN UNCHANGED <<consec, pool>>
       ELSE Clear /\ consec' = 0
  /\ UNCHANGED <<env, cur, need>>

(* A configuration other than the last one empties the pool. *)
Key ==
  /\ pc = "key" /\ cur # NoPoolConfig
  /\ pc' = "endpoint"
  /\ i' = 1
  /\ lastKey' = cur
  /\ IF lastKey = cur
       THEN UNCHANGED <<consec, pool>>
       ELSE Clear /\ consec' = 0
  /\ UNCHANGED <<env, cur, need>>

KeyMissing ==
  /\ pc = "key" /\ cur = NoPoolConfig
  /\ pc' = "unset"
  /\ lastKey' = NoPoolConfig
  /\ Clear
  /\ UNCHANGED <<env, cur, i, need, consec>>

(* The number of sessions to open is taken under the lock, once. *)
Deficit(e) ==
  IF Len(idle[e]) < Target(cur, e) THEN Target(cur, e) - Len(idle[e]) ELSE 0

RefillEndpoint ==
  /\ pc = "endpoint" /\ i <= Len(cur.eps)
  /\ need' = Deficit(cur.eps[i])
  /\ IF need' = 0 THEN i' = i + 1 /\ pc' = pc ELSE pc' = "connect" /\ i' = i
  /\ UNCHANGED <<env, pool, cur, lastKey, consec>>

EndpointsDone ==
  /\ pc = "endpoint" /\ i > Len(cur.eps)
  /\ pc' = "wait"
  /\ UNCHANGED <<env, pool, cur, lastKey, i, need, consec>>

(* Seeded fault: after a success the deficit is not counted down. *)
ConnectOkAgain ==
  LET e == cur.eps[i] IN
  /\ pc = "connect" /\ "ok" \in Answers[e]
  /\ idle' = [idle EXCEPT ![e] = Append(@, cur.tok)]
  /\ consec' = 0
  /\ \/ pc' = pc /\ i' = i
     \/ pc' = "endpoint" /\ i' = i + 1
  /\ Len(idle[e]) <= Size
  /\ UNCHANGED <<env, nold, cur, lastKey, need>>

(* connect_ws returns: a session of the token that was read at the loop head,
   whatever has happened to the pool and the configuration since. *)
ConnectOk ==
  LET e == cur.eps[i] IN
  /\ pc = "connect" /\ "ok" \in Answers[e]
  /\ idle' = [idle EXCEPT ![e] = Append(@, cur.tok)]
  /\ consec' = 0
  /\ need' = need - 1
  /\ IF need = 1 THEN pc' = "endpoint" /\ i' = i + 1 ELSE pc' = pc /\ i' = i
  /\ UNCHANGED <<env, nold, cur, lastKey>>

NextEndpoint == pc' = "endpoint" /\ i' = i + 1

Connect401 ==
  /\ pc = "connect" /\ "401" \in Answers[cur.eps[i]]
  /\ consec' = consec + 1
  /\ IF consec + 1 >= FuseAt
       THEN pc' = "fused" /\ i' = i /\ Retain
       ELSE NextEndpoint /\ UNCHANGED pool
  /\ UNCHANGED <<env, cur, lastKey, need>>

ConnectErr ==
  /\ pc = "connect" /\ "err" \in Answers[cur.eps[i]]
  /\ consec' = 0
  /\ NextEndpoint
  /\ UNCHANGED <<env, pool, cur, lastKey, need>>

(* The select! of a fuse: 60 s, or a new value in the watch; not `notify`. *)
SeeWatch == changed /\ changed' = FALSE
Timer == changed' = changed

FuseOver ==
  /\ pc = "fused"
  /\ Timer \/ SeeWatch
  /\ consec' = 0
  /\ NextEndpoint
  /\ UNCHANGED <<cfg, notified, host, pool, cur, lastKey, need>>

(* The select! at the end of a round: 2 s or 5 s, `notify`, or the watch. *)
Wake ==
  /\ pc = "wait"
  /\ \/ (Timer \/ SeeWatch) /\ notified' = notified
     \/ notified /\ notified' = FALSE /\ changed' = changed
  /\ pc' = "top"
  /\ UNCHANGED <<cfg, host, pool, cur, lastKey, i, need, consec>>

(* Seeded fault: without a configuration only the watch is waited for. *)
WakeUnsetByWatch ==
  /\ pc = "unset"
  /\ SeeWatch
  /\ pc' = "top"
  /\ UNCHANGED <<cfg, notified, host, pool, cur, lastKey, i, need, consec>>

WakeUnset ==
  /\ pc = "unset"
  /\ Timer \/ SeeWatch
  /\ pc' = "top"
  /\ UNCHANGED <<cfg, notified, host, pool, cur, lastKey, i, need, consec>>

maintain ==
  \/ Top \/ Key \/ KeyMissing \/ RefillEndpoint \/ EndpointsDone
  \/ ConnectOk \/ Connect401 \/ ConnectErr
  \/ FuseOver \/ Wake \/ WakeUnset

Callers ==
  \/ \E o \in Orders, t \in Tokens : CheckoutHit(o, t) \/ CheckoutMiss(o, t)
  \/ invalidate
  \/ \E c \in Configs \cup {NoPoolConfig} : SendConfig(c)
  \/ DropHost
  \/ \E e \in Endpoints : Expire(e)

PoolNext == maintain \/ Callers

(* The task is always scheduled again: its connects and sleeps time out. *)
PoolSpec == PoolInit /\ [][PoolNext]_poolVars
FairPoolSpec == PoolSpec /\ WF_poolVars(maintain)

-----------------------------------------------------------------------------
(* All standby sessions were opened with one and the same token, that of the
   configuration maintain() works from - also when an invalidate() or a
   rotation overtook a connect that was under way.  So the sessions of two
   credentials never share the pool. *)
OneCredential ==
  \A e \in Endpoints : \A j \in 1..Len(idle[e]) :
    lastKey # NoPoolConfig /\ idle[e][j] = lastKey.tok

(* Never more standby sessions than planned: none on a Vercel endpoint (it
   bills open connections), none on an Anycast endpoint next to a native VPS,
   none on an endpoint that is not configured, and at most Size elsewhere,
   although the deficit is computed once and the connects are awaited without
   the lock. *)
WithinPlan == \A e \in Endpoints : Len(idle[e]) <= Target(lastKey, e)

(* Once the configuration stays put, sessions of any other token are gone
   from the pool for good. *)
StaleDrained ==
  \A c \in Configs :
    <>[](cfg = c /\ host) =>
      <>[](\A e \in Endpoints : \A j \in 1..Len(idle[e]) : idle[e][j] = c.tok)

(* The background task does not outlive the pool ("Weak 自引用防泄漏"). *)
TaskEnds == ~host ~> pc = "gone"

(* The inductive strengthening of OneCredential and WithinPlan: the round in
   progress works from lastKey, and what it still has to open fits. *)
Pending(e) == IF pc = "connect" /\ e = cur.eps[i] THEN need ELSE 0

RoundInv ==
  /\ pc \in {"endpoint", "connect", "fused"} => cur = lastKey /\ cur # NoPoolConfig
  /\ pc \in {"connect", "fused"} => i <= Len(cur.eps)
  /\ pc = "connect" => need > 0

AgeInv == \A e \in Endpoints : nold[e] <= Len(idle[e])

PlanInv == \A e \in Endpoints : Len(idle[e]) + Pending(e) <= Target(lastKey, e)

PoolInv == PoolTypeOK /\ RoundInv /\ AgeInv /\ OneCredential /\ PlanInv
=============================================================================
