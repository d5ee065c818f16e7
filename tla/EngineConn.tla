----------------------------- MODULE EngineConn -----------------------------
(***************************************************************************)
(* A connection in the engine (crates/engine/src/server.rs, gateway.rs,    *)
(* connect.rs, upstream.rs) after it was admitted: a CONNECT is bound to   *)
(* its target through a gate, on a standby session first, then by rounds   *)
(* over the endpoints, and relayed without a deadline; any other request   *)
(* is read and forwarded over an edge.  The standby sessions are           *)
(* TunnelPool's, here any listed endpoint may have one; usage, recorded    *)
(* once a forward is answered, is UsageTracker's, and the routes are       *)
(* RouteTable's.  UpstreamManager's second mode has no caller.             *)
(***************************************************************************)
EXTENDS UserService, Egress

CONSTANTS Sessions,     \* connections of clients; a session is used again
          Gates,        \* the gates configured, in their order
          Offsets,      \* values of GATE_URL_COUNTER
          MaxAttempts,  \* MAX_ATTEMPTS
          None

ASSUME EngineAssumption ==
  /\ Gates \in Seq(Endpoints) /\ Offsets \subseteq Nat
  /\ MaxAttempts \in Nat \ {0}

VARIABLES stage,   \* per session: the await it is at
          answer,  \* per session: what the client got
          tun      \* per session: the tunnel that is being established

conn == <<stage, answer, tun>>

NoTunnel == [host |-> None, list |-> <<>>, att |-> 0, idx |-> 0, gate |-> None]

Tunnels == [host : Hosts \cup {None}, list : Seq(Endpoints),
            att : 0 .. MaxAttempts - 1, idx : Nat, gate : Endpoints \cup {None}]
Answers == {"none", "400", "403", "404", "407", "413", "429", "502", "503",
            "tunnel_failed", "upstream_failed", "served", "closed"}

ConnTypeOK ==
  /\ tun \in [Sessions -> Tunnels] /\ \A s \in Sessions : tun[s].idx <= Len(tun[s].list)
  /\ answer \in [Sessions -> Answers]

ConnInit ==
  /\ stage = [s \in Sessions |-> "idle"]
  /\ answer = [s \in Sessions |-> "none"]
  /\ tun = [s \in Sessions |-> NoTunnel]

Goto(s, p) == stage' = [stage EXCEPT ![s] = p] /\ UNCHANGED <<answer, tun>>
Answer(s, a) == /\ answer' = [answer EXCEPT ![s] = a]
                /\ stage' = [stage EXCEPT ![s] = "over"]
                /\ tun' = [tun EXCEPT ![s] = NoTunnel]
Tunnel(s, p, t) == /\ stage' = [stage EXCEPT ![s] = p]
                   /\ tun' = [tun EXCEPT ![s] = t]
                   /\ UNCHANGED answer

-----------------------------------------------------------------------------
(* CONNECT: no target in the head is 400; no tunnel or another port than 443
   is 403; a video host has a proxy of its own. *)
EndpointsFor(h, n) ==
  LET q == ordered_gate_urls(Gates, h, n)
  IN  IF h \in Compliant THEN compliant_egress_endpoints(q) ELSE q

Route(s, h, n) ==
  LET q == EndpointsFor(h, n)
  IN  IF q = <<>> THEN Answer(s, "tunnel_failed")
      ELSE Tunnel(s, "attempt", [NoTunnel EXCEPT !.host = h, !.list = q])

ConnectTarget(s) ==
  /\ stage[s] = "target"
  /\ \/ Answer(s, "400") \/ Answer(s, "403")
     \/ \E h \in Hosts, n \in Offsets :
          IF h \in Video
          THEN Tunnel(s, "video", [NoTunnel EXCEPT !.host = h])
          ELSE Route(s, h, n)

VideoOk(s) == stage[s] = "video" /\ Goto(s, "relay")
VideoFails(s) == stage[s] = "video" /\ \E n \in Offsets : Route(s, tun[s].host, n)

(* Seeded fault: any standby session is taken, as it was before the list was
   passed to the pool. *)
CheckoutAny(s) ==
  /\ stage[s] = "attempt" /\ tun[s].att = 0
  /\ \E e \in Endpoints :
       Class[e] # "vercel" /\ Tunnel(s, "bind", [tun[s] EXCEPT !.gate = e])

(* The first round tries a standby session of a listed endpoint; a list with
   nothing but Vercel gates, which are never pooled, has none. *)
Checkout(s) ==
  /\ stage[s] = "attempt" /\ tun[s].att = 0
  /\ \E i \in 1 .. Len(tun[s].list) :
       /\ Class[tun[s].list[i]] # "vercel"
       /\ Tunnel(s, "bind", [tun[s] EXCEPT !.gate = tun[s].list[i]])

(* establish_with_endpoints: dial and bind, endpoint by endpoint. *)
Dial(s, i) ==
  Tunnel(s, "dial", [tun[s] EXCEPT !.idx = i, !.gate = tun[s].list[i]])

Cold(s) == stage[s] = "attempt" /\ Dial(s, 1)
DialOk(s) == stage[s] = "dial" /\ Goto(s, "bind")

(* The error of the last endpoint decides: only an error of the network is
   tried again, MAX_ATTEMPTS times in all. *)
RoundOver(s, err) ==
  IF err = "denied" \/ tun[s].att + 1 >= MaxAttempts
  THEN Answer(s, "tunnel_failed")
  ELSE Tunnel(s, "attempt", [tun[s] EXCEPT !.att = @ + 1, !.idx = 0, !.gate = None])

NextEndpoint(s, err) ==
  IF tun[s].idx < Len(tun[s].list) THEN Dial(s, tun[s].idx + 1)
  ELSE RoundOver(s, err)

DialFails(s) == stage[s] = "dial" /\ NextEndpoint(s, "network")

BindOk(s) ==
  /\ stage[s] = "bind"
  /\ Tunnel(s, "relay", [tun[s] EXCEPT !.list = <<>>, !.att = 0, !.idx = 0])

(* A standby session that cannot be bound is replaced by a cold round. *)
BindFails(s, err) ==
  /\ stage[s] = "bind"
  /\ IF tun[s].idx = 0 THEN Dial(s, 1) ELSE NextEndpoint(s, err)

(* relay(): what came with the head is sent first; no deadline at all. *)
RelayEnds(s) == stage[s] = "relay" /\ Answer(s, "served")

-----------------------------------------------------------------------------
(* forward_handler: the body, at most MAX_BODY_SIZE, is read whole ... *)
BodyRead(s) ==
  /\ stage[s] = "target"
  /\ Goto(s, "forward") \/ Answer(s, "413") \/ Answer(s, "closed")

(* ... and UpstreamManager::forward resolves the route, picks the edge, and
   streams the edge's answer. *)
Forwarded(s) ==
  /\ stage[s] = "forward"
  /\ \E a \in {"404", "503", "upstream_failed", "served"} : Answer(s, a)

EngineStep(s) ==
  \/ ConnectTarget(s) \/ VideoOk(s) \/ VideoFails(s)
  \/ Checkout(s) \/ Cold(s) \/ DialOk(s) \/ DialFails(s) \/ BindOk(s)
  \/ \E err \in {"denied", "network"} : BindFails(s, err)
  \/ RelayEnds(s) \/ BodyRead(s) \/ Forwarded(s)

-----------------------------------------------------------------------------
(* A host that must leave by a compliant egress never gets a tunnel through a
   Cloudflare gate: neither on a standby session, which the engine uses for
   such hosts too, nor after any failover, denial or retry. *)
EngineEgress ==
  \A s \in Sessions :
    stage[s] = "relay" /\ tun[s].host \in Compliant /\ tun[s].gate # None =>
      Class[tun[s].gate] # "cf"
=============================================================================
