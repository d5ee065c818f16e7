--------------------------- MODULE HaNodeProofs ---------------------------
(***************************************************************************)
(* Proofs about HaNode, EngineConn and UserService, for any number of      *)
(* sessions, clients, users and gates and any number of attempts: a host   *)
(* that needs a compliant egress never gets a tunnel through a Cloudflare  *)
(* gate from the engine either.                                            *)
(*                                                                         *)
(* The facts about lists are those of DataPlaneProofs, which is about      *)
(* another specification with variables of its own.                        *)
(***************************************************************************)
EXTENDS HaNode, FiniteSetTheorems, SequenceTheorems, TLAPS

(* A set of numbers has a least element. *)
LEMMA LeastNat ==
  ASSUME NEW T, T \subseteq Nat, T # {}
  PROVE  \E n \in T : \A m \in T : n <= m
<1>1. PICK t \in T : TRUE
  OBVIOUS
<1> DEFINE U == {x \in SUBSET (0..t) : \E m \in T : x = 0..m}
<1>2. IsFiniteSet(0..t) /\ IsWellFoundedOn(StrictSubsetOrdering(0..t), SUBSET (0..t))
  <2>1. IsFiniteSet(0..t)
    BY <1>1, FS_Interval
  <2> QED BY <2>1, FS_StrictSubsetOrderingWellFounded, FS_FiniteSubsetsOfFinite
<1>3. U # {} /\ U \subseteq SUBSET (0..t)
  BY <1>1
<1>4. PICK x \in U : \A y \in U : ~ (<<y, x>> \in StrictSubsetOrdering(0..t))
  <2> HIDE DEF U
  <2> QED BY <1>2, <1>3, WFMin
<1>5. PICK n \in T : x = 0..n
  OBVIOUS
<1>6. ASSUME NEW m \in T, m < n PROVE FALSE
  <2>1. 0..m \subseteq 0..n /\ n \in 0..n /\ n \notin 0..m
    BY <1>6
  <2>2. 0..m \in U
    BY <1>5, <2>1
  <2> QED BY <1>4, <1>5, <2>1, <2>2 DEF StrictSubsetOrdering
<1> QED BY <1>5, <1>6

(* A function that follows the recursion of Only on the first n entries. *)
Keeps(f, q, S, n) ==
  f = [i \in 0..n |-> IF i = 0 THEN <<>>
                      ELSE IF q[i] \in S THEN Append(f[i - 1], q[i]) ELSE f[i - 1]]

LEMMA KeepsExists ==
  ASSUME NEW A, NEW q \in Seq(A), NEW S, NEW n \in Nat, n <= Len(q)
  PROVE  \E f : Keeps(f, q, S, n)
<1> DEFINE Bad == {i \in 0..Len(q) : ~ \E f : Keeps(f, q, S, i)}
<1>1. SUFFICES ASSUME Bad # {} PROVE FALSE
  OBVIOUS
<1>2. PICK m \in Bad : \A i \in Bad : m <= i
  <2>1. Bad \subseteq Nat
    OBVIOUS
  <2> HIDE DEF Bad
  <2> QED BY <1>1, <2>1, LeastNat
<1>3. m # 0
  <2>1. Keeps([i \in 0..0 |-> <<>>], q, S, 0)
    BY DEF Keeps
  <2> QED BY <2>1
<1>4. PICK f : Keeps(f, q, S, m - 1)
  BY <1>2, <1>3
<1> DEFINE g == [i \in 0..m |-> IF i < m THEN f[i] ELSE
                   IF q[m] \in S THEN Append(f[m - 1], q[m]) ELSE f[m - 1]]
<1>5. m \in Nat \ {0}
  BY <1>3
<1>6. \A i \in 0..(m - 1) : f[i] = IF i = 0 THEN <<>>
                      ELSE IF q[i] \in S THEN Append(f[i - 1], q[i]) ELSE f[i - 1]
  BY <1>4, <1>5 DEF Keeps
<1>7. Keeps(g, q, S, m)
  <2>1. \A i \in 0..m : g[i] = IF i = 0 THEN <<>>
                      ELSE IF q[i] \in S THEN Append(g[i - 1], q[i]) ELSE g[i - 1]
    <3> SUFFICES ASSUME NEW i \in 0..m PROVE g[i] = IF i = 0 THEN <<>>
                      ELSE IF q[i] \in S THEN Append(g[i - 1], q[i]) ELSE g[i - 1]
      OBVIOUS
    <3>1. CASE i = 0
      BY <1>5, <1>6, <3>1
    <3>2. CASE i # 0 /\ i < m
      <4>1. g[i] = f[i] /\ g[i - 1] = f[i - 1]
        BY <1>5, <3>2
      <4> QED BY <1>5, <1>6, <3>2, <4>1
    <3>3. CASE i = m
      <4>1. g[m - 1] = f[m - 1]
        BY <1>5
      <4> QED BY <1>5, <3>3, <4>1
    <3> QED BY <1>5, <3>1, <3>2, <3>3
  <2>2. g = [i \in 0..m |-> g[i]]
    OBVIOUS
  <2> HIDE DEF g
  <2> QED BY <2>1, <2>2 DEF Keeps
<1> QED BY <1>7

LEMMA OnlyFacts ==
  ASSUME NEW A, NEW q \in Seq(A), NEW S
  PROVE  Only(q, S) \in Seq(A \cap S)
<1> DEFINE Eq(h) == h = [i \in 0..Len(q) |-> IF i = 0 THEN <<>>
                      ELSE IF q[i] \in S THEN Append(h[i - 1], q[i]) ELSE h[i - 1]]
<1> DEFINE f == CHOOSE h : Eq(h)
<1>1. Only(q, S) = f[Len(q)]
  BY DEF Only
<1>2. \E h : Eq(h)
  <2>1. \A h : Eq(h) <=> Keeps(h, q, S, Len(q))
    BY DEF Keeps
  <2> HIDE DEF Eq
  <2>2. Len(q) \in Nat /\ Len(q) <= Len(q)
    OBVIOUS
  <2> QED BY <2>1, <2>2, KeepsExists
<1>3. Eq(f)
  <2> HIDE DEF Eq
  <2> QED BY <1>2
<1>4. \A i \in 0..Len(q) : f[i] = IF i = 0 THEN <<>>
                      ELSE IF q[i] \in S THEN Append(f[i - 1], q[i]) ELSE f[i - 1]
  <2> HIDE DEF f
  <2> QED BY <1>3
<1> HIDE DEF f
<1> DEFINE Bad == {i \in 0..Len(q) : f[i] \notin Seq(A \cap S)}
<1>5. Bad = {}
  <2>1. SUFFICES ASSUME Bad # {} PROVE FALSE
    OBVIOUS
  <2>2. PICK m \in Bad : \A i \in Bad : m <= i
    <3>1. Bad \subseteq Nat
      OBVIOUS
    <3> HIDE DEF Bad
    <3> QED BY <2>1, <3>1, LeastNat
  <2>3. m # 0
    <3>1. f[0] = <<>>
      BY <1>4
    <3>2. <<>> \in Seq(A \cap S)
      OBVIOUS
    <3>3. f[m] \notin Seq(A \cap S)
      OBVIOUS
    <3> HIDE DEF Bad
    <3> QED BY <3>1, <3>2, <3>3
  <2>4. m - 1 \in 0..Len(q) /\ m - 1 \notin Bad /\ m \in 1..Len(q)
    BY <2>2, <2>3
  <2>5. f[m - 1] \in Seq(A \cap S) /\ q[m] \in A
    BY <2>4
  <2>6. f[m] = IF q[m] \in S THEN Append(f[m - 1], q[m]) ELSE f[m - 1]
    BY <1>4, <2>3
  <2>7. f[m] \in Seq(A \cap S)
    BY <2>5, <2>6
  <2> QED BY <2>7
<1> QED BY <1>1, <1>5

-----------------------------------------------------------------------------
(* The gates a compliant host may use. *)
Safe == {e \in Endpoints : Class[e] # "cf"}

(* Rotating a list keeps what is in it. *)
LEMMA RotateFacts ==
  ASSUME NEW A, NEW q \in Seq(A), NEW n \in Nat
  PROVE  Rotate(q, n) \in Seq(A)
<1>1. Len(q) \in Nat
  OBVIOUS
<1>2. ASSUME NEW i \in 1..Len(q)
      PROVE  q[((i - 1 + n) % Len(q)) + 1] \in A
  <2>1. (i - 1 + n) % Len(q) \in 0 .. (Len(q) - 1)
    BY <1>1
  <2>2. ((i - 1 + n) % Len(q)) + 1 \in 1..Len(q)
    BY <1>1, <2>1
  <2> QED BY <2>2
<1> QED BY <1>1, <1>2, IsASeq DEF Rotate

(* The endpoints of a CONNECT are configured gates, and safe ones for a
   compliant host. *)
LEMMA EndpointFacts ==
  ASSUME NEW h \in Hosts, NEW n \in Offsets
  PROVE  /\ EndpointsFor(h, n) \in Seq(Endpoints)
         /\ h \in Compliant => EndpointsFor(h, n) \in Seq(Safe)
<1>1. Gates \in Seq(Endpoints) /\ n \in Nat
  BY EngineAssumption
<1>2. ASSUME NEW k PROVE OfClass(Gates, k) \in Seq(Endpoints)
  <2>1. OfClass(Gates, k) \in Seq(Endpoints \cap {e \in Endpoints : Class[e] = k})
    BY <1>1, OnlyFacts DEF OfClass
  <2>2. Endpoints \cap {e \in Endpoints : Class[e] = k} \subseteq Endpoints
    OBVIOUS
  <2> QED BY <2>1, <2>2, SeqMonotonic
<1>3. \A k : Rotate(OfClass(Gates, k), n) \in Seq(Endpoints)
  BY <1>1, <1>2, RotateFacts
<1>4. ordered_gate_urls(Gates, h, n) \in Seq(Endpoints)
  BY <1>3 DEF ordered_gate_urls
<1>5. compliant_egress_endpoints(ordered_gate_urls(Gates, h, n)) \in Seq(Safe)
  <2>1. Endpoints \cap Safe = Safe
    BY DEF Safe
  <2> QED BY <1>4, <2>1, OnlyFacts DEF compliant_egress_endpoints, Safe
<1>6. Seq(Safe) \subseteq Seq(Endpoints)
  BY SeqMonotonic DEF Safe
<1> QED BY <1>4, <1>5, <1>6 DEF EndpointsFor

-----------------------------------------------------------------------------
(* The inductive invariant.  A tunnel t of a session at stage p: while it is
   established there are endpoints to try, and all a compliant host has in its
   list, or is bound to, is safe. *)
Tunneled(p, t) ==
  /\ p = "video" => t.host \in Hosts /\ t.gate = None
  /\ p \in {"attempt", "dial", "bind"} =>
       t.list # <<>> /\ (t.host \in Compliant => t.list \in Seq(Safe))
  /\ p \in {"dial", "bind", "relay"} /\ t.host \in Compliant /\ t.gate # None =>
       t.gate \in Safe

TunnelInv == \A s \in Sessions : Tunneled(stage[s], tun[s])

(* The forwarder's flag and what is known of a session besides its tunnel. *)
FlagOK ==
  /\ up \in [Engines -> BOOLEAN] /\ healthy \in BOOLEAN /\ failed \in 0 .. 2
  /\ prober \in {"sleep", "reached", "missed"}
CallerOK ==
  /\ client \in [Sessions -> Clients \cup {None}]
  /\ via \in [Sessions -> Engines \cup {None}]
  /\ ticket \in [Sessions -> {None, "minted", "forged"}]
ConnOK == ConnTypeOK /\ stage \in [Sessions -> Stages]

SessInv == ConnOK /\ TunnelInv

IInv == TypeOK /\ TunnelInv

-----------------------------------------------------------------------------
LEMMA TypeParts == TypeOK <=> UserTypeOK /\ ConnOK /\ FlagOK /\ CallerOK
BY DEF TypeOK, ConnOK, FlagOK, CallerOK

LEMMA NoTunnelFacts ==
  /\ NoTunnel \in Tunnels /\ NoTunnel.idx <= Len(NoTunnel.list)
  /\ NoTunnel.host = None /\ NoTunnel.gate = None /\ NoTunnel.list = <<>>
  /\ NoTunnel.att = 0 /\ NoTunnel.idx = 0
BY EngineAssumption DEF NoTunnel, Tunnels

(* A session without a tunnel, and one that has a relay but no gate. *)
LEMMA OverFacts ==
  ASSUME NEW p, p \notin {"video", "attempt", "dial", "bind", "relay"}, NEW t
  PROVE  Tunneled(p, t)
BY DEF Tunneled

(* A step of the connection of session s. *)
LEMMA ConnStep ==
  ASSUME ConnOK, TunnelInv, NEW s \in Sessions, NEW p \in Stages, NEW a \in Answers,
         NEW t \in Tunnels, t.idx <= Len(t.list), Tunneled(p, t),
         stage' = [stage EXCEPT ![s] = p], answer' = [answer EXCEPT ![s] = a],
         tun' = [tun EXCEPT ![s] = t]
  PROVE  ConnOK' /\ TunnelInv'
<1>1. /\ stage' \in [Sessions -> Stages] /\ answer' \in [Sessions -> Answers]
      /\ tun' \in [Sessions -> Tunnels]
  BY DEF ConnOK, ConnTypeOK
<1>2. \A r \in Sessions : /\ stage'[r] = IF r = s THEN p ELSE stage[r]
                          /\ tun'[r] = IF r = s THEN t ELSE tun[r]
  BY DEF ConnOK, ConnTypeOK
<1>3. \A r \in Sessions : tun'[r].idx <= Len(tun'[r].list)
  BY <1>2 DEF ConnOK, ConnTypeOK
<1>4. \A r \in Sessions : Tunneled(stage'[r], tun'[r])
  BY <1>2 DEF TunnelInv
<1> QED BY <1>1, <1>3, <1>4 DEF ConnOK, ConnTypeOK, TunnelInv

LEMMA AnswerStep ==
  ASSUME SessInv, NEW s \in Sessions, NEW a \in Answers, Answer(s, a)
  PROVE  SessInv'
<1>1. Tunneled("over", NoTunnel)
  BY OverFacts
<1>2. "over" \in Stages
  BY DEF Stages
<1> QED BY <1>1, <1>2, NoTunnelFacts, ConnStep DEF Answer, SessInv

LEMMA TunnelStep ==
  ASSUME SessInv, NEW s \in Sessions, NEW p \in Stages,
         NEW t \in Tunnels, t.idx <= Len(t.list), Tunneled(p, t), Tunnel(s, p, t)
  PROVE  SessInv'
<1>1. answer[s] \in Answers /\ answer' = [answer EXCEPT ![s] = answer[s]]
  BY DEF SessInv, ConnOK, ConnTypeOK, Tunnel
<1> QED BY <1>1, ConnStep DEF Tunnel, SessInv

LEMMA GotoStep ==
  ASSUME SessInv, NEW s \in Sessions, NEW p \in Stages,
         Tunneled(p, tun[s]), Goto(s, p)
  PROVE  SessInv'
<1>1. /\ tun[s] \in Tunnels /\ tun[s].idx <= Len(tun[s].list)
      /\ tun' = [tun EXCEPT ![s] = tun[s]]
  BY DEF SessInv, ConnOK, ConnTypeOK, Goto
<1>2. Tunnel(s, p, tun[s])
  BY <1>1 DEF Goto, Tunnel
<1> QED BY <1>1, <1>2, TunnelStep

-----------------------------------------------------------------------------
(* What the tunnel of a session may become. *)
LEMMA TunnelFacts ==
  ASSUME SessInv, NEW s \in Sessions
  PROVE  /\ tun[s] \in Tunnels /\ tun[s].host \in Hosts \cup {None}
         /\ tun[s].list \in Seq(Endpoints) /\ tun[s].att \in 0 .. MaxAttempts - 1
         /\ tun[s].idx \in Nat /\ tun[s].gate \in Endpoints \cup {None}
         /\ tun[s].idx <= Len(tun[s].list) /\ Tunneled(stage[s], tun[s])
BY DEF SessInv, ConnOK, ConnTypeOK, TunnelInv, Tunnels

LEMMA RouteStep ==
  ASSUME SessInv, NEW s \in Sessions,
         NEW h \in Hosts, NEW n \in Offsets,
         Route(s, h, n)
  PROVE  SessInv'
<1> DEFINE q == EndpointsFor(h, n)
           t == [NoTunnel EXCEPT !.host = h, !.list = q]
<1>1. q \in Seq(Endpoints) /\ (h \in Compliant => q \in Seq(Safe))
  BY EndpointFacts
<1> HIDE DEF q
<1>2. CASE q = <<>>
  <2>1. Answer(s, "tunnel_failed")
    BY <1>2 DEF Route, q
  <2> QED BY <2>1, AnswerStep DEF Answers
<1>3. CASE q # <<>>
  <2>1. Tunnel(s, "attempt", t)
    BY <1>3 DEF Route, q
  <2>2. h \in Hosts \cup {None}
    OBVIOUS
  <2>3. t \in Tunnels /\ t.idx = 0 /\ t.list = q /\ t.host = h /\ t.gate = None
    BY <1>1, <2>2, NoTunnelFacts DEF Tunnels
  <2>4. t.idx <= Len(t.list) /\ Tunneled("attempt", t) /\ "attempt" \in Stages
    <3> HIDE DEF t
    <3> QED BY <1>1, <1>3, <2>3 DEF Tunneled, Stages
  <2> HIDE DEF t
  <2> QED BY <2>1, <2>3, <2>4, TunnelStep
<1> QED BY <1>2, <1>3

(* The gate dialled is one of the list. *)
LEMMA DialStep ==
  ASSUME SessInv, NEW s \in Sessions, stage[s] \in {"attempt", "dial", "bind"},
         NEW i \in 1 .. Len(tun[s].list), Dial(s, i)
  PROVE  SessInv'
<1> DEFINE t == [tun[s] EXCEPT !.idx = i, !.gate = tun[s].list[i]]
<1>1. tun[s].list[i] \in Endpoints /\ i \in Nat
  BY TunnelFacts
<1>2. tun[s].host \in Compliant => tun[s].list[i] \in Safe
  BY TunnelFacts DEF Tunneled
<1>3. /\ t \in Tunnels /\ t.idx = i /\ t.list = tun[s].list /\ t.host = tun[s].host
      /\ t.gate = tun[s].list[i]
  BY <1>1, TunnelFacts DEF Tunnels
<1>4. Tunneled("dial", t) /\ t.idx <= Len(t.list) /\ "dial" \in Stages
  <2> HIDE DEF t
  <2> QED BY <1>2, <1>3, TunnelFacts DEF Tunneled, Stages
<1>5. Tunnel(s, "dial", t)
  BY DEF Dial
<1> HIDE DEF t
<1> QED BY <1>3, <1>4, <1>5, TunnelStep

LEMMA RoundStep ==
  ASSUME SessInv, NEW s \in Sessions, stage[s] \in {"attempt", "dial", "bind"},
         NEW err, NextEndpoint(s, err)
  PROVE  SessInv'
<1>1. CASE tun[s].idx < Len(tun[s].list)
  <2>1. tun[s].idx + 1 \in 1 .. Len(tun[s].list)
    BY <1>1, TunnelFacts
  <2> QED BY <1>1, <2>1, DialStep DEF NextEndpoint
<1>2. CASE ~(tun[s].idx < Len(tun[s].list))
  <2>1. CASE Answer(s, "tunnel_failed")
    BY <2>1, AnswerStep DEF Answers
  <2>2. CASE ~(tun[s].att + 1 >= MaxAttempts) /\ Tunnel(s, "attempt",
               [tun[s] EXCEPT !.att = @ + 1, !.idx = 0, !.gate = None])
    <3> DEFINE t == [tun[s] EXCEPT !.att = @ + 1, !.idx = 0, !.gate = None]
    <3>1. tun[s].att + 1 \in 0 .. MaxAttempts - 1
      BY <2>2, TunnelFacts, EngineAssumption
    <3>2. /\ t \in Tunnels /\ t.idx = 0 /\ t.list = tun[s].list
          /\ t.host = tun[s].host /\ t.gate = None
      BY <3>1, TunnelFacts DEF Tunnels
    <3>3. Tunnel(s, "attempt", t)
      BY <2>2
    <3> HIDE DEF t
    <3>4. Tunneled("attempt", t) /\ t.idx <= Len(t.list) /\ "attempt" \in Stages
      BY <3>2, TunnelFacts DEF Tunneled, Stages
    <3> QED BY <3>2, <3>3, <3>4, TunnelStep
  <2> QED BY <1>2, <2>1, <2>2 DEF NextEndpoint, RoundOver
<1> QED BY <1>1, <1>2
-----------------------------------------------------------------------------
(* The steps of the engine's connections, action by action. *)
LEMMA EngineStepInv ==
  ASSUME SessInv, NEW s \in Sessions, EngineStep(s)
  PROVE  SessInv'
<1>1. ASSUME ConnectTarget(s) PROVE SessInv'
  <2>1. stage[s] # "idle"
    BY <1>1 DEF ConnectTarget
  <2>2. CASE Answer(s, "400") \/ Answer(s, "403")
    BY <2>1, <2>2, AnswerStep DEF Answers
  <2>3. ASSUME NEW h \in Hosts, Tunnel(s, "video", [NoTunnel EXCEPT !.host = h])
        PROVE  SessInv'
    <3> DEFINE t == [NoTunnel EXCEPT !.host = h]
    <3>1. t = [host |-> h, list |-> <<>>, att |-> 0, idx |-> 0, gate |-> None]
      BY DEF NoTunnel
    <3>2. Tunnel(s, "video", t)
      BY <2>3
    <3> HIDE DEF t
    <3>3. t \in Tunnels /\ t.idx <= Len(t.list) /\ Tunneled("video", t) /\ "video" \in Stages
      BY <3>1, EngineAssumption DEF Tunnels, Tunneled, Stages
    <3> QED BY <2>1, <3>2, <3>3, TunnelStep
  <2>4. ASSUME NEW h \in Hosts, NEW n \in Offsets, Route(s, h, n)
        PROVE  SessInv'
    BY <2>1, <2>4, RouteStep
  <2> QED BY <1>1, <2>2, <2>3, <2>4 DEF ConnectTarget
<1>2. ASSUME VideoOk(s) PROVE SessInv'
  <2>1. stage[s] = "video" /\ Goto(s, "relay")
    BY <1>2 DEF VideoOk
  <2>2. Tunneled("relay", tun[s]) /\ "relay" \in Stages
    BY <2>1, TunnelFacts DEF Tunneled, Stages
  <2> QED BY <2>1, <2>2, GotoStep
<1>3. ASSUME VideoFails(s) PROVE SessInv'
  <2>1. stage[s] = "video"
    BY <1>3 DEF VideoFails
  <2>2. tun[s].host \in Hosts
    BY <2>1, TunnelFacts DEF Tunneled
  <2> QED BY <1>3, <2>1, <2>2, RouteStep DEF VideoFails
<1>4. ASSUME Checkout(s) PROVE SessInv'
  <2>1. PICK i \in 1 .. Len(tun[s].list) :
          Tunnel(s, "bind", [tun[s] EXCEPT !.gate = tun[s].list[i]])
    BY <1>4 DEF Checkout
  <2>2. stage[s] = "attempt"
    BY <1>4 DEF Checkout
  <2>3. /\ tun[s].list[i] \in Endpoints
        /\ tun[s].host \in Compliant => tun[s].list[i] \in Safe
    BY <2>2, TunnelFacts DEF Tunneled
  <2> DEFINE t == [tun[s] EXCEPT !.gate = tun[s].list[i]]
  <2>4. /\ t \in Tunnels /\ t.idx = tun[s].idx /\ t.list = tun[s].list
        /\ t.host = tun[s].host /\ t.gate = tun[s].list[i]
    BY <2>3, TunnelFacts DEF Tunnels
  <2>5. Tunnel(s, "bind", t)
    BY <2>1
  <2> HIDE DEF t
  <2>6. Tunneled("bind", t) /\ t.idx <= Len(t.list) /\ "bind" \in Stages
    BY <2>2, <2>3, <2>4, TunnelFacts DEF Tunneled, Stages
  <2> QED BY <2>2, <2>4, <2>5, <2>6, TunnelStep
<1>5. ASSUME Cold(s) PROVE SessInv'
  <2>1. stage[s] = "attempt" /\ Dial(s, 1)
    BY <1>5 DEF Cold
  <2>2. 1 \in 1 .. Len(tun[s].list)
    BY <2>1, TunnelFacts DEF Tunneled
  <2> QED BY <2>1, <2>2, DialStep
<1>6. ASSUME DialOk(s) PROVE SessInv'
  <2>1. stage[s] = "dial" /\ Goto(s, "bind")
    BY <1>6 DEF DialOk
  <2>2. Tunneled("bind", tun[s]) /\ "bind" \in Stages
    BY <2>1, TunnelFacts DEF Tunneled, Stages
  <2> QED BY <2>1, <2>2, GotoStep
<1>7. ASSUME DialFails(s) PROVE SessInv'
  BY <1>7, RoundStep DEF DialFails
<1>8. ASSUME BindOk(s) PROVE SessInv'
  <2> DEFINE t == [tun[s] EXCEPT !.list = <<>>, !.att = 0, !.idx = 0]
  <2>1. stage[s] = "bind" /\ Tunnel(s, "relay", t)
    BY <1>8 DEF BindOk
  <2>2. <<>> \in Seq(Endpoints) /\ 0 \in 0 .. MaxAttempts - 1
    BY EngineAssumption
  <2>3. /\ t \in Tunnels /\ t.idx = 0 /\ t.list = <<>>
        /\ t.host = tun[s].host /\ t.gate = tun[s].gate
    BY <2>2, TunnelFacts DEF Tunnels
  <2> HIDE DEF t
  <2>4. Tunneled("relay", t) /\ t.idx <= Len(t.list) /\ "relay" \in Stages
    BY <2>1, <2>3, TunnelFacts DEF Tunneled, Stages
  <2> QED BY <2>1, <2>3, <2>4, TunnelStep
<1>9. ASSUME NEW err, BindFails(s, err) PROVE SessInv'
  <2>1. stage[s] = "bind"
    BY <1>9 DEF BindFails
  <2>2. 1 \in 1 .. Len(tun[s].list)
    BY <2>1, TunnelFacts DEF Tunneled
  <2> QED BY <1>9, <2>1, <2>2, DialStep, RoundStep DEF BindFails
<1>10. ASSUME RelayEnds(s) PROVE SessInv'
  BY <1>10, AnswerStep DEF RelayEnds, Answers
<1>11. ASSUME BodyRead(s) PROVE SessInv'
  <2>1. Tunneled("forward", tun[s]) /\ "forward" \in Stages
    BY OverFacts DEF Stages
  <2> QED BY <1>11, <2>1, AnswerStep, GotoStep DEF BodyRead, Answers
<1>12. ASSUME Forwarded(s) PROVE SessInv'
  BY <1>12, AnswerStep DEF Forwarded, Answers
<1> QED BY <1>1, <1>2, <1>3, <1>4, <1>5, <1>6, <1>7, <1>8, <1>9, <1>10, <1>11, <1>12
        DEF EngineStep
-----------------------------------------------------------------------------
(* The users: every command stores a table. *)
LEMMA StoreFacts ==
  ASSUME UserTypeOK, NEW t \in UserTables, StoreUsers(t) PROVE UserTypeOK'
BY UserAssumption DEF UserTypeOK, StoreUsers

LEMMA CommandFacts ==
  ASSUME UserTypeOK, UserCommand PROVE UserTypeOK'
<1>1. PICK u \in Users : \/ \E p \in Passwords, f \in Endless : create_user(u, p, f)
                         \/ delete_user(u)
                         \/ \E d \in BOOLEAN : set_disabled(u, d)
                         \/ \E p \in Passwords : update_password(u, p)
  BY DEF UserCommand
<1>2. users \in [Users -> UserRow \cup {NoUser}]
  BY DEF UserTypeOK, UserTables
<1>3. ASSUME NEW p \in Passwords, NEW f \in Endless, create_user(u, p, f)
      PROVE  \E t \in UserTables : StoreUsers(t)
  <2>1. [pw |-> p, disabled |-> FALSE, forever |-> f] \in UserRow
    BY UserAssumption DEF UserRow
  <2> QED BY <1>2, <1>3, <2>1 DEF create_user, UserTables
<1>4. ASSUME delete_user(u) PROVE \E t \in UserTables : StoreUsers(t)
  BY <1>2, <1>4 DEF delete_user, UserTables
<1>5. ASSUME NEW d \in BOOLEAN, set_disabled(u, d)
      PROVE  \E t \in UserTables : StoreUsers(t)
  <2>1. users[u] \in UserRow
    BY <1>2, <1>5 DEF set_disabled
  <2>2. [users[u] EXCEPT !.disabled = d] \in UserRow
    BY <2>1 DEF UserRow
  <2>3. [users EXCEPT ![u] = [users[u] EXCEPT !.disabled = d]] \in UserTables
    BY <1>2, <2>2 DEF UserTables
  <2> QED BY <1>5, <2>3 DEF set_disabled
<1>6. ASSUME NEW p \in Passwords, update_password(u, p)
      PROVE  \E t \in UserTables : StoreUsers(t)
  <2>1. users[u] \in UserRow
    BY <1>2, <1>6 DEF update_password
  <2>2. [users[u] EXCEPT !.pw = p] \in UserRow
    BY <2>1 DEF UserRow
  <2>3. [users EXCEPT ![u] = [users[u] EXCEPT !.pw = p]] \in UserTables
    BY <1>2, <2>2 DEF UserTables
  <2> QED BY <1>6, <2>3 DEF update_password
<1>7. PICK t \in UserTables : StoreUsers(t)
  BY <1>1, <1>3, <1>4, <1>5, <1>6
<1> QED BY <1>7, StoreFacts

LEMMA UserFacts ==
  ASSUME UserTypeOK, UserClock \/ refresh_cache \/ UNCHANGED userVars
  PROVE  UserTypeOK'
BY DEF UserTypeOK, UserClock, refresh_cache, userVars

-----------------------------------------------------------------------------
LEMMA InvParts == IInv <=> SessInv /\ UserTypeOK /\ FlagOK /\ CallerOK
BY TypeParts DEF IInv, SessInv

LEMMA InvNext == SessInv' /\ UserTypeOK' /\ FlagOK' /\ CallerOK' => IInv'
BY DEF IInv, SessInv, TypeOK, ConnOK, FlagOK, CallerOK

LEMMA InitInv == Init => IInv
<1> SUFFICES ASSUME Init PROVE IInv
  OBVIOUS
<1>1. UserTypeOK
  <2>1. users \in UserTables /\ known = users
    BY DEF Init, UserInit, UserTables
  <2>2. expired \in BOOLEAN
    BY DEF Init, UserInit
  <2>3. edits \in 0 .. MaxEdits
    BY UserAssumption DEF Init, UserInit
  <2> QED BY <2>1, <2>2, <2>3 DEF UserTypeOK
<1>2. FlagOK /\ CallerOK
  BY DEF Init, FlagOK, CallerOK
<1>3. ConnOK
  BY NoTunnelFacts DEF Init, ConnInit, ConnOK, ConnTypeOK, Stages, Answers
<1>4. TunnelInv
  BY OverFacts DEF Init, ConnInit, TunnelInv
<1> QED BY <1>1, <1>2, <1>3, <1>4, InvParts DEF SessInv

LEMMA SessStill ==
  ASSUME SessInv, UNCHANGED conn PROVE SessInv'
<1>1. ConnOK'
  BY DEF SessInv, ConnOK, ConnTypeOK, conn
<1>2. TunnelInv'
  BY DEF SessInv, TunnelInv, conn
<1> QED BY <1>1, <1>2 DEF SessInv

LEMMA CallerStill == CallerOK /\ UNCHANGED caller => CallerOK'
BY DEF CallerOK, caller

LEMMA ProbeInv ==
  ASSUME IInv, Probe \/ ProbeReached \/ ProbeMissed PROVE IInv'
<1>1. UNCHANGED <<userVars, up, sess>>
  BY DEF Probe, ProbeReached, ProbeMissed
<1>2. UserTypeOK' /\ CallerOK'
  BY <1>1, InvParts, UserFacts, CallerStill DEF sess, caller
<1>3. SessInv'
  BY <1>1, InvParts, SessStill DEF sess
<1>4. FlagOK
  BY InvParts
<1>5. ASSUME Probe PROVE FlagOK'
  BY <1>4, <1>5 DEF FlagOK, Probe
<1>6. ASSUME ProbeReached PROVE FlagOK'
  BY <1>4, <1>6 DEF FlagOK, ProbeReached
<1>7. ASSUME ProbeMissed PROVE FlagOK'
  <2>1. failed' \in 0 .. 2 /\ healthy' \in BOOLEAN /\ prober' = "sleep" /\ up' = up
    BY <1>4, <1>7 DEF FlagOK, ProbeMissed
  <2> QED BY <1>4, <2>1 DEF FlagOK
<1>8. FlagOK'
  BY <1>5, <1>6, <1>7 DEF FlagOK
<1> QED BY <1>2, <1>3, <1>8, InvNext
-----------------------------------------------------------------------------
(* The forwarder and the door of the engine. *)

(* A step of one session that has begun, by the parts it may change. *)
LEMMA ForwardInv ==
  ASSUME IInv, NEW s \in Sessions, Forward(s) PROVE IInv'
<1>1. SessInv /\ UserTypeOK /\ FlagOK /\ CallerOK
  BY InvParts
<1>2. \A p \in {"pick", "local", "remote", "engine", "trip"} :
        p \in Stages /\ Tunneled(p, tun[s])
  BY OverFacts DEF Stages
<1>3. UNCHANGED <<userVars, up, client>>
  BY DEF Forward, ReadHead, ReadFlag, TryLocal, Trip, TryRemote, caller
<1>4. UserTypeOK'
  BY <1>1, <1>3, UserFacts
<1>5. FlagOK'
  <2>1. prober' = prober /\ failed' = failed /\ up' = up
    BY DEF Forward, ReadHead, ReadFlag, TryLocal, Trip, TryRemote, flag
  <2>2. healthy' \in BOOLEAN
    BY <1>1 DEF Forward, ReadHead, ReadFlag, TryLocal, Trip, TryRemote, flag, FlagOK
  <2> QED BY <1>1, <2>1, <2>2 DEF FlagOK
<1>6. CallerOK'
  <2>1. via' \in [Sessions -> Engines \cup {None}]
    BY <1>1 DEF Forward, ReadHead, ReadFlag, TryLocal, Trip, TryRemote, caller, CallerOK, Engines
  <2>2. ticket' \in [Sessions -> {None, "minted", "forged"}]
    BY <1>1 DEF Forward, ReadHead, ReadFlag, TryLocal, Trip, TryRemote, caller, CallerOK
  <2> QED BY <1>1, <1>3, <2>1, <2>2 DEF CallerOK
<1>7. SessInv'
  <2>1. ASSUME ReadHead(s) PROVE SessInv'
    BY <1>1, <1>2, <2>1, AnswerStep, GotoStep DEF ReadHead, Answers
  <2>2. ASSUME ReadFlag(s) PROVE SessInv'
    BY <1>1, <1>2, <2>2, GotoStep DEF ReadFlag
  <2>3. ASSUME TryLocal(s) PROVE SessInv'
    BY <1>1, <1>2, <2>3, GotoStep DEF TryLocal
  <2>4. ASSUME Trip(s) PROVE SessInv'
    BY <1>1, <1>2, <2>4, GotoStep DEF Trip
  <2>5. ASSUME TryRemote(s) PROVE SessInv'
    BY <1>1, <1>2, <2>5, GotoStep, AnswerStep DEF TryRemote, Answers
  <2> QED BY <2>1, <2>2, <2>3, <2>4, <2>5 DEF Forward
<1> QED BY <1>4, <1>5, <1>6, <1>7, InvNext

LEMMA ConnectInv ==
  ASSUME IInv, NEW s \in Sessions, NEW c \in Clients, Connect(s, c) PROVE IInv'
<1>1. SessInv /\ UserTypeOK /\ FlagOK /\ CallerOK
  BY InvParts
<1>2. UserTypeOK' /\ FlagOK'
  BY <1>1, UserFacts DEF Connect, FlagOK, flag
<1>3. PICK p \in {"head", "engine"} : Goto(s, p)
  BY DEF Connect
<1>4. p \in Stages /\ Tunneled(p, tun[s])
  BY OverFacts DEF Stages
<1>5. CallerOK'
  <2>1. client' \in [Sessions -> Clients \cup {None}]
    BY <1>1 DEF Connect, CallerOK
  <2>2. via' \in [Sessions -> Engines \cup {None}]
    BY <1>1 DEF Connect, CallerOK, Engines
  <2>3. ticket' \in [Sessions -> {None, "minted", "forged"}]
    BY <1>1 DEF Connect, CallerOK
  <2> QED BY <2>1, <2>2, <2>3 DEF CallerOK
<1>6. ConnOK' /\ TunnelInv'
  <2>1. /\ tun[s] \in Tunnels /\ tun[s].idx <= Len(tun[s].list)
        /\ tun' = [tun EXCEPT ![s] = tun[s]]
        /\ answer[s] \in Answers /\ answer' = [answer EXCEPT ![s] = answer[s]]
    BY <1>1, <1>3 DEF SessInv, ConnOK, ConnTypeOK, Goto
  <2> QED BY <1>1, <1>3, <1>4, <2>1, ConnStep DEF Goto, SessInv
<1> QED BY <1>2, <1>5, <1>6, InvNext DEF SessInv

LEMMA CloseInv ==
  ASSUME IInv, NEW s \in Sessions, Close(s) PROVE IInv'
<1>1. SessInv /\ UserTypeOK /\ FlagOK /\ CallerOK
  BY InvParts
<1>2. UserTypeOK' /\ FlagOK'
  BY <1>1, UserFacts DEF Close, FlagOK, flag
<1>3. CallerOK'
  BY <1>1 DEF Close, CallerOK
<1>4. ConnOK' /\ TunnelInv'
  <2>1. /\ tun[s] \in Tunnels /\ tun[s].idx <= Len(tun[s].list)
        /\ tun' = [tun EXCEPT ![s] = tun[s]]
    BY <1>1 DEF SessInv, ConnOK, ConnTypeOK, Close
  <2>2. "idle" \in Stages /\ "none" \in Answers /\ Tunneled("idle", tun[s])
    BY OverFacts DEF Stages, Answers
  <2> QED BY <1>1, <2>1, <2>2, ConnStep DEF Close, SessInv
<1> QED BY <1>2, <1>3, <1>4, InvNext DEF SessInv

LEMMA EngineInv ==
  ASSUME IInv, NEW s \in Sessions, Engine(s) PROVE IInv'
<1>1. SessInv /\ UserTypeOK /\ FlagOK /\ CallerOK
  BY InvParts
<1>2. CASE Close(s)
  BY <1>2, CloseInv
<1>3. SUFFICES ASSUME UNCHANGED <<userVars, up, flag, caller>>,
                      \/ EngineDrops(s) \/ PublicPath(s)
                      \/ \E fresh \in BOOLEAN : EngineAuth(s, fresh)
                      \/ EngineStep(s)
               PROVE  SessInv'
  <2>1. ASSUME UNCHANGED <<userVars, up, flag, caller>>
        PROVE  UserTypeOK' /\ FlagOK' /\ CallerOK'
    BY <1>1, <2>1, UserFacts, CallerStill DEF FlagOK, flag
  <2>2. ~Close(s) => UNCHANGED <<userVars, up, flag, caller>>
    BY DEF Engine, EngineDrops, PublicPath, EngineAuth
  <2> QED BY <1>2, <2>1, <2>2, InvNext DEF Engine
<1>5. CASE EngineDrops(s)
  BY <1>1, <1>5, AnswerStep DEF EngineDrops, Answers
<1>6. CASE PublicPath(s)
  BY <1>1, <1>6, AnswerStep DEF PublicPath, Answers
<1>7. ASSUME NEW fresh, EngineAuth(s, fresh) PROVE SessInv'
  <2>1. stage[s] = "engine" /\ (Goto(s, "target") \/ Answer(s, "407"))
    BY <1>7 DEF EngineAuth
  <2>2. Tunneled("target", tun[s]) /\ "target" \in Stages
    BY OverFacts DEF Stages
  <2> QED BY <1>1, <2>1, <2>2, GotoStep, AnswerStep DEF Answers
<1>8. CASE EngineStep(s)
  BY <1>1, <1>8, EngineStepInv
<1> QED BY <1>3, <1>5, <1>6, <1>7, <1>8

(* An engine that goes down ends its sessions. *)
LEMMA DownInv ==
  ASSUME IInv, NEW e \in Engines, EngineDown(e) PROVE IInv'
<1>1. SessInv /\ UserTypeOK /\ FlagOK /\ CallerOK
  BY InvParts
<1>2. UserTypeOK' /\ FlagOK'
  BY <1>1, UserFacts DEF EngineDown, FlagOK, flag
<1>4. CallerOK'
  BY <1>1 DEF EngineDown, CallerOK
<1>5. ConnOK'
  <2>1. stage' \in [Sessions -> Stages]
    BY <1>1 DEF EngineDown, SessInv, ConnOK, Stages
  <2>2. answer' \in [Sessions -> Answers]
    BY <1>1 DEF EngineDown, SessInv, ConnOK, ConnTypeOK, Answers
  <2>3. \A r \in Sessions : tun'[r] = IF via[r] = e THEN NoTunnel ELSE tun[r]
    BY DEF EngineDown
  <2>4. tun' \in [Sessions -> Tunnels]
    BY <1>1, NoTunnelFacts DEF EngineDown, SessInv, ConnOK, ConnTypeOK
  <2>5. \A r \in Sessions : tun'[r].idx <= Len(tun'[r].list)
    BY <1>1, <2>3, NoTunnelFacts DEF SessInv, ConnOK, ConnTypeOK
  <2> QED BY <2>1, <2>2, <2>4, <2>5 DEF ConnOK, ConnTypeOK
<1>6. TunnelInv'
  <2> SUFFICES ASSUME NEW r \in Sessions PROVE Tunneled(stage'[r], tun'[r])
    BY DEF TunnelInv
  <2>1. CASE via[r] = e
    <3>1. stage'[r] = "over"
      BY <2>1 DEF EngineDown
    <3> QED BY <3>1, OverFacts
  <2>2. CASE via[r] # e
    <3>1. stage'[r] = stage[r] /\ tun'[r] = tun[r]
      BY <2>2 DEF EngineDown
    <3> QED BY <1>1, <3>1 DEF SessInv, TunnelInv
  <2> QED BY <2>1, <2>2
<1> QED BY <1>2, <1>4, <1>5, <1>6, InvNext DEF SessInv

LEMMA UpInv ==
  ASSUME IInv, NEW e \in Engines, EngineUp(e) PROVE IInv'
<1>1. SessInv /\ UserTypeOK /\ FlagOK /\ CallerOK
  BY InvParts
<1>2. up' = [up EXCEPT ![e] = TRUE] /\ UNCHANGED <<flag, sess>>
  BY DEF EngineUp
<1>3. UserTypeOK'
  BY <1>1, UserFacts DEF EngineUp
<1>4. FlagOK' /\ CallerOK'
  BY <1>1, <1>2, CallerStill DEF FlagOK, flag, sess, caller
<1>5. SessInv'
  BY <1>1, <1>2, SessStill DEF sess
<1> QED BY <1>3, <1>4, <1>5, InvNext

LEMMA UserCommandInv ==
  ASSUME IInv, UserCommand \/ UserClock \/ UNCHANGED userVars,
         UNCHANGED <<up, flag, sess>>
  PROVE  IInv'
<1>1. SessInv /\ UserTypeOK /\ FlagOK /\ CallerOK
  BY InvParts
<1>2. UserTypeOK'
  BY <1>1, CommandFacts, UserFacts
<1>3. FlagOK' /\ CallerOK'
  BY <1>1, CallerStill DEF FlagOK, flag, sess, caller
<1>4. SessInv'
  BY <1>1, SessStill DEF sess
<1> QED BY <1>2, <1>3, <1>4, InvNext

LEMMA Invariance == Spec => []IInv
<1>1. IInv /\ [Next]_vars => IInv'
  <2>1. IInv /\ UNCHANGED vars => IInv'
    BY UserCommandInv DEF vars
  <2> QED BY <2>1, ProbeInv, ConnectInv, ForwardInv, EngineInv, DownInv, UpInv,
             UserCommandInv DEF Next
<1> QED BY <1>1, InitInv, PTL DEF Spec

-----------------------------------------------------------------------------
(* Types: whatever the prober, the forwarder's sessions, the engines' crashes
   and the user commands do, the flag, the users and the sessions stay within
   their types; a round never runs past its list of endpoints, nor the rounds
   past MAX_ATTEMPTS. *)
THEOREM NodeTypeCorrect == Spec => []TypeOK
<1>1. IInv => TypeOK
  BY DEF IInv
<1> QED BY <1>1, Invariance, PTL

(* A host that must leave by a compliant egress gets no tunnel through a
   Cloudflare gate from the engine: on a standby session (Checkout), on a cold
   dial, or after failovers, denials and retries. *)
THEOREM EngineEgressCompliant == Spec => []EngineEgress
<1>1. IInv => EngineEgress
  BY DEF IInv, TunnelInv, Tunneled, EngineEgress, Safe
<1> QED BY <1>1, Invariance, PTL
=============================================================================
