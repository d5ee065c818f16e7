-------------------------- MODULE DataPlaneProofs --------------------------
(***************************************************************************)
(* Proofs about DataPlane, for any number of connections, permits and      *)
(* addresses, any lists of gates and any number of attempts: a host that   *)
(* needs a compliant egress is never tunnelled through a Cloudflare gate,  *)
(* and during a lockout fewer guesses than permits get through.            *)
(*                                                                         *)
(* The choice of endpoints filters and rotates a list; the first part of   *)
(* the module shows what it returns, by induction over the list: a least   *)
(* counterexample exists (LeastNat) and is impossible.                     *)
(***************************************************************************)
EXTENDS DataPlane, FiniteSetTheorems, SequenceTheorems, TLAPS

(* A set of numbers has a least element. *)
LEMMA LeastNat ==
  ASSUME NEW T, T \subseteq Nat, T # {}
  PROVE  \E n \in T : \A m \in T : n <= m
<1>1. PICK t \in T : TRUE
  OBVIOUS
<1> DEFINE U == {x \in SUBSET (0..t) : \E m \in T : x = 0..m}
<1>2. IsFiniteSet(0..t) /\ IsWellFoundedOn(StrictSubsetOrdering(0..t), SUBSET (0..t))
  <2>1. IsFiniteSet(0..t)
    BY <1>1, FS_Interval
  <2> QED BY <2>1, FS_StrictSubsetOrderingWellFounded, FS_FiniteSubsetsOfFinite
<1>3. U # {} /\ U \subseteq SUBSET (0..t)
  BY <1>1
<1>4. PICK x \in U : \A y \in U : ~ (<<y, x>> \in StrictSubsetOrdering(0..t))
  <2> HIDE DEF U
  <2> QED BY <1>2, <1>3, WFMin
<1>5. PICK n \in T : x = 0..n
  OBVIOUS
<1>6. ASSUME NEW m \in T, m < n PROVE FALSE
  <2>1. 0..m \subseteq 0..n /\ n \in 0..n /\ n \notin 0..m
    BY <1>6
  <2>2. 0..m \in U
    BY <1>5, <2>1
  <2> QED BY <1>4, <1>5, <2>1, <2>2 DEF StrictSubsetOrdering
<1> QED BY <1>5, <1>6

(* A function that follows the recursion of Only on the first n entries. *)
Keeps(f, q, S, n) ==
  f = [i \in 0..n |-> IF i = 0 THEN <<>>
                      ELSE IF q[i] \in S THEN Append(f[i - 1], q[i]) ELSE f[i - 1]]

LEMMA KeepsExists ==
  ASSUME NEW A, NEW q \in Seq(A), NEW S, NEW n \in Nat, n <= Len(q)
  PROVE  \E f : Keeps(f, q, S, n)
<1> DEFINE Bad == {i \in 0..Len(q) : ~ \E f : Keeps(f, q, S, i)}
<1>1. SUFFICES ASSUME Bad # {} PROVE FALSE
  OBVIOUS
<1>2. PICK m \in Bad : \A i \in Bad : m <= i
  <2>1. Bad \subseteq Nat
    OBVIOUS
  <2> HIDE DEF Bad
  <2> QED BY <1>1, <2>1, LeastNat
<1>3. m # 0
  <2>1. Keeps([i \in 0..0 |-> <<>>], q, S, 0)
    BY DEF Keeps
  <2> QED BY <2>1
<1>4. PICK f : Keeps(f, q, S, m - 1)
  BY <1>2, <1>3
<1> DEFINE g == [i \in 0..m |-> IF i < m THEN f[i] ELSE
                   IF q[m] \in S THEN Append(f[m - 1], q[m]) ELSE f[m - 1]]
<1>5. m \in Nat \ {0}
  BY <1>3
<1>6. \A i \in 0..(m - 1) : f[i] = IF i = 0 THEN <<>>
                      ELSE IF q[i] \in S THEN Append(f[i - 1], q[i]) ELSE f[i - 1]
  BY <1>4, <1>5 DEF Keeps
<1>7. Keeps(g, q, S, m)
  <2>1. \A i \in 0..m : g[i] = IF i = 0 THEN <<>>
                      ELSE IF q[i] \in S THEN Append(g[i - 1], q[i]) ELSE g[i - 1]
    <3> SUFFICES ASSUME NEW i \in 0..m PROVE g[i] = IF i = 0 THEN <<>>
                      ELSE IF q[i] \in S THEN Append(g[i - 1], q[i]) ELSE g[i - 1]
      OBVIOUS
    <3>1. CASE i = 0
      BY <1>5, <1>6, <3>1
    <3>2. CASE i # 0 /\ i < m
      <4>1. g[i] = f[i] /\ g[i - 1] = f[i - 1]
        BY <1>5, <3>2
      <4> QED BY <1>5, <1>6, <3>2, <4>1
    <3>3. CASE i = m
      <4>1. g[m - 1] = f[m - 1]
        BY <1>5
      <4> QED BY <1>5, <3>3, <4>1
    <3> QED BY <1>5, <3>1, <3>2, <3>3
  <2>2. g = [i \in 0..m |-> g[i]]
    OBVIOUS
  <2> HIDE DEF g
  <2> QED BY <2>1, <2>2 DEF Keeps
<1> QED BY <1>7

LEMMA OnlyFacts ==
  ASSUME NEW A, NEW q \in Seq(A), NEW S
  PROVE  Only(q, S) \in Seq(A \cap S)
<1> DEFINE Eq(h) == h = [i \in 0..Len(q) |-> IF i = 0 THEN <<>>
                      ELSE IF q[i] \in S THEN Append(h[i - 1], q[i]) ELSE h[i - 1]]
<1> DEFINE f == CHOOSE h : Eq(h)
<1>1. Only(q, S) = f[Len(q)]
  BY DEF Only
<1>2. \E h : Eq(h)
  <2>1. \A h : Eq(h) <=> Keeps(h, q, S, Len(q))
    BY DEF Keeps
  <2> HIDE DEF Eq
  <2>2. Len(q) \in Nat /\ Len(q) <= Len(q)
    OBVIOUS
  <2> QED BY <2>1, <2>2, KeepsExists
<1>3. Eq(f)
  <2> HIDE DEF Eq
  <2> QED BY <1>2
<1>4. \A i \in 0..Len(q) : f[i] = IF i = 0 THEN <<>>
                      ELSE IF q[i] \in S THEN Append(f[i - 1], q[i]) ELSE f[i - 1]
  <2> HIDE DEF f
  <2> QED BY <1>3
<1> HIDE DEF f
<1> DEFINE Bad == {i \in 0..Len(q) : f[i] \notin Seq(A \cap S)}
<1>5. Bad = {}
  <2>1. SUFFICES ASSUME Bad # {} PROVE FALSE
    OBVIOUS
  <2>2. PICK m \in Bad : \A i \in Bad : m <= i
    <3>1. Bad \subseteq Nat
      OBVIOUS
    <3> HIDE DEF Bad
    <3> QED BY <2>1, <3>1, LeastNat
  <2>3. m # 0
    <3>1. f[0] = <<>>
      BY <1>4
    <3>2. <<>> \in Seq(A \cap S)
      OBVIOUS
    <3>3. f[m] \notin Seq(A \cap S)
      OBVIOUS
    <3> HIDE DEF Bad
    <3> QED BY <3>1, <3>2, <3>3
  <2>4. m - 1 \in 0..Len(q) /\ m - 1 \notin Bad /\ m \in 1..Len(q)
    BY <2>2, <2>3
  <2>5. f[m - 1] \in Seq(A \cap S) /\ q[m] \in A
    BY <2>4
  <2>6. f[m] = IF q[m] \in S THEN Append(f[m - 1], q[m]) ELSE f[m - 1]
    BY <1>4, <2>3
  <2>7. f[m] \in Seq(A \cap S)
    BY <2>5, <2>6
  <2> QED BY <2>7
<1> QED BY <1>1, <1>5

-----------------------------------------------------------------------------
(* The gates a compliant host may use. *)
Safe == {e \in Endpoints : Class[e] # "cf"}

(* Rotating a list keeps what is in it. *)
LEMMA RotateFacts ==
  ASSUME NEW A, NEW q \in Seq(A), NEW n \in Nat
  PROVE  Rotate(q, n) \in Seq(A)
<1>1. Len(q) \in Nat
  OBVIOUS
<1>2. ASSUME NEW i \in 1..Len(q)
      PROVE  q[((i - 1 + n) % Len(q)) + 1] \in A
  <2>1. (i - 1 + n) % Len(q) \in 0 .. (Len(q) - 1)
    BY <1>1
  <2>2. ((i - 1 + n) % Len(q)) + 1 \in 1..Len(q)
    BY <1>1, <2>1
  <2> QED BY <2>2
<1> QED BY <1>1, <1>2, IsASeq DEF Rotate

(* The endpoints of a CONNECT are configured gates, and safe ones for a
   compliant host (order_endpoints_with_offset, compliant_egress_endpoints). *)
LEMMA EndpointFacts ==
  ASSUME gates \in GateLists, NEW h \in Hosts, NEW n \in Offsets
  PROVE  /\ EndpointsFor(h, n) \in Seq(Endpoints)
         /\ h \in Compliant => EndpointsFor(h, n) \in Seq(Safe)
<1>1. gates \in Seq(Endpoints) /\ n \in Nat
  BY PlaneAssumption
<1>2. \A k : OfClass(gates, k) \in Seq(Endpoints)
  <2>1. \A k : {e \in Endpoints : Class[e] = k} \cap Endpoints = {e \in Endpoints : Class[e] = k}
    OBVIOUS
  <2>2. ASSUME NEW k PROVE OfClass(gates, k) \in Seq(Endpoints)
    <3>1. OfClass(gates, k) \in Seq(Endpoints \cap {e \in Endpoints : Class[e] = k})
      BY <1>1, OnlyFacts DEF OfClass
    <3> QED BY <3>1, SeqMonotonic
  <2> QED BY <2>2
<1>3. \A k : Rotate(OfClass(gates, k), n) \in Seq(Endpoints)
  BY <1>1, <1>2, RotateFacts
<1>4. ordered_gate_urls(gates, h, n) \in Seq(Endpoints)
  BY <1>3 DEF ordered_gate_urls
<1>5. compliant_egress_endpoints(ordered_gate_urls(gates, h, n)) \in Seq(Safe)
  <2>1. Endpoints \cap Safe = Safe
    BY DEF Safe
  <2> QED BY <1>4, <2>1, OnlyFacts DEF compliant_egress_endpoints, Safe
<1>6. Seq(Safe) \subseteq Seq(Endpoints)
  BY SeqMonotonic DEF Safe
<1> QED BY <1>4, <1>5, <1>6 DEF EndpointsFor

-----------------------------------------------------------------------------
(* The inductive invariant.  One connection by itself: it is known who it is
   until the credentials are checked; while its tunnel is being established
   it has endpoints left to try; and a compliant host has only safe ones in
   its list, in the session it is binding and in the tunnel. *)
Local(c) ==
  /\ st[c] \in Waiting => client[c] \in Clients
  /\ st[c] = "video" => host[c] \in Hosts
  /\ st[c] \in {"attempt", "dial", "bind"} =>
       /\ list[c] # <<>>
       /\ host[c] \in Compliant => list[c] \in Seq(Safe)
  /\ st[c] \in {"dial", "bind"} \cup Tunnelled /\ host[c] \in Compliant =>
       via[c] \in Safe

(* The connections that hold a permit, and those of an address that are past
   the gatekeeper's check. *)
Open == {c \in Conns : st[c] # "free"}
Guessing(ip) == {c \in Conns : st[c] = "verify" /\ client[c].ip = ip}

Permits == IsFiniteSet(Open) /\ Cardinality(Open) <= Cap

Lockouts ==
  \A ip \in Ips :
    IF locked[ip] THEN late[ip] + Cardinality(Guessing(ip)) < Cap
                  ELSE late[ip] = 0

IInv == TypeOK /\ (\A c \in Conns : Local(c)) /\ Permits /\ Lockouts

-----------------------------------------------------------------------------
(* Every step but a restart is a step of one connection c, or of none. *)
Touch(c) ==
  /\ st' = [st EXCEPT ![c] = st'[c]] /\ client' = [client EXCEPT ![c] = client'[c]]
  /\ host' = [host EXCEPT ![c] = host'[c]] /\ list' = [list EXCEPT ![c] = list'[c]]
  /\ att' = [att EXCEPT ![c] = att'[c]] /\ idx' = [idx EXCEPT ![c] = idx'[c]]
  /\ via' = [via EXCEPT ![c] = via'[c]] /\ done' = [done EXCEPT ![c] = done'[c]]

States == Waiting \cup Tunnelled \cup
            {"free", "http", "video", "attempt", "dial", "bind", "plain"}

Typed(c) ==
  /\ st[c] \in States /\ client[c] \in Clients \cup {None}
  /\ host[c] \in Hosts \cup {None} /\ list[c] \in Seq(Endpoints)
  /\ att[c] \in 0 .. MaxAttempts - 1 /\ idx[c] \in Nat
  /\ via[c] \in Endpoints \cup {None} /\ done[c] \in BOOLEAN

Shared ==
  /\ gates \in GateLists /\ count \in [Ips -> 0 .. MaxFailures]
  /\ locked \in [Ips -> BOOLEAN] /\ late \in [Ips -> Nat]

(* What holds for every connection holds for each one's own state. *)
LEMMA TypedFacts ==
  ASSUME TypeOK PROVE Shared /\ \A c \in Conns : Typed(c)
BY DEF TypeOK, Typed, Shared, States

(* A step of c leaves the others as they are and the types right. *)
LEMMA TouchFacts ==
  ASSUME TypeOK, NEW c \in Conns, Touch(c), Typed(c)', Shared'
  PROVE  /\ TypeOK'
         /\ \A d \in Conns \ {c} :
              /\ st'[d] = st[d] /\ client'[d] = client[d] /\ host'[d] = host[d]
              /\ list'[d] = list[d] /\ via'[d] = via[d]
<1>1. /\ st' \in [Conns -> States] /\ client' \in [Conns -> Clients \cup {None}]
      /\ host' \in [Conns -> Hosts \cup {None}]
  BY DEF Touch, Typed, TypeOK, States
<1>2. list' \in [Conns -> Seq(Endpoints)] /\ idx' \in [Conns -> Nat]
  BY DEF Touch, Typed, TypeOK
<1>3. att' \in [Conns -> 0 .. MaxAttempts - 1]
  BY DEF Touch, Typed, TypeOK
<1>4. via' \in [Conns -> Endpoints \cup {None}] /\ done' \in [Conns -> BOOLEAN]
  BY DEF Touch, Typed, TypeOK
<1>5. \A d \in Conns \ {c} :
        /\ st'[d] = st[d] /\ client'[d] = client[d] /\ host'[d] = host[d]
        /\ list'[d] = list[d] /\ via'[d] = via[d]
  BY DEF Touch, TypeOK
<1> QED BY <1>1, <1>2, <1>3, <1>4, <1>5 DEF TypeOK, Shared, States

(* Steps that open no connection and record no failure: what must be shown of
   them concerns the connection itself and the address it comes from. *)
LEMMA PlaneStep ==
  ASSUME IInv, NEW c \in Conns, Touch(c), Typed(c)', Shared', Local(c)',
         st[c] # "free" \/ st'[c] = "free",
         \A ip \in Ips :
           \/ ~ locked'[ip] /\ late'[ip] = 0
           \/ /\ locked'[ip] = locked[ip] /\ late'[ip] = late[ip]
              /\ locked[ip] /\ st'[c] = "verify" /\ client'[c].ip = ip =>
                   st[c] = "verify" /\ client[c].ip = ip
  PROVE  IInv'
<1>1. /\ TypeOK'
      /\ \A d \in Conns \ {c} :
           /\ st'[d] = st[d] /\ client'[d] = client[d] /\ host'[d] = host[d]
           /\ list'[d] = list[d] /\ via'[d] = via[d]
  BY TouchFacts DEF IInv
<1>2. \A d \in Conns : Local(d)'
  <2>1. \A d \in Conns \ {c} : Local(d)'
    BY <1>1 DEF IInv, Local
  <2> QED BY <2>1
<1>3. Open' \subseteq Open
  BY <1>1 DEF Open
<1>4. Permits'
  <2>1. IsFiniteSet(Open) /\ Cardinality(Open) <= Cap
    BY DEF IInv, Permits
  <2>2. IsFiniteSet(Open') /\ Cardinality(Open') <= Cardinality(Open)
    BY <1>3, <2>1, FS_Subset
  <2>3. Cardinality(Open) \in Nat /\ Cardinality(Open') \in Nat /\ Cap \in Nat
    BY <2>1, <2>2, FS_CardinalityType, PlaneAssumption
  <2> QED BY <2>1, <2>2, <2>3 DEF Permits
<1>5. Lockouts'
  <2> SUFFICES ASSUME NEW ip \in Ips, locked'[ip] = locked[ip], late'[ip] = late[ip],
                      locked[ip] /\ st'[c] = "verify" /\ client'[c].ip = ip =>
                        st[c] = "verify" /\ client[c].ip = ip
               PROVE  IF locked'[ip] THEN late'[ip] + Cardinality(Guessing(ip)') < Cap
                                     ELSE late'[ip] = 0
    BY DEF Lockouts
  <2>1. CASE ~ locked[ip]
    BY <2>1 DEF IInv, Lockouts
  <2>2. CASE locked[ip]
    <3>1. Guessing(ip)' \subseteq Guessing(ip)
      BY <1>1, <2>2 DEF Guessing
    <3>2. Guessing(ip) \subseteq Open
      BY DEF Guessing, Open
    <3>3. IsFiniteSet(Guessing(ip))
      BY <3>2, FS_Subset DEF IInv, Permits
    <3>4. /\ Cardinality(Guessing(ip)') <= Cardinality(Guessing(ip))
          /\ Cardinality(Guessing(ip)') \in Nat /\ Cardinality(Guessing(ip)) \in Nat
      BY <3>1, <3>3, FS_Subset, FS_CardinalityType
    <3>5. late[ip] \in Nat /\ Cap \in Nat /\ late[ip] + Cardinality(Guessing(ip)) < Cap
      BY <2>2, PlaneAssumption DEF IInv, TypeOK, Lockouts
    <3> QED BY <2>2, <3>4, <3>5
  <2> QED BY <2>1, <2>2
<1> QED BY <1>1, <1>2, <1>4, <1>5 DEF IInv

(* The same for steps that leave the gatekeeper alone. *)
LEMMA PlaneQuiet ==
  ASSUME IInv, NEW c \in Conns, Touch(c), Typed(c)', Local(c)', UNCHANGED shared,
         st[c] # "free" \/ st'[c] = "free",
         st'[c] = "verify" => ~ locked[client'[c].ip]
  PROVE  IInv'
<1>1. UNCHANGED <<gates, count, locked, late>>
  BY DEF shared
<1>2. Shared'
  BY <1>1, TypedFacts DEF IInv, Shared
<1>3. \A ip \in Ips :
        /\ locked'[ip] = locked[ip] /\ late'[ip] = late[ip]
        /\ locked[ip] /\ st'[c] = "verify" /\ client'[c].ip = ip =>
             st[c] = "verify" /\ client[c].ip = ip
  BY <1>1
<1> QED BY <1>2, <1>3, PlaneStep

(* What the end of a connection leaves of it. *)
LEMMA EndFacts ==
  ASSUME TypeOK, NEW c \in Conns, End(c)
  PROVE  Touch(c) /\ Typed(c)' /\ Local(c)' /\ st'[c] = "free"
<1>1. /\ st'[c] = "free" /\ client'[c] = None /\ host'[c] = None /\ list'[c] = <<>>
      /\ att'[c] = 0 /\ idx'[c] = 0 /\ via'[c] = None /\ done'[c] = FALSE
  BY DEF End, TypeOK
<1>2. Touch(c)
  BY <1>1 DEF End, Touch
<1>3. Typed(c)'
  <2>1. 0 \in 0 .. MaxAttempts - 1 /\ <<>> \in Seq(Endpoints)
    BY PlaneAssumption
  <2>2. done'[c] \in BOOLEAN
    BY <1>1
  <2> QED BY <1>1, <2>1, <2>2 DEF Typed, States
<1>4. Local(c)'
  BY <1>1 DEF Local, Waiting, Tunnelled, Relaying
<1> QED BY <1>1, <1>2, <1>3, <1>4

(* A connection ends without a word to the gatekeeper. *)
LEMMA PlaneEnd ==
  ASSUME IInv, NEW c \in Conns, End(c), UNCHANGED shared
  PROVE  IInv'
<1>1. Touch(c) /\ Typed(c)' /\ Local(c)' /\ st'[c] = "free"
  BY EndFacts DEF IInv
<1> QED BY <1>1, PlaneQuiet

(* Where a connection that only moves on may go. *)
LEMMA PlaneMove ==
  ASSUME IInv, NEW c \in Conns, NEW from, NEW to \in States, At(c, from, to),
         from # "free", to \notin {"verify", "video"}, to \in Waiting => from \in Waiting,
         to \in {"attempt", "dial", "bind"} => from \in {"attempt", "dial", "bind"},
         to \in {"dial", "bind"} \cup Tunnelled => from \in {"dial", "bind"} \cup Tunnelled,
         UNCHANGED <<client, host, list, att, idx, via, done, shared>>
  PROVE  IInv'
<1>1. /\ st[c] = from /\ st' = [st EXCEPT ![c] = to] /\ st'[c] = to
      /\ UNCHANGED <<client, host, list, att, idx, via, done>>
  BY DEF At, IInv, TypeOK
<1>2. Touch(c)
  BY <1>1 DEF Touch, IInv, TypeOK
<1>3. Typed(c)'
  BY <1>1, TypedFacts DEF Typed, IInv
<1>4. Local(c)'
  BY <1>1 DEF IInv, Local
<1> QED BY <1>1, <1>2, <1>3, <1>4, PlaneQuiet

(* accept() with a permit left: one more permit is held. *)
LEMMA PlaneAccept ==
  ASSUME IInv, NEW c \in Conns, NEW k \in Clients, Accept(c, k)
  PROVE  IInv'
<1>1. /\ Cardinality(Open) < Cap /\ st[c] = "free"
      /\ st' = [st EXCEPT ![c] = "head"] /\ client' = [client EXCEPT ![c] = k]
      /\ UNCHANGED <<host, list, att, idx, via, done, gates, count, locked, late>>
  BY DEF Accept, At, shared, Open
<1>2. st'[c] = "head" /\ client'[c] = k
  BY <1>1 DEF IInv, TypeOK
<1>3. Touch(c)
  BY <1>1, <1>2 DEF Touch, IInv, TypeOK
<1>4. Typed(c)' /\ Shared'
  BY <1>1, <1>2, TypedFacts DEF Typed, Shared, IInv, States, Waiting
<1>5. /\ TypeOK'
      /\ \A d \in Conns \ {c} :
           /\ st'[d] = st[d] /\ client'[d] = client[d] /\ host'[d] = host[d]
           /\ list'[d] = list[d] /\ via'[d] = via[d]
  BY <1>3, <1>4, TouchFacts DEF IInv
<1>6. \A d \in Conns : Local(d)'
  <2>1. Local(c)'
    BY <1>2 DEF Local, Tunnelled, Relaying
  <2>2. \A d \in Conns \ {c} : Local(d)'
    BY <1>5 DEF IInv, Local
  <2> QED BY <2>1, <2>2
<1>7. Permits'
  <2>1. Open' = Open \cup {c} /\ c \notin Open
    BY <1>1, <1>2, <1>5 DEF Open
  <2>2. IsFiniteSet(Open) /\ Cardinality(Open) \in Nat /\ Cap \in Nat
    BY FS_CardinalityType, PlaneAssumption DEF IInv, Permits
  <2>3. IsFiniteSet(Open') /\ Cardinality(Open') = Cardinality(Open) + 1
    BY <2>1, <2>2, FS_AddElement
  <2> QED BY <1>1, <2>2, <2>3 DEF Permits
<1>8. Lockouts'
  <2>1. \A ip \in Ips : Guessing(ip)' = Guessing(ip)
    BY <1>1, <1>2, <1>5 DEF Guessing
  <2> QED BY <1>1, <2>1 DEF IInv, Lockouts
<1> QED BY <1>5, <1>6, <1>7, <1>8 DEF IInv

(* The first bytes are not CONNECT. *)
LEMMA PlanePeekHttp ==
  ASSUME IInv, NEW c \in Conns, PeekHttp(c)
  PROVE  IInv'
<1>1. /\ st[c] = "head" /\ st' = [st EXCEPT ![c] = "http"]
      /\ client' = [client EXCEPT ![c] = None]
      /\ UNCHANGED <<host, list, att, idx, via, done, shared>>
  BY DEF PeekHttp, At
<1>2. st'[c] = "http" /\ client'[c] = None
  BY <1>1 DEF IInv, TypeOK
<1>3. Touch(c)
  BY <1>1, <1>2 DEF Touch, IInv, TypeOK
<1>4. Typed(c)'
  BY <1>1, <1>2, TypedFacts DEF Typed, IInv, States
<1>5. Local(c)'
  BY <1>2 DEF Local, Waiting, Tunnelled, Relaying
<1> QED BY <1>1, <1>2, <1>3, <1>4, <1>5, PlaneQuiet

(* check(): a locked address gets no further, an unlocked one does. *)
LEMMA PlaneCheck ==
  ASSUME IInv, NEW c \in Conns, Check(c)
  PROVE  IInv'
<1>1. CASE locked[client[c].ip]
  BY <1>1, PlaneEnd DEF Check
<1>2. CASE ~ locked[client[c].ip]
  <2>1. /\ st[c] = "check" /\ st' = [st EXCEPT ![c] = "verify"]
        /\ UNCHANGED <<client, host, list, att, idx, via, done, shared>>
    BY <1>2 DEF Check, At
  <2>2. st'[c] = "verify"
    BY <2>1 DEF IInv, TypeOK
  <2>3. Touch(c)
    BY <2>1, <2>2 DEF Touch, IInv, TypeOK
  <2>4. Typed(c)'
    BY <2>1, <2>2, TypedFacts DEF Typed, IInv, States, Waiting
  <2>5. Local(c)'
    BY <2>1, <2>2 DEF IInv, Local, Waiting, Tunnelled, Relaying
  <2> QED BY <1>2, <2>1, <2>2, <2>3, <2>4, <2>5, PlaneQuiet
<1> QED BY <1>1, <1>2

(* 407: the failure is recorded.  If the address was locked out already the
   guess was one of those past the check; if it is locked out now, those left
   hold permits, and this one's is given back. *)
LEMMA PlaneRefuse ==
  ASSUME IInv, NEW c \in Conns, Refuse(c)
  PROVE  IInv'
<1> DEFINE a == client[c].ip
<1>1. st[c] = "verify" /\ record_failure(a) /\ End(c)
  BY DEF Refuse
<1>2. client[c] \in Clients /\ a \in Ips
  BY <1>1 DEF IInv, Local, Waiting, Clients
<1>3. Touch(c) /\ Typed(c)' /\ Local(c)' /\ st'[c] = "free"
  BY <1>1, EndFacts DEF IInv
<1> HIDE DEF a
<1>4. count' = [count EXCEPT ![a] = IF @ < MaxFailures THEN @ + 1 ELSE @]
      /\ locked' = [locked EXCEPT ![a] = @ \/ count[a] + 1 >= MaxFailures]
      /\ late' = [late EXCEPT ![a] = IF locked[a] THEN @ + 1 ELSE @]
      /\ gates' = gates
  BY <1>1 DEF record_failure
<1>5. /\ count \in [Ips -> 0 .. MaxFailures] /\ locked \in [Ips -> BOOLEAN]
      /\ late \in [Ips -> Nat] /\ MaxFailures \in Nat /\ gates \in GateLists
  BY PlaneAssumption DEF IInv, TypeOK
<1>6. Shared'
  <2>1. count' \in [Ips -> 0 .. MaxFailures]
    BY <1>2, <1>4, <1>5
  <2>2. locked' \in [Ips -> BOOLEAN] /\ late' \in [Ips -> Nat]
    BY <1>2, <1>4, <1>5
  <2> QED BY <1>4, <1>5, <2>1, <2>2 DEF Shared
<1>7. /\ TypeOK'
      /\ \A d \in Conns \ {c} :
           /\ st'[d] = st[d] /\ client'[d] = client[d] /\ host'[d] = host[d]
           /\ list'[d] = list[d] /\ via'[d] = via[d]
  BY <1>3, <1>6, TouchFacts DEF IInv
<1>8. \A d \in Conns : Local(d)'
  <2>1. \A d \in Conns \ {c} : Local(d)'
    BY <1>7 DEF IInv, Local
  <2> QED BY <1>3, <2>1
<1>9. IsFiniteSet(Open) /\ Cardinality(Open) <= Cap /\ Cardinality(Open) \in Nat /\ Cap \in Nat
  BY FS_CardinalityType, PlaneAssumption DEF IInv, Permits
<1>10. /\ c \in Open /\ Open' = Open \ {c} /\ IsFiniteSet(Open')
       /\ Cardinality(Open') = Cardinality(Open) - 1 /\ Cardinality(Open') \in Nat
  <2>1. c \in Open /\ Open' = Open \ {c}
    BY <1>1, <1>3, <1>7 DEF Open
  <2> QED BY <1>9, <2>1, FS_RemoveElement, FS_CardinalityType
<1>11. Permits'
  BY <1>9, <1>10 DEF Permits
<1>12. Lockouts'
  <2> SUFFICES ASSUME NEW ip \in Ips
               PROVE  IF locked'[ip] THEN late'[ip] + Cardinality(Guessing(ip)') < Cap
                                     ELSE late'[ip] = 0
    BY DEF Lockouts
  <2>1. Guessing(ip)' = Guessing(ip) \ {c} /\ (c \in Guessing(ip) <=> ip = a)
    BY <1>1, <1>3, <1>7 DEF Guessing, a
  <2>2. /\ Guessing(ip) \subseteq Open /\ Guessing(ip)' \subseteq Open'
    BY <1>10, <2>1 DEF Guessing, Open
  <2>3. /\ IsFiniteSet(Guessing(ip)) /\ Cardinality(Guessing(ip)) \in Nat
        /\ Cardinality(Guessing(ip)') \in Nat
        /\ Cardinality(Guessing(ip)') <= Cardinality(Open')
    BY <1>9, <1>10, <2>2, FS_Subset, FS_CardinalityType
  <2>4. Cardinality(Guessing(ip)') =
          IF ip = a THEN Cardinality(Guessing(ip)) - 1 ELSE Cardinality(Guessing(ip))
    BY <2>1, <2>3, FS_RemoveElement
  <2>5. late[ip] \in Nat /\ IF locked[ip] THEN late[ip] + Cardinality(Guessing(ip)) < Cap
                                           ELSE late[ip] = 0
    BY <1>5 DEF IInv, Lockouts
  <2>6. CASE ip # a
    <3>1. locked'[ip] = locked[ip] /\ late'[ip] = late[ip]
      BY <1>4, <1>5, <2>6
    <3> QED BY <2>4, <2>5, <2>6, <3>1
  <2>7. CASE ip = a /\ locked[a]
    <3>1. locked'[ip] /\ late'[ip] = late[ip] + 1
      BY <1>2, <1>4, <1>5, <2>7
    <3> QED BY <1>9, <2>3, <2>4, <2>5, <2>7, <3>1
  <2>8. CASE ip = a /\ ~ locked[a]
    <3>1. late'[ip] = 0
      BY <1>2, <1>4, <1>5, <2>5, <2>8
    <3> QED BY <1>9, <1>10, <2>3, <3>1
  <2> QED BY <2>6, <2>7, <2>8
<1> QED BY <1>7, <1>8, <1>11, <1>12 DEF IInv

(* The target is known: 502, or the endpoints to try. *)
LEMMA RouteFacts ==
  ASSUME IInv, NEW c \in Conns, NEW h \in Hosts, NEW n \in Offsets, Route(c, h, n)
  PROVE  Touch(c) /\ Typed(c)' /\ Local(c)' /\ st'[c] \in {"free", "attempt"}
<1> DEFINE q == EndpointsFor(h, n)
<1>1. CASE q = <<>>
  <2>1. End(c)
    BY <1>1 DEF Route
  <2> QED BY <2>1, EndFacts DEF IInv
<1>2. CASE q # <<>>
  <2>1. /\ st' = [st EXCEPT ![c] = "attempt"] /\ client' = [client EXCEPT ![c] = None]
        /\ host' = [host EXCEPT ![c] = h] /\ list' = [list EXCEPT ![c] = q]
        /\ UNCHANGED <<att, idx, via, done>>
    BY <1>2 DEF Route
  <2>2. q \in Seq(Endpoints) /\ (h \in Compliant => q \in Seq(Safe))
    BY EndpointFacts DEF IInv, TypeOK
  <2> HIDE DEF q
  <2>3. st'[c] = "attempt" /\ client'[c] = None /\ host'[c] = h /\ list'[c] = q
    BY <2>1 DEF IInv, TypeOK
  <2>4. Touch(c)
    BY <2>1, <2>3 DEF Touch, IInv, TypeOK
  <2>5. Typed(c)'
    BY <2>1, <2>2, <2>3, TypedFacts DEF Typed, IInv, States
  <2>6. Local(c)'
    BY <1>2, <2>2, <2>3 DEF Local, Waiting, Tunnelled, Relaying
  <2> QED BY <2>3, <2>4, <2>5, <2>6
<1> QED BY <1>1, <1>2

(* The credentials are good: the address's record is dropped, its lockout
   with it. *)
LEMMA PlaneAdmitted ==
  ASSUME IInv, NEW c \in Conns, st[c] = "verify", record_success(client[c].ip),
         Touch(c), Typed(c)', Local(c)', st'[c] # "verify"
  PROVE  IInv'
<1> DEFINE a == client[c].ip
<1>1. a \in Ips
  BY DEF IInv, Local, Waiting, Clients
<1>2. /\ count' = [count EXCEPT ![a] = 0] /\ locked' = [locked EXCEPT ![a] = FALSE]
      /\ late' = [late EXCEPT ![a] = 0] /\ gates' = gates
  BY DEF record_success
<1> HIDE DEF a
<1>3. /\ count \in [Ips -> 0 .. MaxFailures] /\ locked \in [Ips -> BOOLEAN]
      /\ late \in [Ips -> Nat] /\ 0 \in 0 .. MaxFailures /\ gates \in GateLists
  BY PlaneAssumption DEF IInv, TypeOK
<1>4. Shared'
  <2>1. count' \in [Ips -> 0 .. MaxFailures]
    BY <1>1, <1>2, <1>3
  <2>2. locked' \in [Ips -> BOOLEAN] /\ late' \in [Ips -> Nat]
    BY <1>1, <1>2, <1>3
  <2> QED BY <1>2, <1>3, <2>1, <2>2 DEF Shared
<1>5. \A ip \in Ips :
        \/ ~ locked'[ip] /\ late'[ip] = 0
        \/ locked'[ip] = locked[ip] /\ late'[ip] = late[ip]
  BY <1>1, <1>2, <1>3
<1> QED BY <1>4, <1>5, PlaneStep

(* 400 and 403: no such target, port or tunnel. *)
LEMMA PlaneAdmitInvalid ==
  ASSUME IInv, NEW c \in Conns, AdmitInvalid(c)
  PROVE  IInv'
<1>1. Touch(c) /\ Typed(c)' /\ Local(c)' /\ st'[c] = "free"
  BY EndFacts DEF AdmitInvalid, IInv
<1> QED BY <1>1, PlaneAdmitted DEF AdmitInvalid

(* On to the tunnel ... *)
LEMMA PlaneAdmit ==
  ASSUME IInv, NEW c \in Conns, NEW h \in Hosts, NEW n \in Offsets, Admit(c, h, n)
  PROVE  IInv'
<1>1. Touch(c) /\ Typed(c)' /\ Local(c)' /\ st'[c] \in {"free", "attempt"}
  BY RouteFacts DEF Admit
<1> QED BY <1>1, PlaneAdmitted DEF Admit

(* ... or to the video proxy. *)
LEMMA PlaneAdmitVideo ==
  ASSUME IInv, NEW c \in Conns, NEW h \in Hosts, AdmitVideo(c, h)
  PROVE  IInv'
<1>1. /\ st[c] = "verify" /\ st' = [st EXCEPT ![c] = "video"]
      /\ client' = [client EXCEPT ![c] = None] /\ host' = [host EXCEPT ![c] = h]
      /\ UNCHANGED <<list, att, idx, via, done>>
  BY DEF AdmitVideo, At
<1>2. st'[c] = "video" /\ client'[c] = None /\ host'[c] = h
  BY <1>1 DEF IInv, TypeOK
<1>3. Touch(c)
  BY <1>1, <1>2 DEF Touch, IInv, TypeOK
<1>4. Typed(c)'
  BY <1>1, <1>2, TypedFacts DEF Typed, IInv, States
<1>5. Local(c)'
  BY <1>2 DEF Local, Waiting, Tunnelled, Relaying
<1> QED BY <1>1, <1>2, <1>3, <1>4, <1>5, PlaneAdmitted DEF AdmitVideo

(* The video proxy failed: by the tunnel after all. *)
LEMMA PlaneVideoFails ==
  ASSUME IInv, NEW c \in Conns, NEW n \in Offsets, VideoFails(c, n)
  PROVE  IInv'
<1>1. Touch(c) /\ Typed(c)' /\ Local(c)' /\ st'[c] \in {"free", "attempt"}
  BY RouteFacts DEF VideoFails, IInv, Local
<1> QED BY <1>1, PlaneQuiet DEF VideoFails

-----------------------------------------------------------------------------
(* A standby session of a listed endpoint is taken. *)
LEMMA PlaneCheckout ==
  ASSUME IInv, NEW c \in Conns, Checkout(c)
  PROVE  IInv'
<1>1. PICK i \in 1..Len(list[c]) : via' = [via EXCEPT ![c] = list[c][i]]
  BY DEF Checkout
<1>2. /\ st[c] = "attempt" /\ st' = [st EXCEPT ![c] = "bind"]
      /\ UNCHANGED <<client, host, list, att, idx, done, shared>>
  BY DEF Checkout, At
<1>3. st'[c] = "bind" /\ via'[c] = list[c][i]
  BY <1>1, <1>2 DEF IInv, TypeOK
<1>4. list[c] \in Seq(Endpoints) /\ list[c][i] \in Endpoints
  BY DEF IInv, TypeOK
<1>5. Touch(c)
  BY <1>1, <1>2, <1>3 DEF Touch, IInv, TypeOK
<1>6. Typed(c)'
  BY <1>2, <1>3, <1>4, TypedFacts DEF Typed, IInv, States
<1>7. Local(c)'
  <2>1. list[c] # <<>> /\ (host[c] \in Compliant => list[c] \in Seq(Safe))
    BY <1>2 DEF IInv, Local
  <2>2. host[c] \in Compliant => list[c][i] \in Safe
    BY <2>1
  <2> QED BY <1>2, <1>3, <2>1, <2>2 DEF Local, Waiting
<1> QED BY <1>2, <1>3, <1>5, <1>6, <1>7, PlaneQuiet

(* An endpoint of the list is dialled. *)
LEMMA PlaneDial ==
  ASSUME IInv, NEW c \in Conns, NEW i \in 1..Len(list[c]),
         st[c] \in {"attempt", "dial", "bind"}, Dial(c, i), UNCHANGED shared
  PROVE  IInv'
<1>1. /\ st' = [st EXCEPT ![c] = "dial"] /\ idx' = [idx EXCEPT ![c] = i]
      /\ via' = [via EXCEPT ![c] = list[c][i]]
      /\ UNCHANGED <<client, host, list, att, done>>
  BY DEF Dial
<1>2. st'[c] = "dial" /\ idx'[c] = i /\ via'[c] = list[c][i]
  BY <1>1 DEF IInv, TypeOK
<1>3. list[c] \in Seq(Endpoints) /\ list[c][i] \in Endpoints /\ i \in Nat
  BY DEF IInv, TypeOK
<1>4. Touch(c)
  BY <1>1, <1>2 DEF Touch, IInv, TypeOK
<1>5. Typed(c)'
  BY <1>1, <1>2, <1>3, TypedFacts DEF Typed, IInv, States
<1>6. Local(c)'
  <2>1. list[c] # <<>> /\ (host[c] \in Compliant => list[c] \in Seq(Safe))
    BY DEF IInv, Local
  <2>2. host[c] \in Compliant => list[c][i] \in Safe
    BY <2>1
  <2> QED BY <1>1, <1>2, <2>1, <2>2 DEF Local, Waiting
<1> QED BY <1>2, <1>4, <1>5, <1>6, PlaneQuiet

(* The first endpoint can be dialled: the list is not empty. *)
LEMMA PlaneDialFirst ==
  ASSUME IInv, NEW c \in Conns,
         st[c] \in {"attempt", "dial", "bind"}, Dial(c, 1), UNCHANGED shared
  PROVE  IInv'
<1>1. list[c] \in Seq(Endpoints) /\ list[c] # <<>>
  BY DEF IInv, TypeOK, Local
<1>2. 1 \in 1..Len(list[c])
  BY <1>1
<1> QED BY <1>2, PlaneDial

(* The next endpoint, the next round, or 502. *)
LEMMA PlaneNextEndpoint ==
  ASSUME IInv, NEW c \in Conns, NEW err, st[c] \in {"dial", "bind"},
         NextEndpoint(c, err), UNCHANGED shared
  PROVE  IInv'
<1>1. CASE idx[c] < Len(list[c])
  <2>1. Dial(c, idx[c] + 1)
    BY <1>1 DEF NextEndpoint
  <2>2. idx[c] \in Nat /\ list[c] \in Seq(Endpoints)
    BY DEF IInv, TypeOK
  <2>3. idx[c] + 1 \in 1..Len(list[c])
    BY <1>1, <2>2
  <2> QED BY <2>1, <2>3, PlaneDial
<1>2. CASE ~ (idx[c] < Len(list[c])) /\ (err = "denied" \/ att[c] + 1 >= MaxAttempts)
  BY <1>2, PlaneEnd DEF NextEndpoint, AttemptOver
<1>3. CASE ~ (idx[c] < Len(list[c])) /\ ~ (err = "denied" \/ att[c] + 1 >= MaxAttempts)
  <2>1. /\ st' = [st EXCEPT ![c] = "attempt"] /\ att' = [att EXCEPT ![c] = @ + 1]
        /\ idx' = [idx EXCEPT ![c] = 0] /\ via' = [via EXCEPT ![c] = None]
        /\ UNCHANGED <<client, host, list, done>>
    BY <1>3 DEF NextEndpoint, AttemptOver
  <2>2. st'[c] = "attempt" /\ att'[c] = att[c] + 1 /\ idx'[c] = 0 /\ via'[c] = None
    BY <2>1 DEF IInv, TypeOK
  <2>3. att[c] + 1 \in 0 .. MaxAttempts - 1
    <3>1. att[c] \in 0 .. MaxAttempts - 1 /\ MaxAttempts \in Nat
      BY PlaneAssumption DEF IInv, TypeOK
    <3> QED BY <1>3, <3>1
  <2>4. Touch(c)
    BY <2>1, <2>2 DEF Touch, IInv, TypeOK
  <2>5. Typed(c)'
    BY <2>1, <2>2, <2>3, TypedFacts DEF Typed, IInv, States
  <2>6. Local(c)'
    <3>1. list[c] # <<>> /\ (host[c] \in Compliant => list[c] \in Seq(Safe))
      BY DEF IInv, Local
    <3> QED BY <2>1, <2>2, <3>1 DEF Local, Waiting, Tunnelled, Relaying
  <2> QED BY <2>2, <2>4, <2>5, <2>6, PlaneQuiet
<1> QED BY <1>1, <1>2, <1>3

(* The gate confirms the target: the tunnel runs over the bound session. *)
LEMMA PlaneBindOk ==
  ASSUME IInv, NEW c \in Conns, NEW l \in BOOLEAN, BindOk(c, l)
  PROVE  IInv'
<1> DEFINE to == IF l THEN "flush" ELSE "relay"
<1>1. /\ st[c] = "bind" /\ st' = [st EXCEPT ![c] = to] /\ list' = [list EXCEPT ![c] = <<>>]
      /\ att' = [att EXCEPT ![c] = 0] /\ idx' = [idx EXCEPT ![c] = 0]
      /\ UNCHANGED <<client, host, via, done, shared>>
  BY DEF BindOk, At
<1>2. to \in {"flush", "relay"}
  OBVIOUS
<1> HIDE DEF to
<1>3. st'[c] = to /\ list'[c] = <<>> /\ att'[c] = 0 /\ idx'[c] = 0
  BY <1>1 DEF IInv, TypeOK
<1>4. Touch(c)
  BY <1>1, <1>3 DEF Touch, IInv, TypeOK
<1>5. Typed(c)'
  <2>1. 0 \in 0 .. MaxAttempts - 1 /\ <<>> \in Seq(Endpoints)
    BY PlaneAssumption
  <2>2. st'[c] \in States
    BY <1>2, <1>3 DEF States, Tunnelled, Relaying
  <2> QED BY <1>1, <1>3, <2>1, <2>2, TypedFacts DEF Typed, IInv
<1>6. Local(c)'
  BY <1>1, <1>2, <1>3 DEF IInv, Local, Waiting
<1> QED BY <1>1, <1>2, <1>3, <1>4, <1>5, <1>6, PlaneQuiet

(* The client half-closes. *)
LEMMA PlaneClientEof ==
  ASSUME IInv, NEW c \in Conns, ClientEof(c)
  PROVE  IInv'
<1>1. /\ st[c] = "relay" /\ done' = [done EXCEPT ![c] = TRUE]
      /\ UNCHANGED <<st, client, host, list, att, idx, via, shared>>
  BY DEF ClientEof
<1>2. done'[c] = TRUE
  BY <1>1 DEF IInv, TypeOK
<1>3. Touch(c)
  BY <1>1, <1>2 DEF Touch, IInv, TypeOK
<1>4. Typed(c)'
  <2>1. done'[c] \in BOOLEAN
    BY <1>2
  <2> QED BY <1>1, <2>1, TypedFacts DEF Typed, IInv
<1>5. Local(c)'
  BY <1>1 DEF IInv, Local
<1> QED BY <1>1, <1>3, <1>4, <1>5, PlaneQuiet

-----------------------------------------------------------------------------
(* The lockout of an address runs out. *)
LEMMA PlaneLockoutEnds ==
  ASSUME IInv, NEW ip \in Ips, LockoutEnds(ip)
  PROVE  IInv'
<1>1. /\ locked' = [locked EXCEPT ![ip] = FALSE] /\ late' = [late EXCEPT ![ip] = 0]
      /\ UNCHANGED <<count, gates, st, client, host, list, att, idx, via, done>>
  BY DEF LockoutEnds, conn
<1>2. TypeOK'
  BY <1>1 DEF IInv, TypeOK
<1>3. \A c \in Conns : Local(c)'
  BY <1>1 DEF IInv, Local
<1>4. Open' = Open /\ \A a \in Ips : Guessing(a)' = Guessing(a)
  BY <1>1 DEF Open, Guessing
<1>5. \A a \in Ips : IF a = ip THEN ~ locked'[a] /\ late'[a] = 0
                              ELSE locked'[a] = locked[a] /\ late'[a] = late[a]
  BY <1>1 DEF IInv, TypeOK
<1>6. Permits' /\ Lockouts'
  BY <1>4, <1>5 DEF IInv, Permits, Lockouts
<1> QED BY <1>2, <1>3, <1>6 DEF IInv

(* A process without connections and without records. *)
Fresh ==
  /\ gates \in GateLists
  /\ st = [c \in Conns |-> "free"] /\ client = [c \in Conns |-> None]
  /\ host = [c \in Conns |-> None] /\ list = [c \in Conns |-> <<>>]
  /\ att = [c \in Conns |-> 0] /\ idx = [c \in Conns |-> 0]
  /\ via = [c \in Conns |-> None] /\ done = [c \in Conns |-> FALSE]
  /\ count = [i \in Ips |-> 0] /\ locked = [i \in Ips |-> FALSE]
  /\ late = [i \in Ips |-> 0]

(* It satisfies the invariant: when it starts ... *)
LEMMA PlaneInit == Init => IInv
<1> SUFFICES ASSUME Fresh PROVE IInv
  BY DEF Init, Fresh
<1>1. TypeOK
  <2>1. 0 \in 0 .. MaxAttempts - 1 /\ <<>> \in Seq(Endpoints) /\ 0 \in 0 .. MaxFailures
    BY PlaneAssumption
  <2>2. done \in [Conns -> BOOLEAN] /\ locked \in [Ips -> BOOLEAN]
    BY DEF Fresh
  <2> QED BY <2>1, <2>2 DEF Fresh, TypeOK
<1>2. \A c \in Conns : Local(c)
  BY DEF Fresh, Local, Waiting, Tunnelled, Relaying
<1>3. Open = {}
  BY DEF Fresh, Open
<1>4. Permits
  BY <1>3, FS_EmptySet, PlaneAssumption DEF Permits
<1>5. Lockouts
  BY DEF Fresh, Lockouts
<1> QED BY <1>1, <1>2, <1>4, <1>5 DEF IInv

(* ... and when it is started again. *)
LEMMA PlaneAcceptFails ==
  ASSUME AcceptFails
  PROVE  IInv'
<1>1. Fresh'
  BY DEF AcceptFails, Fresh
<1>2. TypeOK'
  <2>1. 0 \in 0 .. MaxAttempts - 1 /\ <<>> \in Seq(Endpoints) /\ 0 \in 0 .. MaxFailures
    BY PlaneAssumption
  <2>2. done' \in [Conns -> BOOLEAN] /\ locked' \in [Ips -> BOOLEAN]
    BY <1>1 DEF Fresh
  <2> QED BY <1>1, <2>1, <2>2 DEF Fresh, TypeOK
<1>3. \A c \in Conns : Local(c)'
  BY <1>1 DEF Fresh, Local, Waiting, Tunnelled, Relaying
<1>4. Open' = {}
  BY <1>1 DEF Fresh, Open
<1>5. Permits'
  BY <1>4, FS_EmptySet, PlaneAssumption DEF Permits
<1>6. Lockouts'
  BY <1>1 DEF Fresh, Lockouts
<1> QED BY <1>2, <1>3, <1>5, <1>6 DEF IInv

(* Every step keeps the invariant. *)
LEMMA PlaneNext == IInv /\ [Next]_vars => IInv'
<1> SUFFICES ASSUME IInv, [Next]_vars PROVE IInv'
  OBVIOUS
<1>1. ASSUME NEW c \in Conns, Conn(c) PROVE IInv'
  <2>1. ASSUME NEW k \in Clients, Accept(c, k) PROVE IInv'
    BY <2>1, PlaneAccept
  <2>2. CASE ReadHead(c)
    BY <2>2, PlaneMove DEF ReadHead, States, Waiting, Tunnelled, Relaying
  <2>3. CASE PeekHttp(c)
    BY <2>3, PlanePeekHttp
  <2>4. CASE HttpEnds(c) \/ HeadTimeout(c) \/ PlainEnds(c)
    BY <2>4, PlaneEnd DEF HttpEnds, HeadTimeout, PlainEnds
  <2>5. CASE Check(c)
    BY <2>5, PlaneCheck
  <2>6. CASE Refuse(c)
    BY <2>6, PlaneRefuse
  <2>7. CASE AdmitInvalid(c)
    BY <2>7, PlaneAdmitInvalid
  <2>8. ASSUME NEW h \in Hosts, NEW n \in Offsets, Admit(c, h, n) PROVE IInv'
    BY <2>8, PlaneAdmit
  <2>9. ASSUME NEW h \in Hosts, AdmitVideo(c, h) PROVE IInv'
    BY <2>9, PlaneAdmitVideo
  <2>10. CASE VideoOk(c)
    BY <2>10, PlaneMove DEF VideoOk, States, Waiting, Tunnelled, Relaying
  <2>11. ASSUME NEW n \in Offsets, VideoFails(c, n) PROVE IInv'
    BY <2>11, PlaneVideoFails
  <2>12. CASE Establish(c)
    <3>1. CASE Checkout(c)
      BY <3>1, PlaneCheckout
    <3>2. CASE Cold(c)
      BY <3>2, PlaneDialFirst DEF Cold
    <3>3. CASE DialOk(c)
      BY <3>3, PlaneMove DEF DialOk, States, Waiting
    <3>4. CASE DialFails(c)
      BY <3>4, PlaneNextEndpoint DEF DialFails
    <3>5. ASSUME NEW l \in BOOLEAN, BindOk(c, l) PROVE IInv'
      BY <3>5, PlaneBindOk
    <3>6. ASSUME NEW err \in {"denied", "network"}, BindFails(c, err) PROVE IInv'
      <4>1. CASE idx[c] = 0
        BY <3>6, <4>1, PlaneDialFirst DEF BindFails
      <4>2. CASE idx[c] # 0
        BY <3>6, <4>2, PlaneNextEndpoint DEF BindFails
      <4> QED BY <4>1, <4>2
    <3> QED BY <2>12, <3>1, <3>2, <3>3, <3>4, <3>5, <3>6 DEF Establish
  <2>13. CASE Relay(c)
    <3>1. ASSUME NEW from \in Tunnelled, NEW to \in Tunnelled, RelayStep(c, from, to)
          PROVE  IInv'
      BY <3>1, PlaneMove DEF RelayStep, States, Waiting, Tunnelled, Relaying
    <3>2. CASE Flushed(c) \/ ClientData(c) \/ GatePing(c) \/ GateData(c)
               \/ Sent(c) \/ Written(c)
      BY <3>1, <3>2 DEF Flushed, ClientData, GatePing, GateData, Sent, Written,
                        Tunnelled, Relaying
    <3>3. CASE ClientEof(c)
      BY <3>3, PlaneClientEof
    <3>4. CASE RelayFails(c) \/ Deadline(c)
      BY <3>4, PlaneEnd DEF RelayFails, Deadline
    <3> QED BY <2>13, <3>2, <3>3, <3>4 DEF Relay
  <2> QED BY <1>1, <2>1, <2>2, <2>3, <2>4, <2>5, <2>6, <2>7, <2>8, <2>9, <2>10, <2>11,
             <2>12, <2>13 DEF Conn
<1>2. ASSUME NEW ip \in Ips, LockoutEnds(ip) PROVE IInv'
  BY <1>2, PlaneLockoutEnds
<1>3. CASE AcceptFails
  BY <1>3, PlaneAcceptFails
<1>4. CASE UNCHANGED vars
  <2>1. UNCHANGED <<gates, count, locked, late, st, client, host, list, att, idx, via, done>>
    BY <1>4 DEF vars, conn, shared
  <2>2. TypeOK' /\ \A c \in Conns : Local(c)'
    BY <2>1 DEF IInv, TypeOK, Local
  <2>3. Open' = Open /\ \A a \in Ips : Guessing(a)' = Guessing(a)
    BY <2>1 DEF Open, Guessing
  <2> QED BY <2>1, <2>2, <2>3 DEF IInv, Permits, Lockouts
<1> QED BY <1>1, <1>2, <1>3, <1>4 DEF Next

(* The invariant holds in every behaviour of the data plane. *)
LEMMA PlaneInvariant == Spec => []IInv
BY PlaneInit, PlaneNext, PTL DEF Spec

(* Every variable of the data plane keeps its type. *)
THEOREM PlaneTypeCorrect == Spec => []TypeOK
<1>1. IInv => TypeOK
  BY DEF IInv
<1> QED BY <1>1, PlaneInvariant, PTL

(* A tunnel to a host that must leave by a compliant egress never runs
   through a Cloudflare gate: whatever the lists of gates, the failures
   before, the standby session taken and the restarts in between. *)
THEOREM EgressAlwaysCompliant == Spec => []CompliantEgress
<1>1. IInv => CompliantEgress
  BY DEF IInv, Local, CompliantEgress, Safe
<1> QED BY <1>1, PlaneInvariant, PTL

(* During a lockout an address gets in fewer guesses than there are permits,
   however many connections were past the check when it began. *)
THEOREM LockoutAlwaysHolds == Spec => []LockoutHolds
<1>1. ASSUME IInv PROVE LockoutHolds
  <2> SUFFICES ASSUME NEW ip \in Ips PROVE late[ip] < Cap
    BY DEF LockoutHolds
  <2>1. late[ip] \in Nat /\ Cap \in Nat \ {0}
    BY <1>1, PlaneAssumption DEF IInv, TypeOK
  <2>2. Guessing(ip) \subseteq Open /\ IsFiniteSet(Open)
    BY <1>1 DEF IInv, Permits, Guessing, Open
  <2>3. Cardinality(Guessing(ip)) \in Nat
    BY <2>2, FS_Subset, FS_CardinalityType
  <2>4. IF locked[ip] THEN late[ip] + Cardinality(Guessing(ip)) < Cap ELSE late[ip] = 0
    BY <1>1 DEF IInv, Lockouts
  <2> QED BY <2>1, <2>3, <2>4
<1> QED BY <1>1, PlaneInvariant, PTL
=============================================================================
