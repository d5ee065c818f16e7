-------------------------- MODULE GateServerProofs --------------------------
(***************************************************************************)
(* Proofs about GateServer, for any number of sessions and users, any      *)
(* quotas and any sizes of reads: no connection slot is leaked or given    *)
(* back twice, every delivered byte is charged once, and a quota is        *)
(* overrun by at most one chunk per open direction.                        *)
(*                                                                         *)
(* The bytes in flight are a sum over the open directions (MapThenSumSet). *)
(* The first part of the module shows what such a sum is, by induction     *)
(* over the subsets of a finite set: a least counterexample exists         *)
(* (LeastSubset) and is impossible.                                        *)
(*                                                                         *)
(* The last part is about the doors in front of the sessions, module       *)
(* GateAccess: for any clients, tokens, requests and lookups, whoever is   *)
(* let in had not been revoked before.                                     *)
(***************************************************************************)
EXTENDS GateServer, GateAccess, FiniteSetTheorems, SequenceTheorems, TLAPS

(* A set of subsets of a finite set has an element minimal for inclusion. *)
LEMMA LeastSubset ==
  ASSUME NEW S, IsFiniteSet(S), NEW T, T \subseteq SUBSET S, T # {}
  PROVE  \E x \in T : \A y \in T : y \subseteq x => y = x
<1>1. IsWellFoundedOn(StrictSubsetOrdering(S), FiniteSubsetsOf(S))
  BY FS_StrictSubsetOrderingWellFounded
<1>2. FiniteSubsetsOf(S) = SUBSET S
  BY FS_FiniteSubsetsOfFinite
<1>3. \E x \in T : \A y \in T : ~ (<<y, x>> \in StrictSubsetOrdering(S))
  BY <1>1, <1>2, WFMin
<1> QED BY <1>3 DEF StrictSubsetOrdering

(* g gives every subset of S the sum of f over it, whichever element is
   counted first. *)
IsSum(g, f, S) ==
  /\ g \in [SUBSET S -> Nat]
  /\ g[{}] = 0
  /\ \A T \in SUBSET S : \A x \in T : g[T] = f[x] + g[T \ {x}]

(* Every finite set has such sums. *)
LEMMA SumExists ==
  ASSUME NEW S, IsFiniteSet(S), NEW f \in [S -> Nat]
  PROVE  \E g : IsSum(g, f, S)
<1> DEFINE Bad == {T \in SUBSET S : ~ \E g : IsSum(g, f, T)}
<1>1. SUFFICES ASSUME Bad # {} PROVE FALSE
  BY DEF Bad
<1>2. PICK T \in Bad : \A y \in Bad : y \subseteq T => y = T
  <2>1. Bad \subseteq SUBSET S
    OBVIOUS
  <2> HIDE DEF Bad
  <2> QED BY <1>1, <2>1, LeastSubset
<1>3. T # {}
  <2> DEFINE z == [t \in SUBSET {} |-> 0]
  <2>1. IsSum(z, f, {})
    BY DEF IsSum
  <2> QED BY <2>1
<1>4. PICK a \in T : TRUE
  BY <1>3
<1> DEFINE R == T \ {a}
<1>5. PICK g : IsSum(g, f, R)
  <2>1. R \in SUBSET S /\ R # T /\ R \subseteq T
    BY <1>4
  <2>2. R \notin Bad
    BY <1>2, <2>1
  <2> HIDE DEF R
  <2> QED BY <2>1, <2>2
<1> DEFINE h == [t \in SUBSET T |-> IF a \in t THEN f[a] + g[t \ {a}] ELSE g[t]]
<1>6. h \in [SUBSET T -> Nat]
  BY <1>5 DEF IsSum
<1>7. h[{}] = 0
  BY <1>5 DEF IsSum
<1>8. ASSUME NEW t \in SUBSET T, NEW x \in t
      PROVE  h[t] = f[x] + h[t \ {x}]
  <2>1. CASE x = a
    <3>1. t \ {a} \in SUBSET R /\ a \notin (t \ {a}) /\ t \ {a} \in SUBSET T
      OBVIOUS
    <3> QED BY <2>1, <3>1
  <2>2. CASE x # a /\ a \notin t
    <3>1. t \in SUBSET R /\ a \notin t \ {x} /\ t \ {x} \in SUBSET T
      BY <2>2
    <3> QED BY <2>2, <3>1, <1>5 DEF IsSum
  <2>3. CASE x # a /\ a \in t
    <3>1. /\ t \ {a} \in SUBSET R /\ x \in t \ {a} /\ a \in t \ {x}
          /\ t \ {x} \in SUBSET T /\ (t \ {x}) \ {a} \in SUBSET R
          /\ (t \ {a}) \ {x} = (t \ {x}) \ {a}
      BY <2>3
    <3>2. g[t \ {a}] = f[x] + g[(t \ {x}) \ {a}]
      BY <3>1, <1>5 DEF IsSum
    <3>3. f[a] \in Nat /\ f[x] \in Nat /\ g[(t \ {x}) \ {a}] \in Nat
      BY <3>1, <1>5 DEF IsSum
    <3>4. h[t] = f[a] + g[t \ {a}] /\ h[t \ {x}] = f[a] + g[(t \ {x}) \ {a}]
      BY <2>3, <3>1
    <3> QED BY <3>2, <3>3, <3>4
  <2> QED BY <2>1, <2>2, <2>3
<1>9. IsSum(h, f, T)
  <2> HIDE DEF h
  <2> QED BY <1>6, <1>7, <1>8 DEF IsSum
<1> QED BY <1>9

(* What a fold that always counts the chosen element first computes. *)
FoldsTo(h, f, S) ==
  h = [s \in SUBSET S |->
         IF s = {} THEN 0
         ELSE f[CHOOSE x \in s : TRUE] + h[s \ {CHOOSE x \in s : TRUE}]]

(* It is the sum. *)
LEMMA FoldIsSum ==
  ASSUME NEW S, IsFiniteSet(S), NEW f, NEW g, IsSum(g, f, S)
  PROVE  FoldsTo(g, f, S) /\ \A h : FoldsTo(h, f, S) => h = g
<1>1. FoldsTo(g, f, S)
  <2>1. \A s \in SUBSET S : s # {} => (CHOOSE x \in s : TRUE) \in s
    OBVIOUS
  <2> QED BY <2>1 DEF FoldsTo, IsSum
<1>2. ASSUME NEW h, FoldsTo(h, f, S) PROVE h = g
  <2> DEFINE Bad == {T \in SUBSET S : h[T] # g[T]}
  <2>1. h = [s \in SUBSET S |-> h[s]]
    BY <1>2 DEF FoldsTo
  <2>2. SUFFICES ASSUME Bad # {} PROVE FALSE
    BY <2>1 DEF IsSum
  <2>3. PICK T \in Bad : \A y \in Bad : y \subseteq T => y = T
    <3>1. Bad \subseteq SUBSET S
      OBVIOUS
    <3> HIDE DEF Bad
    <3> QED BY <2>2, <3>1, LeastSubset
  <2>4. T # {}
    BY <1>2 DEF IsSum, FoldsTo
  <2> DEFINE a == CHOOSE x \in T : TRUE
  <2>5. a \in T
    BY <2>4
  <2>6. h[T] = f[a] + h[T \ {a}]
    BY <1>2, <2>4 DEF FoldsTo
  <2>7. g[T] = f[a] + g[T \ {a}]
    BY <2>5 DEF IsSum
  <2>8. h[T \ {a}] = g[T \ {a}]
    BY <2>3, <2>5
  <2> QED BY <2>6, <2>7, <2>8
<1> QED BY <1>1, <1>2

-----------------------------------------------------------------------------
(* The lengths ln over a set of directions, added up as Uncharged does. *)
Pairs == Sessions \X Dirs
Total(ln, S) == MapThenSumSet(LAMBDA sd : ln[sd[1]][sd[2]], S)
Lens == [Sessions -> [Dirs -> Nat]]
LenAt(ln, sd) == ln[sd[1]][sd[2]]

(* There are finitely many directions (two per session). *)
LEMMA PairsFinite ==
  /\ IsFiniteSet(Pairs)
  /\ Cardinality(Pairs) = 2 * Cardinality(Sessions)
  /\ Cardinality(Sessions) \in Nat
<1>1. IsFiniteSet(Dirs) /\ Cardinality(Dirs) = 2
  <2>1. IsFiniteSet({"up"}) /\ Cardinality({"up"}) = 1
    BY FS_Singleton
  <2>2. Dirs = {"up"} \cup {"down"} /\ "down" \notin {"up"}
    BY DEF Dirs
  <2> QED BY <2>1, <2>2, FS_AddElement
<1>2. IsFiniteSet(Sessions) /\ Cardinality(Sessions) \in Nat
  BY GateAssumption, FS_CardinalityType
<1>3. IsFiniteSet(Sessions \X Dirs)
      /\ Cardinality(Sessions \X Dirs) = Cardinality(Sessions) * Cardinality(Dirs)
  BY <1>1, <1>2, FS_Product
<1> QED BY <1>1, <1>2, <1>3 DEF Pairs

(* The sum that MapThenSumSet computes is the sum in any order. *)
LEMMA TotalIsSum ==
  ASSUME NEW ln \in Lens, NEW S, S \subseteq Pairs, NEW g,
         IsSum(g, [sd \in S |-> LenAt(ln, sd)], S)
  PROVE  Total(ln, S) = g[S]
<1> DEFINE f == [sd \in S |-> LenAt(ln, sd)]
<1> DEFINE Eq(h) == h = [s \in SUBSET S |->
         IF s = {} THEN 0
         ELSE ln[(CHOOSE x \in s : TRUE)[1]][(CHOOSE x \in s : TRUE)[2]]
                + h[s \ {CHOOSE x \in s : TRUE}]]
<1> DEFINE it == CHOOSE h : Eq(h)
<1>1. Total(ln, S) = it[S]
  BY DEF Total, MapThenSumSet, MapThenFoldSet
<1>2. \A s \in SUBSET S : s # {} =>
         f[CHOOSE x \in s : TRUE]
           = ln[(CHOOSE x \in s : TRUE)[1]][(CHOOSE x \in s : TRUE)[2]]
  BY DEF LenAt
<1>3. \A h : FoldsTo(h, f, S) <=> Eq(h)
  <2> HIDE DEF f
  <2> QED BY <1>2 DEF FoldsTo
<1>4. IsFiniteSet(S)
  BY PairsFinite, FS_Subset
<1>5. FoldsTo(g, f, S) /\ \A h : FoldsTo(h, f, S) => h = g
  <2> HIDE DEF f
  <2>1. IsSum(g, f, S)
    BY DEF f
  <2> QED BY <1>4, <2>1, FoldIsSum
<1>6. Eq(it)
  <2> HIDE DEF f, Eq
  <2> QED BY <1>3, <1>5
<1>7. it = g
  <2> HIDE DEF f, it, Eq
  <2> QED BY <1>3, <1>5, <1>6
<1> QED BY <1>1, <1>7

(* What the invariant proofs use of a sum: its type, that it is empty, that a
   direction adds its length, and that no other lengths count. *)
LEMMA TotalFacts ==
  ASSUME NEW ln \in Lens, NEW S, S \subseteq Pairs
  PROVE  /\ Total(ln, S) \in Nat
         /\ S = {} => Total(ln, S) = 0
         /\ \A x \in S : Total(ln, S) = LenAt(ln, x) + Total(ln, S \ {x})
<1> DEFINE f == [sd \in S |-> LenAt(ln, sd)]
<1>1. IsFiniteSet(S)
  BY PairsFinite, FS_Subset
<1>2. f \in [S -> Nat]
  BY DEF LenAt, Lens, Pairs
<1>3. PICK g : IsSum(g, f, S)
  <2> HIDE DEF f
  <2> QED BY <1>1, <1>2, SumExists
<1>4. Total(ln, S) = g[S]
  BY <1>3, TotalIsSum
<1>5. g[S] \in Nat /\ (S = {} => g[S] = 0)
  BY <1>3 DEF IsSum
<1>6. ASSUME NEW x \in S
      PROVE  Total(ln, S) = LenAt(ln, x) + Total(ln, S \ {x})
  <2> DEFINE R == S \ {x}
  <2> DEFINE r == [T \in SUBSET R |-> g[T]]
  <2>1. IsSum(r, [sd \in R |-> LenAt(ln, sd)], R)
    <3>1. r \in [SUBSET R -> Nat] /\ r[{}] = 0
      BY <1>3 DEF IsSum
    <3>2. ASSUME NEW T \in SUBSET R, NEW y \in T
          PROVE  r[T] = [sd \in R |-> LenAt(ln, sd)][y] + r[T \ {y}]
      <4>1. T \in SUBSET S /\ T \ {y} \in SUBSET R /\ y \in S
        OBVIOUS
      <4>2. g[T] = f[y] + g[T \ {y}]
        BY <1>3, <4>1 DEF IsSum
      <4> QED BY <4>1, <4>2
    <3> HIDE DEF r
    <3> QED BY <3>1, <3>2 DEF IsSum
  <2>2. Total(ln, R) = r[R]
    <3> HIDE DEF r
    <3>1. R \subseteq Pairs
      OBVIOUS
    <3> HIDE DEF R
    <3> QED BY <2>1, <3>1, TotalIsSum
  <2>3. r[R] = g[R]
    OBVIOUS
  <2>4. g[S] = f[x] + g[S \ {x}]
    BY <1>3 DEF IsSum
  <2> QED BY <1>4, <2>2, <2>3, <2>4
<1> QED BY <1>4, <1>5, <1>6

(* Lengths that agree on a set have the same sum over it. *)
LEMMA TotalAgree ==
  ASSUME NEW l1 \in Lens, NEW l2 \in Lens, NEW S, S \subseteq Pairs,
         \A x \in S : LenAt(l1, x) = LenAt(l2, x)
  PROVE  Total(l1, S) = Total(l2, S)
<1> DEFINE f == [sd \in S |-> LenAt(l1, sd)]
<1>1. IsFiniteSet(S)
  BY PairsFinite, FS_Subset
<1>2. f \in [S -> Nat]
  BY DEF LenAt, Lens, Pairs
<1>3. PICK g : IsSum(g, f, S)
  <2> HIDE DEF f
  <2> QED BY <1>1, <1>2, SumExists
<1>4. f = [sd \in S |-> LenAt(l2, sd)]
  OBVIOUS
<1>5. Total(l1, S) = g[S]
  BY <1>3, TotalIsSum
<1>6. Total(l2, S) = g[S]
  BY <1>3, <1>4, TotalIsSum
<1> QED BY <1>5, <1>6

(* A sum of lengths is at most the largest length for each of them. *)
LEMMA TotalBound ==
  ASSUME NEW ln \in Lens, NEW m \in Nat, NEW S, S \subseteq Pairs,
         \A x \in Pairs : LenAt(ln, x) <= m
  PROVE  Total(ln, S) <= m * Cardinality(S)
<1> DEFINE Bad == {T \in SUBSET S : ~ (Total(ln, T) <= m * Cardinality(T))}
<1>1. SUFFICES ASSUME Bad # {} PROVE FALSE
  OBVIOUS
<1>2. PICK T \in Bad : \A y \in Bad : y \subseteq T => y = T
  <2>1. Bad \subseteq SUBSET S /\ IsFiniteSet(S)
    BY PairsFinite, FS_Subset
  <2> HIDE DEF Bad
  <2> QED BY <1>1, <2>1, LeastSubset
<1>3. IsFiniteSet(T) /\ Cardinality(T) \in Nat /\ T \subseteq Pairs
  BY PairsFinite, FS_Subset, FS_CardinalityType
<1>4. T # {}
  <2>1. Total(ln, {}) = 0
    BY TotalFacts
  <2>2. m * Cardinality({}) = 0
    BY FS_EmptySet
  <2> QED BY <2>1, <2>2
<1>5. PICK a \in T : TRUE
  BY <1>4
<1> DEFINE R == T \ {a}
<1>6. Cardinality(R) = Cardinality(T) - 1 /\ Cardinality(R) \in Nat
  BY <1>3, <1>5, FS_RemoveElement, FS_CardinalityType
<1>7. Total(ln, R) <= m * Cardinality(R)
  <2>1. R \in SUBSET S /\ R # T /\ R \subseteq T
    BY <1>5
  <2> HIDE DEF R
  <2> QED BY <1>2, <2>1
<1>8. Total(ln, T) = LenAt(ln, a) + Total(ln, R) /\ Total(ln, R) \in Nat
  BY <1>3, <1>5, TotalFacts
<1>9. LenAt(ln, a) <= m /\ LenAt(ln, a) \in Nat
  BY <1>3, <1>5 DEF LenAt, Lens, Pairs
<1>10. m * Cardinality(R) + m = m * Cardinality(T)
  BY <1>3, <1>6
<1>11. Total(ln, T) <= m * Cardinality(T)
  <2> HIDE DEF R
  <2> QED BY <1>3, <1>6, <1>7, <1>8, <1>9, <1>10
<1> QED BY <1>11

-----------------------------------------------------------------------------
(* The inductive invariant. *)

(* Where the task of a session may be tells how it was admitted and whether
   its pumps run, and no read returned more than the largest chunk. *)
Shape ==
  \A s \in Sessions :
    /\ pc[s] # "relay" => dir[s] = Idle
    /\ pc[s] \in {"upgrade", "first"} => kind[s] = "ws"
    /\ pc[s] = "resolve" => kind[s] = "connect"
    /\ \A d \in Dirs : len[s][d] <= MaxChunk

(* The directions that may still deliver on behalf of u without another look
   at the quota. *)
Live(u) ==
  {sd \in Pairs : /\ usr[sd[1]] = u
                  /\ pc[sd[1]] \in {"upgrade"} \cup Guarded
                  /\ dir[sd[1]][sd[2]] # "done"}

(* Once the quota of u is used up its overrun and what the live directions
   may add to it stay below one chunk per direction. *)
Cut ==
  \A u \in Tenants :
    used[u] >= Quota[u] =>
      used[u] + MaxChunk * Cardinality(Live(u))
        < Quota[u] + MaxChunk * 2 * Cardinality(Sessions)

IInv == TypeOK /\ Shape /\ SlotsBalanced /\ ChargedExactly /\ Cut

(* A chunk is a positive number and the largest one exists. *)
LEMMA ChunkFacts ==
  /\ MaxChunk \in Nat \ {0}
  /\ \A n \in Chunks : n \in Nat /\ n <= MaxChunk
BY GateAssumption DEF MaxChunk

(* The directions whose chunk is delivered and not yet charged. *)
Owing(u) ==
  {sd \in Sessions \X Dirs : usr[sd[1]] = u /\ At(sd[1], sd[2], "charge")}

(* A direction of s owes a charge to u; may still deliver for u. *)
Owes(s, d, u) == usr[s] = u /\ pc[s] = "relay" /\ dir[s][d] = "charge"
Lives(s, d, u) ==
  usr[s] = u /\ pc[s] \in {"upgrade"} \cup Guarded /\ dir[s][d] # "done"

(* Both, as sets of directions, before and after a step. *)
LEMMA PairSets ==
  ASSUME NEW u
  PROVE  /\ Owing(u) = {sd \in Pairs : Owes(sd[1], sd[2], u)}
         /\ Live(u) = {sd \in Pairs : Lives(sd[1], sd[2], u)}
         /\ Uncharged(u) = Total(len, Owing(u))
         /\ Owing(u)' = {sd \in Pairs : Owes(sd[1], sd[2], u)'}
         /\ Live(u)' = {sd \in Pairs : Lives(sd[1], sd[2], u)'}
         /\ Uncharged(u)' = Total(len', Owing(u)')
<1>1. \A s, d : At(s, d, "charge") <=> pc[s] = "relay" /\ dir[s][d] = "charge"
  BY DEF At
<1>2. \A s, d : At(s, d, "charge")' <=> pc'[s] = "relay" /\ dir'[s][d] = "charge"
  BY DEF At
<1>3. Owing(u) = {sd \in Pairs : Owes(sd[1], sd[2], u)}
  BY <1>1 DEF Owing, Pairs, Owes
<1>4. Owing(u)' = {sd \in Pairs : Owes(sd[1], sd[2], u)'}
  BY <1>2 DEF Owing, Pairs, Owes
<1>5. /\ Live(u) = {sd \in Pairs : Lives(sd[1], sd[2], u)}
      /\ Live(u)' = {sd \in Pairs : Lives(sd[1], sd[2], u)'}
  BY DEF Live, Lives
<1>6. Uncharged(u) = Total(len, Owing(u))
  BY DEF Uncharged, Total, Owing
<1>7. Uncharged(u)' = Total(len', Owing(u)')
  BY DEF Uncharged, Total, Owing, MapThenSumSet, MapThenFoldSet
<1> QED BY <1>3, <1>4, <1>5, <1>6, <1>7

(* Every step is a step of one session: the others keep their state. *)
Others(s) ==
  \A t \in Sessions \ {s} :
    /\ pc'[t] = pc[t] /\ kind'[t] = kind[t] /\ usr'[t] = usr[t]
    /\ dir'[t] = dir[t] /\ len'[t] = len[t]

(* The shape of the others stays as it is. *)
LEMMA ShapeKept ==
  ASSUME IInv, NEW s \in Sessions, Others(s),
         pc'[s] # "relay" => dir'[s] = Idle,
         pc'[s] \in {"upgrade", "first"} => kind'[s] = "ws",
         pc'[s] = "resolve" => kind'[s] = "connect",
         \A d \in Dirs : len'[s][d] <= MaxChunk
  PROVE  Shape'
<1> SUFFICES ASSUME NEW t \in Sessions
             PROVE  ( /\ pc[t] # "relay" => dir[t] = Idle
                      /\ pc[t] \in {"upgrade", "first"} => kind[t] = "ws"
                      /\ pc[t] = "resolve" => kind[t] = "connect"
                      /\ \A d \in Dirs : len[t][d] <= MaxChunk)'
  BY DEF Shape
<1>1. CASE t = s
  BY <1>1
<1>2. CASE t # s
  BY <1>2 DEF Others, IInv, Shape
<1> QED BY <1>1, <1>2

(* A step of s that neither takes nor gives back a slot. *)
LEMMA SlotsKept ==
  ASSUME IInv, NEW s \in Sessions, Others(s), conns' = conns,
         \A u \in Subs : Holds(s, u)' <=> Holds(s, u)
  PROVE  SlotsBalanced'
<1>1. \A t \in Sessions, u \in Subs : Holds(t, u)' <=> Holds(t, u)
  BY DEF Others, Holds
<1>2. \A u \in Subs : {t \in Sessions : Holds(t, u)}' = {t \in Sessions : Holds(t, u)}
  BY <1>1
<1> QED BY <1>2 DEF IInv, SlotsBalanced

(* A step of s whose directions owe user u what they owed. *)
LEMMA UserChargesKept ==
  ASSUME IInv, TypeOK', NEW s \in Sessions, Others(s), NEW u \in Tenants,
         used'[u] = used[u], delivered'[u] = delivered[u],
         \A d \in Dirs :
           /\ Owes(s, d, u)' <=> Owes(s, d, u)
           /\ Owes(s, d, u) => len'[s][d] = len[s][d]
  PROVE  (used[u] + Uncharged(u) = delivered[u])'
<1>1. \A t \in Sessions, d \in Dirs : Owes(t, d, u)' <=> Owes(t, d, u)
  BY DEF Others, Owes
<1>2. \A x \in Pairs : x[1] \in Sessions /\ x[2] \in Dirs
  BY DEF Pairs
<1>3. Owing(u)' = Owing(u)
  <2>1. Owing(u) = {sd \in Pairs : Owes(sd[1], sd[2], u)}
    BY PairSets
  <2>2. Owing(u)' = {sd \in Pairs : Owes(sd[1], sd[2], u)'}
    BY PairSets
  <2> QED BY <1>1, <1>2, <2>1, <2>2
<1>4. Uncharged(u) = Total(len, Owing(u)) /\ Uncharged(u)' = Total(len', Owing(u)')
  BY PairSets
<1>5. \A x \in Owing(u) : LenAt(len, x) = LenAt(len', x)
  <2>1. ASSUME NEW x \in Owing(u) PROVE LenAt(len, x) = LenAt(len', x)
    <3>1. x[1] \in Sessions /\ x[2] \in Dirs /\ Owes(x[1], x[2], u)
      BY <1>2, PairSets
    <3>2. CASE x[1] = s
      BY <3>1, <3>2 DEF LenAt
    <3>3. CASE x[1] # s
      BY <3>1, <3>3 DEF LenAt, Others
    <3> QED BY <3>2, <3>3
  <2> QED BY <2>1
<1>6. len \in Lens /\ len' \in Lens /\ Owing(u) \subseteq Pairs
  BY PairSets DEF IInv, TypeOK, Lens
<1>7. Total(len, Owing(u)) = Total(len', Owing(u))
  BY <1>5, <1>6, TotalAgree
<1> QED BY <1>3, <1>4, <1>7 DEF IInv, ChargedExactly

(* The same for every user. *)
LEMMA ChargesKept ==
  ASSUME IInv, TypeOK', NEW s \in Sessions, Others(s),
         used' = used, delivered' = delivered,
         \A u \in Tenants, d \in Dirs :
           /\ Owes(s, d, u)' <=> Owes(s, d, u)
           /\ Owes(s, d, u) => len'[s][d] = len[s][d]
  PROVE  ChargedExactly'
BY UserChargesKept DEF ChargedExactly

(* A user whose quota is used up: the bound. *)
Bounded(u) ==
  used[u] >= Quota[u] =>
    used[u] + MaxChunk * Cardinality(Live(u))
      < Quota[u] + MaxChunk * 2 * Cardinality(Sessions)

(* A step of s that charges u nothing and makes no direction live for it when
   its quota is used up. *)
LEMMA UserCutKept ==
  ASSUME IInv, NEW s \in Sessions, Others(s), NEW u \in Tenants, used'[u] = used[u],
         \A d \in Dirs :
           used[u] >= Quota[u] /\ Lives(s, d, u)' => Lives(s, d, u)
  PROVE  Bounded(u)'
<1> SUFFICES ASSUME used[u] >= Quota[u]
             PROVE  (used[u] + MaxChunk * Cardinality(Live(u))
                       < Quota[u] + MaxChunk * 2 * Cardinality(Sessions))'
  BY DEF Bounded
<1>1. \A t \in Sessions, d \in Dirs : Lives(t, d, u)' => Lives(t, d, u)
  BY DEF Others, Lives
<1>2. Live(u)' \subseteq Live(u)
  <2>1. Live(u) = {sd \in Pairs : Lives(sd[1], sd[2], u)}
    BY PairSets
  <2>2. Live(u)' = {sd \in Pairs : Lives(sd[1], sd[2], u)'}
    BY PairSets
  <2>3. \A x \in Pairs : x[1] \in Sessions /\ x[2] \in Dirs
    BY DEF Pairs
  <2> QED BY <1>1, <2>1, <2>2, <2>3
<1>3. IsFiniteSet(Live(u))
  BY PairsFinite, FS_Subset DEF Live
<1>4. /\ Cardinality(Live(u)') <= Cardinality(Live(u))
      /\ Cardinality(Live(u)) \in Nat /\ Cardinality(Live(u)') \in Nat
  BY <1>2, <1>3, FS_Subset, FS_CardinalityType
<1>5. MaxChunk * Cardinality(Live(u)') <= MaxChunk * Cardinality(Live(u))
      /\ MaxChunk * Cardinality(Live(u)') \in Nat /\ MaxChunk * Cardinality(Live(u)) \in Nat
  BY <1>4, ChunkFacts
<1>6. used[u] \in Nat /\ Quota[u] \in Nat
  BY GateAssumption DEF IInv, TypeOK
<1>8. MaxChunk * 2 * Cardinality(Sessions) \in Nat
  BY ChunkFacts, PairsFinite
<1>7. used[u] + MaxChunk * Cardinality(Live(u))
        < Quota[u] + MaxChunk * 2 * Cardinality(Sessions)
  BY DEF IInv, Cut
<1> QED BY <1>5, <1>6, <1>7, <1>8

(* The same for every user. *)
LEMMA CutKept ==
  ASSUME IInv, NEW s \in Sessions, Others(s), used' = used,
         \A u \in Tenants, d \in Dirs :
           used[u] >= Quota[u] /\ Lives(s, d, u)' => Lives(s, d, u)
  PROVE  Cut'
BY UserCutKept DEF Cut, Bounded

(* The task of s ends where none of its directions owes a charge: the slot it
   holds, and no other, is given back. *)
LEMMA GateEnd ==
  ASSUME IInv, NEW s \in Sessions, End(s),
         UNCHANGED <<used, delivered, leftover>>, ~Charging(s) \/ pc[s] # "relay"
  PROVE  IInv'
<1>1. /\ pc' = [pc EXCEPT ![s] = "free"]
      /\ kind' = [kind EXCEPT ![s] = "ws"]
      /\ usr' = [usr EXCEPT ![s] = Tunnel]
      /\ dir' = [dir EXCEPT ![s] = Idle]
      /\ len' = [len EXCEPT ![s] = [d \in Dirs |-> 0]]
      /\ cancel' = [cancel EXCEPT ![s] = FALSE]
  BY DEF End
<1>2. Others(s)
  BY <1>1 DEF Others, IInv, TypeOK
<1>3. pc'[s] = "free" /\ dir'[s] = Idle /\ len'[s] = [d \in Dirs |-> 0]
  BY <1>1 DEF IInv, TypeOK
<1>4. TypeOK'
  <2>1. conns' \in [Subs -> Nat]
    BY DEF End, DropGuard, IInv, TypeOK
  <2>2. Tunnel \in Users /\ Idle \in [Dirs -> {"off", "read", "write", "charge", "done"}]
        /\ [d \in Dirs |-> 0] \in [Dirs -> Nat]
    BY DEF Users, Idle
  <2>3. /\ pc' \in [Sessions -> {"free", "upgrade", "resolve"} \cup Guarded]
        /\ kind' \in [Sessions -> {"ws", "connect"}]
        /\ usr' \in [Sessions -> Users]
        /\ cancel' \in [Sessions -> BOOLEAN]
    BY <1>1, <2>2 DEF IInv, TypeOK
  <2>4. /\ dir' \in [Sessions -> [Dirs -> {"off", "read", "write", "charge", "done"}]]
        /\ len' \in [Sessions -> [Dirs -> Nat]]
    BY <1>1, <2>2 DEF IInv, TypeOK
  <2> QED BY <2>1, <2>3, <2>4 DEF IInv, TypeOK
<1>5. Shape'
  <2>1. \A d \in Dirs : len'[s][d] <= MaxChunk
    BY <1>3, ChunkFacts
  <2> QED BY <1>2, <1>3, <2>1, ShapeKept
<1>6. SlotsBalanced'
  <2> SUFFICES ASSUME NEW u \in Subs
               PROVE  (conns[u] = Cardinality({t \in Sessions : Holds(t, u)}))'
    BY DEF SlotsBalanced
  <2> DEFINE H == {t \in Sessions : Holds(t, u)}
  <2>1. IsFiniteSet(H) /\ Cardinality(H) \in Nat
    BY GateAssumption, FS_Subset, FS_CardinalityType
  <2>2. H' = H \ {s}
    <3>1. ~ Holds(s, u)'
      BY <1>3 DEF Holds, Guarded
    <3>2. \A t \in Sessions \ {s} : Holds(t, u)' <=> Holds(t, u)
      BY <1>2 DEF Others, Holds
    <3> QED BY <3>1, <3>2
  <2>3. Cardinality(H \ {s}) = IF s \in H THEN Cardinality(H) - 1 ELSE Cardinality(H)
    BY <2>1, FS_RemoveElement
  <2>4. s \in H => Cardinality(H) > 0
    <3> HIDE DEF H
    <3> QED BY <2>1, FS_EmptySet
  <2>5. conns[u] = Cardinality(H)
    BY DEF IInv, SlotsBalanced
  <2>6. conns'[u] = IF s \in H /\ conns[u] > 0 THEN conns[u] - 1 ELSE conns[u]
    BY DEF End, DropGuard
  <2> HIDE DEF H
  <2>7. conns'[u] = Cardinality(H')
    BY <2>1, <2>2, <2>3, <2>4, <2>5, <2>6
  <2> QED BY <2>7 DEF H
<1>7. ChargedExactly'
  <2>1. \A u \in Tenants, d \in Dirs : ~ Owes(s, d, u) /\ ~ Owes(s, d, u)'
    BY <1>3 DEF Owes, Charging
  <2> QED BY <1>2, <1>4, <2>1, ChargesKept
<1>8. Cut'
  <2>1. \A u \in Tenants, d \in Dirs : ~ Lives(s, d, u)'
    BY <1>3 DEF Lives, Guarded
  <2> QED BY <1>2, <2>1, CutKept
<1> QED BY <1>4, <1>5, <1>6, <1>7, <1>8 DEF IInv

(* A session is admitted (handle_ws, serve): no slot is taken yet, and a
   direction becomes live only for a user whose quota is not used up. *)
LEMMA GateAccept ==
  ASSUME IInv, NEW s \in Sessions, NEW u \in Users,
         NEW k \in {"ws", "connect"}, NEW p \in {"upgrade", "resolve"},
         p = "upgrade" <=> k = "ws", p = "upgrade" => InQuota(u),
         Accept(s, u, k, p)
  PROVE  IInv'
<1>1. /\ pc[s] = "free" /\ pc' = [pc EXCEPT ![s] = p]
      /\ usr' = [usr EXCEPT ![s] = u] /\ kind' = [kind EXCEPT ![s] = k]
      /\ UNCHANGED <<dir, len, cancel, conns, used, delivered, leftover>>
  BY DEF Accept, Goto, counters
<1>2. Others(s) /\ pc'[s] = p /\ usr'[s] = u /\ kind'[s] = k
  BY <1>1 DEF Others, IInv, TypeOK
<1>3. TypeOK'
  BY <1>1 DEF IInv, TypeOK
<1>4. Shape'
  BY <1>1, <1>2, ShapeKept DEF IInv, Shape
<1>5. SlotsBalanced'
  <2>1. \A v \in Subs : ~ Holds(s, v) /\ ~ Holds(s, v)'
    BY <1>1, <1>2 DEF Holds, Guarded
  <2> QED BY <1>1, <1>2, <2>1, SlotsKept
<1>6. ChargedExactly'
  <2>1. \A v \in Tenants, d \in Dirs : ~ Owes(s, d, v) /\ ~ Owes(s, d, v)'
    BY <1>1, <1>2 DEF Owes
  <2> QED BY <1>1, <1>2, <1>3, <2>1, ChargesKept
<1>7. Cut'
  <2>1. \A v \in Tenants, d \in Dirs : used[v] >= Quota[v] => ~ Lives(s, d, v)'
    <3>1. \A v \in Tenants : used[v] \in Nat /\ Quota[v] \in Nat
      BY GateAssumption DEF IInv, TypeOK
    <3> QED BY <1>1, <1>2, <3>1 DEF Lives, InQuota, Guarded
  <2> QED BY <1>1, <1>2, <2>1, CutKept
<1> QED BY <1>3, <1>4, <1>5, <1>6, <1>7 DEF IInv

(* ConnGuard::new takes the slot of the session's user, if it has one. *)
LEMMA GateWsOpen ==
  ASSUME IInv, NEW s \in Sessions, WsOpen(s)
  PROVE  IInv'
<1>1. /\ pc[s] = "upgrade" /\ pc' = [pc EXCEPT ![s] = "first"]
      /\ UNCHANGED <<kind, usr, dir, len, cancel, used, delivered, leftover>>
  BY DEF WsOpen, Goto
<1>2. Others(s) /\ pc'[s] = "first"
  BY <1>1 DEF Others, IInv, TypeOK
<1>3. TypeOK'
  <2>1. conns' \in [Subs -> Nat]
    BY DEF WsOpen, IInv, TypeOK
  <2> QED BY <1>1, <2>1 DEF IInv, TypeOK, Guarded
<1>4. Shape'
  BY <1>1, <1>2, ShapeKept DEF IInv, Shape
<1>5. SlotsBalanced'
  <2> SUFFICES ASSUME NEW u \in Subs
               PROVE  (conns[u] = Cardinality({t \in Sessions : Holds(t, u)}))'
    BY DEF SlotsBalanced
  <2> DEFINE H == {t \in Sessions : Holds(t, u)}
  <2>1. IsFiniteSet(H) /\ Cardinality(H) \in Nat
    BY GateAssumption, FS_Subset, FS_CardinalityType
  <2>2. s \notin H /\ kind[s] = "ws"
    BY <1>1 DEF Holds, Guarded, IInv, Shape
  <2>3. H' = IF usr[s] = u THEN H \cup {s} ELSE H
    <3>1. Holds(s, u)' <=> usr[s] = u
      BY <1>1, <1>2, <2>2 DEF Holds, Guarded
    <3>2. \A t \in Sessions \ {s} : Holds(t, u)' <=> Holds(t, u)
      BY <1>2 DEF Others, Holds
    <3> QED BY <2>2, <3>1, <3>2
  <2>4. Cardinality(H \cup {s}) = Cardinality(H) + 1
    BY <2>1, <2>2, FS_AddElement
  <2>5. conns[u] = Cardinality(H)
    BY DEF IInv, SlotsBalanced
  <2>6. conns'[u] = IF usr[s] = u THEN conns[u] + 1 ELSE conns[u]
    BY DEF WsOpen
  <2> HIDE DEF H
  <2>7. conns'[u] = Cardinality(H')
    BY <2>1, <2>3, <2>4, <2>5, <2>6
  <2> QED BY <2>7 DEF H
<1>6. ChargedExactly'
  <2>1. \A v \in Tenants, d \in Dirs : ~ Owes(s, d, v) /\ ~ Owes(s, d, v)'
    BY <1>1, <1>2 DEF Owes
  <2> QED BY <1>1, <1>2, <1>3, <2>1, ChargesKept
<1>7. Cut'
  <2>1. \A v \in Tenants, d \in Dirs : Lives(s, d, v)' => Lives(s, d, v)
    BY <1>1, <1>2 DEF Lives, Guarded
  <2> QED BY <1>1, <1>2, <2>1, CutKept
<1> QED BY <1>3, <1>4, <1>5, <1>6, <1>7 DEF IInv

(* The first frame; the quota check of CONNECT, which alone lets a direction
   of the session become live. *)
LEMMA GateToDial ==
  ASSUME IInv, NEW s \in Sessions, FirstFrame(s) \/ ConnectQuotaCheck(s)
  PROVE  IInv'
<1>1. /\ pc[s] \in {"first", "resolve"} /\ pc' = [pc EXCEPT ![s] = "dial"]
      /\ pc[s] = "resolve" => InQuota(usr[s])
      /\ UNCHANGED <<kind, usr, dir, len, cancel, conns, used, delivered, leftover>>
  BY DEF FirstFrame, ConnectQuotaCheck, Goto, counters
<1>2. Others(s) /\ pc'[s] = "dial"
  BY <1>1 DEF Others, IInv, TypeOK
<1>3. TypeOK'
  BY <1>1 DEF IInv, TypeOK, Guarded
<1>4. Shape'
  BY <1>1, <1>2, ShapeKept DEF IInv, Shape
<1>5. SlotsBalanced'
  <2>1. \A v \in Subs : Holds(s, v)' <=> Holds(s, v)
    BY <1>1, <1>2 DEF Holds, Guarded, IInv, Shape
  <2> QED BY <1>1, <1>2, <2>1, SlotsKept
<1>6. ChargedExactly'
  <2>1. \A v \in Tenants, d \in Dirs : ~ Owes(s, d, v) /\ ~ Owes(s, d, v)'
    BY <1>1, <1>2 DEF Owes
  <2> QED BY <1>1, <1>2, <1>3, <2>1, ChargesKept
<1>7. Cut'
  <2>1. \A v \in Tenants, d \in Dirs :
          used[v] >= Quota[v] /\ Lives(s, d, v)' => Lives(s, d, v)
    <3>1. \A v \in Tenants : used[v] \in Nat /\ Quota[v] \in Nat
      BY GateAssumption DEF IInv, TypeOK
    <3> QED BY <1>1, <1>2, <3>1 DEF Lives, InQuota, Guarded
  <2> QED BY <1>1, <1>2, <2>1, CutKept
<1> QED BY <1>3, <1>4, <1>5, <1>6, <1>7 DEF IInv

(* The pumps start; what CONNECT forwards before them is in no counter the
   invariant speaks of. *)
LEMMA GateStartPumps ==
  ASSUME IInv, NEW s \in Sessions, StartPumps(s),
         UNCHANGED <<kind, usr, len, cancel, conns, used, delivered>>,
         leftover' \in [Tenants -> Nat]
  PROVE  IInv'
<1>1. /\ pc[s] = "dial" /\ pc' = [pc EXCEPT ![s] = "relay"]
      /\ dir' = [dir EXCEPT ![s] = [d \in Dirs |-> "read"]]
  BY DEF StartPumps, Goto
<1>2. Others(s) /\ pc'[s] = "relay" /\ dir'[s] = [d \in Dirs |-> "read"]
  BY <1>1 DEF Others, IInv, TypeOK
<1>3. TypeOK'
  <2>1. [d \in Dirs |-> "read"] \in [Dirs -> {"off", "read", "write", "charge", "done"}]
    OBVIOUS
  <2> QED BY <1>1, <2>1 DEF IInv, TypeOK, Guarded
<1>4. Shape'
  BY <1>1, <1>2, ShapeKept DEF IInv, Shape
<1>5. SlotsBalanced'
  <2>1. \A v \in Subs : Holds(s, v)' <=> Holds(s, v)
    BY <1>1, <1>2 DEF Holds, Guarded
  <2> QED BY <1>2, <2>1, SlotsKept
<1>6. ChargedExactly'
  <2>1. \A v \in Tenants, d \in Dirs : ~ Owes(s, d, v) /\ ~ Owes(s, d, v)'
    BY <1>1, <1>2 DEF Owes
  <2> QED BY <1>2, <1>3, <2>1, ChargesKept
<1>7. Cut'
  <2>1. \A d \in Dirs : dir[s][d] = "off"
    BY <1>1 DEF IInv, Shape, Idle
  <2>2. \A v \in Tenants, d \in Dirs : Lives(s, d, v)' => Lives(s, d, v)
    BY <1>1, <1>2, <2>1 DEF Lives, Guarded
  <2> QED BY <1>2, <2>2, CutKept
<1> QED BY <1>3, <1>4, <1>5, <1>6, <1>7 DEF IInv

-----------------------------------------------------------------------------
(* One direction moves: what the other direction and the other sessions see. *)
Modes == {"off", "read", "write", "charge", "done"}

LEMMA PumpFacts ==
  ASSUME TypeOK, NEW s \in Sessions, NEW d \in Dirs, NEW q \in Modes, NEW n \in Nat,
         pc' = pc, kind' = kind, usr' = usr, Step(s, d, q),
         len' = [len EXCEPT ![s][d] = n] \/ (len' = len /\ n = len[s][d])
  PROVE  /\ Others(s)
         /\ dir' \in [Sessions -> [Dirs -> Modes]]
         /\ len' \in [Sessions -> [Dirs -> Nat]]
         /\ dir'[s][d] = q /\ len'[s][d] = n
         /\ \A e \in Dirs : e # d => dir'[s][e] = dir[s][e] /\ len'[s][e] = len[s][e]
<1>1. dir \in [Sessions -> [Dirs -> Modes]] /\ len \in [Sessions -> [Dirs -> Nat]]
  BY DEF TypeOK, Modes
<1>2. dir' = [dir EXCEPT ![s] = [dir[s] EXCEPT ![d] = q]]
  BY <1>1 DEF Step
<1>3. dir[s] \in [Dirs -> Modes] /\ len[s] \in [Dirs -> Nat]
  BY <1>1
<1>4. [dir[s] EXCEPT ![d] = q] \in [Dirs -> Modes]
  BY <1>3
<1>5. dir' \in [Sessions -> [Dirs -> Modes]] /\ dir'[s] = [dir[s] EXCEPT ![d] = q]
      /\ \A t \in Sessions \ {s} : dir'[t] = dir[t]
  BY <1>1, <1>2, <1>4
<1>6. dir'[s][d] = q /\ \A e \in Dirs : e # d => dir'[s][e] = dir[s][e]
  BY <1>3, <1>5
<1>7. /\ len' \in [Sessions -> [Dirs -> Nat]] /\ len'[s][d] = n
      /\ \A e \in Dirs : e # d => len'[s][e] = len[s][e]
      /\ \A t \in Sessions \ {s} : len'[t] = len[t]
  <2>1. CASE len' = len /\ n = len[s][d]
    BY <1>1, <2>1
  <2>2. CASE len' = [len EXCEPT ![s][d] = n]
    <3>1. len' = [len EXCEPT ![s] = [len[s] EXCEPT ![d] = n]]
      BY <1>1, <2>2
    <3>2. [len[s] EXCEPT ![d] = n] \in [Dirs -> Nat]
      BY <1>3
    <3>3. len' \in [Sessions -> [Dirs -> Nat]] /\ len'[s] = [len[s] EXCEPT ![d] = n]
          /\ \A t \in Sessions \ {s} : len'[t] = len[t]
      BY <1>1, <3>1, <3>2
    <3> QED BY <1>3, <3>3
  <2> QED BY <2>1, <2>2
<1> QED BY <1>5, <1>6, <1>7 DEF Others

(* A direction reads, or stops for whatever reason, without a chunk that is
   delivered and not charged: a chunk in hand is dropped uncharged. *)
LEMMA GateQuiet ==
  ASSUME IInv, NEW s \in Sessions, NEW d \in Dirs, NEW q \in {"write", "done"},
         NEW n \in Nat, n <= MaxChunk,
         pc[s] = "relay", dir[s][d] \in {"read", "write"}, Step(s, d, q),
         len' = [len EXCEPT ![s][d] = n] \/ (len' = len /\ n = len[s][d]),
         UNCHANGED <<pc, kind, usr, conns, used, delivered, leftover>>,
         cancel' \in [Sessions -> BOOLEAN]
  PROVE  IInv'
<1>1. /\ Others(s)
      /\ dir' \in [Sessions -> [Dirs -> Modes]]
      /\ len' \in [Sessions -> [Dirs -> Nat]]
      /\ dir'[s][d] = q /\ len'[s][d] = n
      /\ \A e \in Dirs : e # d => dir'[s][e] = dir[s][e] /\ len'[s][e] = len[s][e]
  BY PumpFacts DEF IInv, Modes
<1>2. TypeOK'
  BY <1>1 DEF IInv, TypeOK, Modes
<1>3. Shape'
  <2>1. \A e \in Dirs : len'[s][e] <= MaxChunk
    BY <1>1 DEF IInv, Shape
  <2> QED BY <1>1, <2>1, ShapeKept DEF IInv, Shape
<1>4. SlotsBalanced'
  BY <1>1, SlotsKept DEF Holds
<1>5. ChargedExactly'
  <2>1. \A v \in Tenants, e \in Dirs :
          /\ Owes(s, e, v)' <=> Owes(s, e, v)
          /\ Owes(s, e, v) => len'[s][e] = len[s][e]
    BY <1>1 DEF Owes
  <2> QED BY <1>1, <1>2, <2>1, ChargesKept
<1>6. Cut'
  <2>1. \A v \in Tenants, e \in Dirs : Lives(s, e, v)' => Lives(s, e, v)
    BY <1>1 DEF Lives
  <2> QED BY <1>1, <2>1, CutKept
<1> QED BY <1>2, <1>3, <1>4, <1>5, <1>6 DEF IInv

(* A chunk is written to the other side: from here until its charge the
   direction owes it. *)
LEMMA GateDeliver ==
  ASSUME IInv, NEW s \in Sessions, NEW d \in Dirs, Deliver(s, d)
  PROVE  IInv'
<1>1. /\ pc[s] = "relay" /\ dir[s][d] = "write" /\ Step(s, d, "charge")
      /\ UNCHANGED <<pc, kind, usr, len, cancel, conns, used, leftover>>
  BY DEF Deliver, At
<1>2. len[s][d] \in Nat
  BY DEF IInv, TypeOK
<1>3. /\ Others(s)
      /\ dir' \in [Sessions -> [Dirs -> Modes]]
      /\ dir'[s][d] = "charge"
      /\ \A e \in Dirs : e # d => dir'[s][e] = dir[s][e]
  BY <1>1, <1>2, PumpFacts DEF IInv, Modes
<1>4. TypeOK'
  <2>1. delivered' \in [Tenants -> Nat]
    BY <1>2 DEF Deliver, IInv, TypeOK
  <2> QED BY <1>1, <1>3, <2>1 DEF IInv, TypeOK, Modes
<1>5. Shape'
  BY <1>1, <1>3, ShapeKept DEF IInv, Shape
<1>6. SlotsBalanced'
  BY <1>1, <1>3, SlotsKept DEF Holds
<1>7. ChargedExactly'
  <2> SUFFICES ASSUME NEW u \in Tenants
               PROVE  (used[u] + Uncharged(u) = delivered[u])'
    BY DEF ChargedExactly
  <2> DEFINE x == <<s, d>>
  <2>1. Owing(u) = {sd \in Pairs : Owes(sd[1], sd[2], u)}
        /\ Owing(u)' = {sd \in Pairs : Owes(sd[1], sd[2], u)'}
        /\ Uncharged(u) = Total(len, Owing(u)) /\ Uncharged(u)' = Total(len', Owing(u)')
    BY PairSets
  <2>2. x \in Pairs /\ x[1] = s /\ x[2] = d /\ x \notin Owing(u)
    BY <1>1, <2>1 DEF Pairs, Owes
  <2>3. \A y \in Pairs : y # x => (Owes(y[1], y[2], u)' <=> Owes(y[1], y[2], u))
    <3> SUFFICES ASSUME NEW t \in Sessions, NEW e \in Dirs, <<t, e>> # x
                 PROVE  Owes(t, e, u)' <=> Owes(t, e, u)
      BY DEF Pairs
    <3> QED BY <1>1, <1>3 DEF Others, Owes
  <2>4. Owes(s, d, u)' <=> usr[s] = u
    BY <1>1, <1>3 DEF Owes
  <2>5. len \in Lens /\ len' = len /\ used' = used
    BY <1>1 DEF IInv, TypeOK, Lens
  <2>6. used[u] \in Nat /\ delivered[u] \in Nat /\ used[u] + Uncharged(u) = delivered[u]
    BY DEF IInv, TypeOK, ChargedExactly
  <2>7. delivered'[u] = delivered[u] + IF usr[s] = u THEN len[s][d] ELSE 0
    BY DEF Deliver
  <2>8. CASE usr[s] # u
    <3>1. Owing(u)' = Owing(u)
      BY <2>1, <2>2, <2>3, <2>4, <2>8
    <3>2. delivered'[u] = delivered[u]
      BY <2>6, <2>7, <2>8
    <3>3. used'[u] = used[u] /\ Uncharged(u)' = Uncharged(u)
      BY <2>1, <2>5, <3>1
    <3> QED BY <2>6, <3>2, <3>3
  <2>9. CASE usr[s] = u
    <3>1. x \in Owing(u)' /\ Owing(u)' \ {x} = Owing(u) /\ Owing(u)' \subseteq Pairs
      BY <2>1, <2>2, <2>3, <2>4, <2>9
    <3>2. Total(len, Owing(u)') = LenAt(len, x) + Total(len, Owing(u))
      BY <2>5, <3>1, TotalFacts
    <3>3. LenAt(len, x) = len[s][d]
      BY <2>2 DEF LenAt
    <3>4. Total(len, Owing(u)) \in Nat
      BY <2>1, <2>5, TotalFacts
    <3> QED BY <1>2, <2>1, <2>5, <2>6, <2>7, <2>9, <3>2, <3>3, <3>4
  <2> QED BY <2>8, <2>9
<1>8. Cut'
  <2>1. \A v \in Tenants, e \in Dirs : Lives(s, e, v)' => Lives(s, e, v)
    BY <1>1, <1>3 DEF Lives
  <2> QED BY <1>1, <1>3, <2>1, CutKept
<1> QED BY <1>4, <1>5, <1>6, <1>7, <1>8 DEF IInv

(* fetch_add: the direction's debt becomes part of the user's count, and a
   direction that finds the quota used up is not live any more. *)
LEMMA GateCharge ==
  ASSUME IInv, NEW s \in Sessions, NEW d \in Dirs, Charge(s, d)
  PROVE  IInv'
<1> DEFINE total == IF usr[s] \in Tenants THEN used[usr[s]] + len[s][d] ELSE 0
<1> DEFINE q == IF Exhausted(s, total) THEN "done" ELSE "read"
<1>1. /\ pc[s] = "relay" /\ dir[s][d] = "charge" /\ Step(s, d, q)
      /\ used' = [u \in Tenants |-> IF usr[s] = u THEN total ELSE used[u]]
      /\ len' = [len EXCEPT ![s][d] = 0]
      /\ cancel' = [cancel EXCEPT ![s] = @ \/ Exhausted(s, total)]
      /\ UNCHANGED <<pc, kind, usr, conns, delivered, leftover>>
  BY DEF Charge, At
<1>2. len[s][d] \in Nat /\ len[s][d] <= MaxChunk /\ q \in Modes
  BY DEF IInv, TypeOK, Shape, Modes
<1>3. usr[s] \in Tenants => total = used[usr[s]] + len[s][d] /\ total \in Nat
  BY <1>2 DEF IInv, TypeOK
<1>4. q = IF usr[s] \in Tenants /\ total >= Quota[usr[s]] THEN "done" ELSE "read"
  BY DEF Exhausted
<1>5. cancel' \in [Sessions -> BOOLEAN]
  BY <1>1 DEF IInv, TypeOK, Exhausted
<1>6. used' \in [Tenants -> Nat]
  BY <1>1, <1>3 DEF IInv, TypeOK
<1> HIDE DEF total, q
<1>7. /\ Others(s)
      /\ dir' \in [Sessions -> [Dirs -> Modes]]
      /\ len' \in [Sessions -> [Dirs -> Nat]]
      /\ dir'[s][d] = q /\ len'[s][d] = 0
      /\ \A e \in Dirs : e # d => dir'[s][e] = dir[s][e] /\ len'[s][e] = len[s][e]
  BY <1>1, <1>2, PumpFacts DEF IInv
<1>8. TypeOK'
  BY <1>1, <1>5, <1>6, <1>7 DEF IInv, TypeOK, Modes
<1>9. Shape'
  <2>1. \A e \in Dirs : len'[s][e] <= MaxChunk
    BY <1>7, ChunkFacts DEF IInv, Shape
  <2> QED BY <1>1, <1>7, <2>1, ShapeKept DEF IInv, Shape
<1>10. SlotsBalanced'
  BY <1>1, <1>7, SlotsKept DEF Holds
<1>11. \A u \in Tenants : used'[u] = IF usr[s] = u THEN total ELSE used[u]
  BY <1>1
<1>12. \A u : Owing(u) = {sd \in Pairs : Owes(sd[1], sd[2], u)}
          /\ Owing(u)' = {sd \in Pairs : Owes(sd[1], sd[2], u)'}
          /\ Uncharged(u) = Total(len, Owing(u)) /\ Uncharged(u)' = Total(len', Owing(u)')
  BY PairSets
<1> DEFINE x == <<s, d>>
<1>13. x \in Pairs /\ x[1] = s /\ x[2] = d
  BY DEF Pairs
<1>14. len \in Lens /\ len' \in Lens
  BY <1>7 DEF IInv, TypeOK, Lens
<1>15. \A t \in Sessions, e \in Dirs : <<t, e>> # x =>
         /\ dir'[t][e] = dir[t][e] /\ len'[t][e] = len[t][e]
         /\ usr'[t] = usr[t] /\ pc'[t] = pc[t]
  BY <1>1, <1>7 DEF Others
<1>16. ChargedExactly'
  <2> SUFFICES ASSUME NEW u \in Tenants
               PROVE  (used[u] + Uncharged(u) = delivered[u])'
    BY DEF ChargedExactly
  <2>1. CASE usr[s] # u
    <3>1. \A e \in Dirs : ~ Owes(s, e, u)' /\ ~ Owes(s, e, u)
      BY <1>1, <2>1 DEF Owes
    <3>2. used'[u] = used[u] /\ delivered'[u] = delivered[u]
      BY <1>1, <1>11, <2>1
    <3> QED BY <1>7, <1>8, <3>1, <3>2, UserChargesKept
  <2>2. CASE usr[s] = u
    <3>1. x \in Owing(u)
      BY <1>1, <1>12, <1>13, <2>2 DEF Owes
    <3>2. Owing(u)' = Owing(u) \ {x}
      <4>1. ~ Owes(s, d, u)'
        BY <1>4, <1>7 DEF Owes
      <4>2. \A y \in Pairs : y # x => (Owes(y[1], y[2], u)' <=> Owes(y[1], y[2], u))
        BY <1>15 DEF Pairs, Owes
      <4> QED BY <1>12, <1>13, <4>1, <4>2
    <3>3. Owing(u) \subseteq Pairs
      BY <1>12
    <3>4. Total(len, Owing(u)) = len[s][d] + Total(len, Owing(u) \ {x})
      BY <1>13, <1>14, <3>1, <3>3, TotalFacts DEF LenAt
    <3>5. Total(len, Owing(u) \ {x}) = Total(len', Owing(u) \ {x})
      <4>1. \A y \in Owing(u) \ {x} : LenAt(len, y) = LenAt(len', y)
        BY <1>15, <3>3 DEF LenAt, Pairs
      <4> QED BY <1>14, <3>3, <4>1, TotalAgree
    <3>6. Total(len, Owing(u) \ {x}) \in Nat
      BY <1>14, <3>3, TotalFacts
    <3>7. used[u] \in Nat /\ used[u] + Uncharged(u) = delivered[u]
      BY DEF IInv, TypeOK, ChargedExactly
    <3>8. used'[u] = used[u] + len[s][d] /\ delivered'[u] = delivered[u]
      BY <1>1, <1>3, <1>11, <2>2
    <3>9. Uncharged(u) = len[s][d] + Uncharged(u)' /\ Uncharged(u)' \in Nat
      BY <1>12, <3>2, <3>4, <3>5, <3>6
    <3> QED BY <1>2, <3>7, <3>8, <3>9
  <2> QED BY <2>1, <2>2
<1>17. Cut'
  <2> SUFFICES ASSUME NEW u \in Tenants PROVE Bounded(u)'
    BY DEF Cut, Bounded
  <2>1. CASE usr[s] # u
    <3>1. \A e \in Dirs : ~ Lives(s, e, u)'
      BY <1>1, <2>1 DEF Lives
    <3> QED BY <1>7, <1>11, <2>1, <3>1, UserCutKept
  <2>2. CASE usr[s] = u /\ total < Quota[u]
    <3>1. Quota[u] \in Nat /\ total \in Nat /\ used'[u] = total
      BY <1>3, <1>11, <2>2, GateAssumption
    <3> QED BY <2>2, <3>1 DEF Bounded
  <2>3. CASE usr[s] = u /\ total >= Quota[u]
    <3> DEFINE L == Live(u)
    <3> DEFINE B == MaxChunk * 2 * Cardinality(Sessions)
    <3>1. dir'[s][d] = "done"
      BY <1>4, <1>7, <2>3
    <3>2. L = {sd \in Pairs : Lives(sd[1], sd[2], u)}
          /\ Live(u)' = {sd \in Pairs : Lives(sd[1], sd[2], u)'}
      BY PairSets
    <3>3. x \in L
      BY <1>1, <1>13, <2>3, <3>2 DEF Lives, Guarded
    <3>4. Live(u)' = L \ {x}
      <4>1. ~ Lives(s, d, u)'
        BY <3>1 DEF Lives
      <4>2. \A y \in Pairs : y # x => (Lives(y[1], y[2], u)' <=> Lives(y[1], y[2], u))
        BY <1>15 DEF Pairs, Lives
      <4> QED BY <1>13, <3>2, <4>1, <4>2
    <3>5. /\ IsFiniteSet(L) /\ Cardinality(L) \in Nat
          /\ Cardinality(L) <= 2 * Cardinality(Sessions)
      BY <3>2, PairsFinite, FS_Subset, FS_CardinalityType
    <3>6. Cardinality(Live(u)') = Cardinality(L) - 1 /\ Cardinality(Live(u)') \in Nat
      BY <3>3, <3>4, <3>5, FS_RemoveElement, FS_CardinalityType
    <3> HIDE DEF L
    <3>7. MaxChunk * Cardinality(Live(u)') + MaxChunk = MaxChunk * Cardinality(L)
      BY <3>5, <3>6, ChunkFacts
    <3>8. MaxChunk * Cardinality(L) <= B /\ B \in Nat
      BY <3>5, ChunkFacts, PairsFinite
    <3>9. MaxChunk * Cardinality(Live(u)') \in Nat /\ MaxChunk * Cardinality(L) \in Nat
      BY <3>5, <3>6, ChunkFacts
    <3>10. used[u] \in Nat /\ Quota[u] \in Nat /\ used'[u] = used[u] + len[s][d]
      BY <1>3, <1>11, <2>3, GateAssumption DEF IInv, TypeOK
    <3>11. used[u] >= Quota[u] => used[u] + MaxChunk * Cardinality(L) < Quota[u] + B
      BY DEF IInv, Cut, L
    <3> HIDE DEF B
    <3>12. used'[u] + MaxChunk * Cardinality(Live(u)') < Quota[u] + B
      BY <1>2, <3>7, <3>8, <3>9, <3>10, <3>11, ChunkFacts
    <3> QED BY <3>12 DEF Bounded, B
  <2>4. usr[s] = u => total \in Nat /\ Quota[u] \in Nat
    BY <1>3, GateAssumption
  <2> QED BY <2>1, <2>2, <2>3, <2>4
<1> QED BY <1>8, <1>9, <1>10, <1>16, <1>17 DEF IInv

-----------------------------------------------------------------------------
(* A process that has just started satisfies the invariant. *)
LEMMA GateInit == Init => IInv
<1> SUFFICES ASSUME Init PROVE IInv
  OBVIOUS
<1>1. TypeOK
  <2>1. Tunnel \in Users /\ Idle \in [Dirs -> {"off", "read", "write", "charge", "done"}]
        /\ [d \in Dirs |-> 0] \in [Dirs -> Nat]
    BY DEF Users, Idle
  <2> QED BY <2>1 DEF Init, TypeOK
<1>2. \A s \in Sessions : pc[s] = "free" /\ dir[s] = Idle /\ len[s] = [d \in Dirs |-> 0]
  BY DEF Init
<1>3. Shape
  <2>1. \A d \in Dirs : [e \in Dirs |-> 0][d] <= MaxChunk
    BY ChunkFacts
  <2> QED BY <1>2, <2>1 DEF Shape
<1>4. SlotsBalanced
  <2>1. \A u \in Subs : {s \in Sessions : Holds(s, u)} = {}
    BY <1>2 DEF Holds, Guarded
  <2>2. \A u \in Subs : conns[u] = 0
    BY DEF Init
  <2> QED BY <2>1, <2>2, FS_EmptySet DEF SlotsBalanced
<1>5. ChargedExactly
  <2> SUFFICES ASSUME NEW u \in Tenants PROVE used[u] + Uncharged(u) = delivered[u]
    BY DEF ChargedExactly
  <2>1. Owing(u) = {sd \in Pairs : Owes(sd[1], sd[2], u)} /\ Uncharged(u) = Total(len, Owing(u))
    BY PairSets
  <2>2. Owing(u) = {}
    BY <1>2, <2>1 DEF Owes, Pairs
  <2>3. len \in Lens
    BY <1>1 DEF TypeOK, Lens
  <2>4. Uncharged(u) = 0
    BY <2>1, <2>2, <2>3, TotalFacts
  <2>5. used[u] = 0 /\ delivered[u] = 0
    BY DEF Init
  <2> QED BY <2>4, <2>5
<1>6. Cut
  <2>1. \A u \in Tenants : used[u] = 0 /\ Quota[u] \in Nat \ {0}
    BY GateAssumption DEF Init
  <2> QED BY <2>1 DEF Cut
<1> QED BY <1>1, <1>3, <1>4, <1>5, <1>6 DEF IInv

(* Every step of every session keeps it. *)
LEMMA GateNext == IInv /\ [Next]_vars => IInv'
<1> SUFFICES ASSUME IInv, [Next]_vars PROVE IInv'
  OBVIOUS
<1>1. CASE UNCHANGED vars
  <2>1. UNCHANGED <<pc, kind, usr, dir, len, cancel, conns, used, delivered, leftover>>
    BY <1>1 DEF vars
  <2>2. \A u : Owing(u)' = Owing(u)
    BY <2>1 DEF Owing, At, Charging
  <2>3. \A u : Uncharged(u)' = Uncharged(u)
    BY <2>1, <2>2, PairSets
  <2>4. \A u : Live(u)' = Live(u)
    BY <2>1 DEF Live
  <2>5. \A u : {s \in Sessions : Holds(s, u)}' = {s \in Sessions : Holds(s, u)}
    BY <2>1 DEF Holds
  <2>6. ChargedExactly' /\ Cut' /\ SlotsBalanced'
    BY <2>1, <2>3, <2>4, <2>5 DEF IInv, ChargedExactly, Cut, SlotsBalanced
  <2> QED BY <2>1, <2>6 DEF IInv, TypeOK, Shape
<1>2. ASSUME NEW s \in Sessions, SessionStep(s) PROVE IInv'
  <2>1. CASE \E u \in Users : WsAdmit(s, u) \/ ConnectAdmit(s, u)
    BY <2>1, GateAccept DEF WsAdmit, ConnectAdmit
  <2>2. CASE UpgradeFails(s) \/ GiveUp(s)
    BY <2>2, GateEnd DEF UpgradeFails, GiveUp
  <2>3. CASE WsOpen(s)
    BY <2>3, GateWsOpen
  <2>4. CASE FirstFrame(s) \/ ConnectQuotaCheck(s)
    BY <2>4, GateToDial
  <2>5. CASE WsRelay(s)
    <3>1. UNCHANGED <<kind, usr, len, cancel, conns, used, delivered, leftover>>
      BY <2>5 DEF WsRelay, counters
    <3>2. leftover' \in [Tenants -> Nat]
      BY <3>1 DEF IInv, TypeOK
    <3> QED BY <2>5, <3>1, <3>2, GateStartPumps DEF WsRelay
  <2>6. ASSUME NEW n \in {0} \cup Chunks, ConnectRelay(s, n) PROVE IInv'
    <3>1. n \in Nat
      BY ChunkFacts
    <3>2. leftover' \in [Tenants -> Nat]
      BY <2>6, <3>1 DEF ConnectRelay, IInv, TypeOK
    <3> QED BY <2>6, <3>2, GateStartPumps DEF ConnectRelay
  <2>7. ASSUME NEW d \in Dirs, PumpStep(s, d) PROVE IInv'
    <3>1. len[s][d] \in Nat /\ len[s][d] <= MaxChunk
      BY DEF IInv, TypeOK, Shape
    <3>2. 0 <= MaxChunk
      BY ChunkFacts
    <3>3. ASSUME NEW n \in Chunks, Read(s, d, n) PROVE IInv'
      <4>1. n \in Nat /\ n <= MaxChunk
        BY ChunkFacts
      <4> QED BY <3>3, <4>1, GateQuiet DEF Read, At, counters, IInv, TypeOK
    <3>4. CASE Deliver(s, d)
      BY <3>4, GateDeliver
    <3>5. CASE Charge(s, d)
      BY <3>5, GateCharge
    <3>6. CASE SeeCancel(s, d) \/ Eof(s, d)
      <4>1. /\ pc[s] = "relay" /\ dir[s][d] = "read" /\ Step(s, d, "done")
            /\ UNCHANGED <<pc, kind, usr, len, cancel, conns, used, delivered, leftover>>
        BY <3>6 DEF SeeCancel, Eof, At, counters
      <4>2. cancel' \in [Sessions -> BOOLEAN]
        BY <4>1 DEF IInv, TypeOK
      <4> QED BY <3>1, <4>1, <4>2, GateQuiet
    <3>7. CASE Fail(s, d)
      <4>1. /\ pc[s] = "relay" /\ dir[s][d] \in {"read", "write"} /\ Step(s, d, "done")
            /\ len' = [len EXCEPT ![s][d] = 0]
            /\ UNCHANGED <<pc, kind, usr, conns, used, delivered, leftover>>
        BY <3>7 DEF Fail, At, counters
      <4>2. cancel' \in [Sessions -> BOOLEAN]
        BY <3>7 DEF Fail, IInv, TypeOK
      <4> QED BY <3>2, <4>1, <4>2, GateQuiet
    <3> QED BY <2>7, <3>3, <3>4, <3>5, <3>6, <3>7 DEF PumpStep
  <2>8. CASE Close(s) \/ LifetimeCap(s)
    <3>1. ~ Charging(s)
      BY <2>8 DEF Close, LifetimeCap, At, Charging
    <3> QED BY <2>8, <3>1, GateEnd DEF Close, LifetimeCap
  <2> QED BY <1>2, <2>1, <2>2, <2>3, <2>4, <2>5, <2>6, <2>7, <2>8 DEF SessionStep
<1> QED BY <1>1, <1>2 DEF Next

(* The invariant holds in every behaviour of the gateway. *)
LEMMA GateInvariant == Spec => []IInv
BY GateInit, GateNext, PTL DEF Spec

(* Every variable of the gateway keeps its type. *)
THEOREM GateTypeCorrect == Spec => []TypeOK
<1>1. IInv => TypeOK
  BY DEF IInv
<1> QED BY <1>1, GateInvariant, PTL

(* Connection slots balance: whatever the interleaving of sessions and
   whichever way each of them ends, a user's count is the number of its open
   WebSocket sessions (ConnGuard). *)
THEOREM SlotsAlwaysBalance == Spec => []SlotsBalanced
<1>1. IInv => SlotsBalanced
  BY DEF IInv
<1> QED BY <1>1, GateInvariant, PTL

(* A user's count is the bytes delivered for it, up to the chunks whose
   charge is the pump's next step (pump, Meter::charge). *)
THEOREM EveryByteCharged == Spec => []ChargedExactly
<1>1. IInv => ChargedExactly
  BY DEF IInv
<1> QED BY <1>1, GateInvariant, PTL

(* A quota is never overrun by more than one chunk for each direction the
   process may have open, however the sessions interleave. *)
THEOREM QuotaOverrunBounded == Spec => []OverrunBounded
<1>1. ASSUME IInv PROVE OverrunBounded
  <2> SUFFICES ASSUME NEW u \in Tenants
               PROVE  delivered[u] < Quota[u] + MaxChunk * 2 * Cardinality(Sessions)
    BY DEF OverrunBounded
  <2> DEFINE B == MaxChunk * 2 * Cardinality(Sessions)
  <2>1. used[u] \in Nat /\ Quota[u] \in Nat \ {0} /\ delivered[u] = used[u] + Uncharged(u)
    BY <1>1, GateAssumption DEF IInv, TypeOK, ChargedExactly
  <2>2. /\ Owing(u) = {sd \in Pairs : Owes(sd[1], sd[2], u)}
        /\ Live(u) = {sd \in Pairs : Lives(sd[1], sd[2], u)}
        /\ Uncharged(u) = Total(len, Owing(u))
    BY PairSets
  <2>3. Owing(u) \subseteq Live(u) /\ Live(u) \subseteq Pairs
    BY <2>2 DEF Owes, Lives, Guarded
  <2>4. /\ IsFiniteSet(Live(u)) /\ Cardinality(Live(u)) \in Nat
        /\ Cardinality(Live(u)) <= 2 * Cardinality(Sessions)
    BY <2>3, PairsFinite, FS_Subset, FS_CardinalityType
  <2>5. Cardinality(Owing(u)) \in Nat /\ Cardinality(Owing(u)) <= Cardinality(Live(u))
    BY <2>3, <2>4, FS_Subset, FS_CardinalityType
  <2>6. len \in Lens /\ \A y \in Pairs : LenAt(len, y) <= MaxChunk
    BY <1>1 DEF IInv, TypeOK, Lens, Shape, LenAt, Pairs
  <2>7. Uncharged(u) <= MaxChunk * Cardinality(Owing(u)) /\ Uncharged(u) \in Nat
    BY <2>2, <2>3, <2>6, TotalBound, TotalFacts, ChunkFacts
  <2>8. /\ MaxChunk * Cardinality(Owing(u)) <= MaxChunk * Cardinality(Live(u))
        /\ MaxChunk * Cardinality(Live(u)) <= B
        /\ MaxChunk * Cardinality(Owing(u)) \in Nat
        /\ MaxChunk * Cardinality(Live(u)) \in Nat /\ B \in Nat
    BY <2>4, <2>5, ChunkFacts, PairsFinite
  <2>9. used[u] >= Quota[u] => used[u] + MaxChunk * Cardinality(Live(u)) < Quota[u] + B
    BY <1>1 DEF IInv, Cut
  <2> HIDE DEF B
  <2>10. delivered[u] < Quota[u] + B
    BY <2>1, <2>7, <2>8, <2>9
  <2> QED BY <2>10 DEF B
<1> QED BY <1>1, GateInvariant, PTL

-----------------------------------------------------------------------------
(* The doors and the revocation list. *)

(* While the process runs, what a line of the file says is in the set, if the
   file could be read, and so is the identifier a running request is about to
   write. *)
ListInv ==
  /\ file \in Seq(Ids \cup {NL})
  /\ step \in [Handlers -> {"idle", "id", "newline", "answer"}]
  /\ target \in [Handlers -> Ids \cup {NoId}]
  /\ up /\ ~blind => Lines(file) \subseteq mem
  /\ \A h \in Handlers : step[h] # "idle" => up
  /\ \A h \in Handlers : step[h] = "id" => target[h] \in mem /\ target[h] \in Ids

(* A request has its seven fields. *)
Ask(at, door, creds, host, who, addr, sure) ==
  [at |-> at, door |-> door, creds |-> creds, host |-> host, who |-> who, addr |-> addr,
   sure |-> sure]
Formed(r) == r = Ask(r.at, r.door, r.creds, r.host, r.who, r.addr, r.sure)

(* A request is judged by a set that holds all that was revoked before it
   came. *)
DoorInv ==
  /\ DOMAIN ask = Clients
  /\ \A c \in Clients :
       /\ Formed(ask[c])
       /\ ask[c].at # "idle" => up /\ ask[c].sure \subseteq mem
       /\ ask[c].at = "sub" => JtiOf[Head(ask[c].creds)] \notin ask[c].sure
       /\ ask[c].at \in {"dial", "open"} /\ ask[c].door = "connect" => is_public_ip(ask[c].addr)
       /\ ask[c].at \in {"idle", "head", "creds", "sub"} => ask[c].who = Nobody
  /\ AdmittedSoundly

AInv == ListInv /\ DoorInv

(* One more write adds no line but the one it writes. *)
LEMMA LinesGrow ==
  ASSUME NEW f \in Seq(Ids \cup {NL}), NEW x \in Ids \cup {NL}
  PROVE  /\ f \o <<x>> \in Seq(Ids \cup {NL})
         /\ Lines(f \o <<x>>) \subseteq Lines(f) \cup ({x} \ {NL})
<1> DEFINE g == f \o <<x>>
<1>1. /\ g \in Seq(Ids \cup {NL}) /\ Len(f) \in Nat /\ Len(g) = Len(f) + 1
      /\ g[Len(f) + 1] = x /\ \A i \in 1 .. Len(f) : g[i] = f[i]
  OBVIOUS
<1>2. ASSUME NEW j \in 1 .. Len(g), g[j] # NL, j = 1 \/ g[j - 1] = NL,
             j = Len(g) \/ g[j + 1] = NL
      PROVE  g[j] \in Lines(f) \cup ({x} \ {NL})
  <2>1. CASE j = Len(g)
    BY <1>1, <1>2, <2>1
  <2>2. CASE j # Len(g)
    <3>1. j \in 1 .. Len(f) /\ f[j] = g[j] /\ (j = 1 \/ f[j - 1] = NL)
      BY <1>1, <1>2, <2>2
    <3>2. j = Len(f) \/ f[j + 1] = NL
      BY <1>1, <1>2, <2>2
    <3> QED BY <1>2, <3>1, <3>2 DEF Lines
  <2> QED BY <2>1, <2>2
<1> QED BY <1>1, <1>2 DEF Lines

(* A request with two fields replaced. *)
LEMMA AskFields ==
  ASSUME NEW r, Formed(r), NEW x, NEW y
  PROVE  /\ [r EXCEPT !.at = x] = Ask(x, r.door, r.creds, r.host, r.who, r.addr, r.sure)
         /\ [r EXCEPT !.at = x, !.creds = y] = Ask(x, r.door, y, r.host, r.who, r.addr, r.sure)
         /\ [r EXCEPT !.who = y, !.at = x] = Ask(x, r.door, r.creds, r.host, y, r.addr, r.sure)
         /\ [r EXCEPT !.at = x, !.addr = y] = Ask(x, r.door, r.creds, r.host, r.who, y, r.sure)
<1> DEFINE q == Ask(x, r.door, r.creds, r.host, r.who, r.addr, r.sure)
           w == Ask(r.at, r.door, r.creds, r.host, y, r.addr, r.sure)
<1>1. [r EXCEPT !.at = x] = q /\ [r EXCEPT !.who = y] = w
  BY DEF Formed, Ask
<1>2. /\ [q EXCEPT !.creds = y] = Ask(x, r.door, y, r.host, r.who, r.addr, r.sure)
      /\ [q EXCEPT !.addr = y] = Ask(x, r.door, r.creds, r.host, r.who, y, r.sure)
      /\ [w EXCEPT !.at = x] = Ask(x, r.door, r.creds, r.host, y, r.addr, r.sure)
  BY DEF Ask
<1>3. /\ [r EXCEPT !.at = x, !.creds = y] = [[r EXCEPT !.at = x] EXCEPT !.creds = y]
      /\ [r EXCEPT !.at = x, !.addr = y] = [[r EXCEPT !.at = x] EXCEPT !.addr = y]
      /\ [r EXCEPT !.who = y, !.at = x] = [[r EXCEPT !.who = y] EXCEPT !.at = x]
  OBVIOUS
<1> QED BY <1>1, <1>2, <1>3

(* The fields of a request that is given by its fields. *)
LEMMA AskShape ==
  ASSUME NEW at, NEW door, NEW creds, NEW host, NEW who, NEW addr, NEW sure
  PROVE  LET r == Ask(at, door, creds, host, who, addr, sure)
         IN  /\ Formed(r) /\ r.at = at /\ r.door = door /\ r.creds = creds /\ r.host = host
             /\ r.who = who /\ r.addr = addr /\ r.sure = sure
BY DEF Formed, Ask

(* A request as it comes in. *)
Filled(r, at, door, host, creds, sure) ==
  [r EXCEPT !.at = at, !.door = door, !.host = host, !.creds = creds, !.sure = sure]

LEMMA AskFilled ==
  ASSUME NEW r, Formed(r), NEW a, NEW d, NEW h, NEW cr, NEW z
  PROVE  Filled(r, a, d, h, cr, z) = Ask(a, d, cr, h, r.who, r.addr, z)
<1> DEFINE r1 == Ask(a, r.door, r.creds, r.host, r.who, r.addr, r.sure)
           r2 == Ask(a, d, r.creds, r.host, r.who, r.addr, r.sure)
           r3 == Ask(a, d, r.creds, h, r.who, r.addr, r.sure)
           r4 == Ask(a, d, cr, h, r.who, r.addr, r.sure)
<1>1. [r EXCEPT !.at = a] = r1
  BY AskFields
<1>2. /\ [r1 EXCEPT !.door = d] = r2 /\ [r2 EXCEPT !.host = h] = r3
      /\ [r3 EXCEPT !.creds = cr] = r4
      /\ [r4 EXCEPT !.sure = z] = Ask(a, d, cr, h, r.who, r.addr, z)
  BY DEF Ask
<1> HIDE DEF r1, r2, r3, r4
<1>3. Filled(r, a, d, h, cr, z) =
        [[[[[r EXCEPT !.at = a] EXCEPT !.door = d] EXCEPT !.host = h]
           EXCEPT !.creds = cr] EXCEPT !.sure = z]
  BY DEF Filled
<1> QED BY <1>1, <1>2, <1>3

(* A client that has asked nothing. *)
LEMMA NoRequestFacts ==
  /\ Formed(NoRequest) /\ NoRequest.at = "idle" /\ NoRequest.who = Nobody
  /\ NoRequest = Ask("idle", "none", <<>>, <<>>, Nobody, NoAddr, {})
BY DEF Formed, NoRequest, Ask

(* What was written whole is read at a start. *)
LEMMA WholeAreLines ==
  ASSUME file \in Seq(Ids \cup {NL})
  PROVE  WholeLines \subseteq Lines(file)
BY DEF WholeLines, Lines

(* An address that resolve_target returns is public, a literal in whatever
   spelling or the first of a lookup's. *)
LEMMA TargetFacts ==
  ASSUME NEW h, NEW a \in Answers, NEW r, r = resolve_target(h, a), r.form \notin {"denied", "none"}
  PROVE  is_public_ip(r)
<1> DEFINE lit == IF h.form = "v4" THEN parse_legacy_ipv4(h.v) ELSE h
<1> HIDE DEF lit
<1>1. CASE lit.form \in {"mapped", "v6"}
  BY <1>1 DEF resolve_target, Denied, lit
<1>2. CASE lit.form \notin {"mapped", "v6"}
  <2>1. r \in {Denied, NoAddr} \/ (a # <<>> /\ r = Ip4(a[1])
        /\ ~ \E i \in 1 .. Len(a) : ~IsPublic(a[i]))
    BY <1>2 DEF resolve_target, lit
  <2>2. CASE r \in {Denied, NoAddr}
    BY <2>2 DEF Denied, NoAddr
  <2>3. CASE a # <<>> /\ r = Ip4(a[1]) /\ ~ \E i \in 1 .. Len(a) : ~IsPublic(a[i])
    <3>1. 1 \in 1 .. Len(a)
      BY <2>3, AccessAssumption
    <3> QED BY <2>3, <3>1 DEF Ip4, is_public_ip
  <2> QED BY <2>1, <2>2, <2>3
<1> QED BY <1>1, <1>2
-----------------------------------------------------------------------------
(* The list: a start loads the lines, a request puts its identifier into the
   set before it writes. *)
LEMMA ListStep ==
  ASSUME ListInv, Load \/ Crash \/ (\E h \in Handlers : Revoke(h)) \/ UNCHANGED listVars
  PROVE  ListInv' /\ (up /\ up' => mem \subseteq mem')
<1>1. CASE Load
  BY <1>1 DEF ListInv, Load, Lines
<1>2. CASE Crash
  BY <1>2 DEF ListInv, Crash
<1>3. ASSUME NEW h \in Handlers, Revoke(h)
      PROVE  ListInv' /\ mem \subseteq mem' /\ up /\ up'
  <2>1. ASSUME NEW id \in Ids, Insert(h, id) PROVE ListInv' /\ mem \subseteq mem' /\ up /\ up'
    BY <2>1 DEF ListInv, Insert, Lines
  <2>2. ASSUME NEW x \in Ids \cup {NL}, NEW from \in {"id", "newline"},
               NEW to \in {"newline", "answer"},
               Emit(h, from, to, x), x # NL => x \in mem
        PROVE  ListInv' /\ mem \subseteq mem' /\ up /\ up'
    <3>1. file' \in Seq(Ids \cup {NL}) /\ Lines(file') \subseteq Lines(file) \cup ({x} \ {NL})
      BY <2>2, LinesGrow DEF ListInv, Emit
    <3> HIDE DEF Lines
    <3> QED BY <2>2, <3>1 DEF ListInv, Emit
  <2>3. CASE AppendId(h)
    <3>1. step[h] = "id"
      BY <2>3 DEF AppendId, Emit
    <3>2. target[h] \in Ids /\ target[h] \in mem
      BY <3>1 DEF ListInv
    <3> QED BY <2>2, <2>3, <3>2 DEF AppendId
  <2>4. CASE AppendNewline(h)
    BY <2>2, <2>4 DEF AppendNewline
  <2>5. CASE WriteFails(h) \/ Answer(h)
    BY <2>5 DEF ListInv, WriteFails, Answer, Lines
  <2> QED BY <1>3, <2>1, <2>3, <2>4, <2>5 DEF Revoke
<1>4. CASE UNCHANGED listVars
  BY <1>4 DEF ListInv, listVars, Lines, Load, Crash
<1> QED BY <1>1, <1>2, <1>3, <1>4

(* A step of one request leaves the list and the other requests alone. *)
LEMMA VisitStep ==
  ASSUME ListInv, DoorInv, NEW c \in Clients, Visit(c)
  PROVE  DoorInv' /\ UNCHANGED listVars
<1>1. ASSUME NEW r, Move(c, r), Formed(r),
             r.at # "idle" => up /\ r.sure \subseteq mem,
             r.at = "sub" => JtiOf[Head(r.creds)] \notin r.sure,
             r.at \in {"dial", "open"} /\ r.door = "connect" => is_public_ip(r.addr),
             r.at \in {"idle", "head", "creds", "sub"} => r.who = Nobody,
             r.who \in Tokens => {JtiOf[r.who], SubOf[r.who]} \cap r.sure = {}
      PROVE  DoorInv' /\ UNCHANGED listVars
  <2>1. ask' = [ask EXCEPT ![c] = r] /\ UNCHANGED <<mem, file, up, step, target, blind>>
    BY <1>1 DEF Move, listVars
  <2> QED BY <1>1, <2>1 DEF DoorInv, AdmittedSoundly, listVars, Formed
<1>2. Nobody \notin Tokens /\ Password \notin Tokens /\ Secret \notin Tokens
  BY AccessAssumption
<1>3. ASSUME Leave(c) PROVE DoorInv' /\ UNCHANGED listVars
  BY <1>1, <1>2, <1>3, NoRequestFacts DEF Leave
<1>4. /\ ask[c].at # "idle" => up /\ ask[c].sure \subseteq mem
      /\ ask[c].at = "sub" => JtiOf[Head(ask[c].creds)] \notin ask[c].sure
      /\ ask[c].at \in {"dial", "open"} /\ ask[c].door = "connect" => is_public_ip(ask[c].addr)
      /\ ask[c].at \in {"idle", "head", "creds", "sub"} => ask[c].who = Nobody
      /\ ask[c].who \in Tokens => {JtiOf[ask[c].who], SubOf[ask[c].who]} \cap ask[c].sure = {}
  BY DEF DoorInv, AdmittedSoundly
<1>5. ASSUME NEW r, ask[c] = r, NEW p, p \in {"creds", "sub", "open"}, Advance(c, p),
             r.at \in {"head", "creds", "sub", "dial"},
             p = "sub" => JtiOf[Head(r.creds)] \notin r.sure /\ r.who = Nobody,
             p = "creds" => r.who = Nobody,
             p = "open" => r.at = "dial"
      PROVE  DoorInv' /\ UNCHANGED listVars
  <2> DEFINE q == Ask(p, r.door, r.creds, r.host, r.who, r.addr, r.sure)
  <2>1. [r EXCEPT !.at = p] = q
    BY <1>5, AskFields DEF DoorInv
  <2>2. Move(c, q)
    BY <1>5, <2>1 DEF Advance
  <2>3. /\ Formed(q) /\ q.at = p /\ q.door = r.door /\ q.creds = r.creds /\ q.who = r.who
        /\ q.addr = r.addr /\ q.sure = r.sure
    BY AskShape
  <2> HIDE DEF q
  <2> QED BY <1>1, <1>4, <1>5, <2>2, <2>3
<1>6. ASSUME NEW r \in Requests, Arrive(c, r) PROVE DoorInv' /\ UNCHANGED listVars
  <2> DEFINE q == [NoRequest EXCEPT !.at = IF r.door = "connect" THEN "head" ELSE "creds",
                                    !.door = r.door, !.host = r.host, !.creds = Presented(r),
                                    !.sure = Known]
  <2>1. Move(c, q) /\ up
    BY <1>6 DEF Arrive
  <2>2. Known \subseteq mem
    BY <2>1, WholeAreLines DEF ListInv, Known
  <2>3. /\ q.at \in {"head", "creds"} /\ q.who = Nobody /\ q.sure = Known
        /\ Formed(q)
    <3> DEFINE a == IF r.door = "connect" THEN "head" ELSE "creds"
               m == Known
    <3>1. q = Filled(NoRequest, a, r.door, r.host, Presented(r), m)
      BY DEF Filled
    <3>2. a \in {"head", "creds"}
      OBVIOUS
    <3> HIDE DEF q, m, a
    <3>3. q = Ask(a, r.door, Presented(r), r.host, Nobody, NoRequest.addr, m)
      BY <3>1, AskFilled, NoRequestFacts
    <3>4. Formed(q) /\ q.at = a /\ q.who = Nobody /\ q.sure = m
      BY <3>3, AskShape
    <3> QED BY <3>2, <3>4 DEF m
  <2> HIDE DEF q
  <2> QED BY <1>1, <1>2, <2>1, <2>2, <2>3
<1>7. CASE HeadRead(c)
  BY <1>4, <1>5, <1>7 DEF HeadRead
<1>8. ASSUME NEW p, Admit(c, p), ask[c].at \in {"creds", "sub"},
             p \in Tokens => {JtiOf[p], SubOf[p]} \cap ask[c].sure = {}
      PROVE  DoorInv' /\ UNCHANGED listVars
  <2> DEFINE r == ask[c]
             stage == IF r.door = "connect" THEN "target" ELSE "open"
             q == Ask(stage, r.door, r.creds, r.host, p, r.addr, r.sure)
  <2>1. [r EXCEPT !.who = p, !.at = stage] = q
    BY AskFields DEF DoorInv
  <2>2. Move(c, q)
    BY <1>8, <2>1 DEF Admit
  <2>3. /\ Formed(q) /\ q.at = stage /\ q.door = r.door /\ q.who = p /\ q.addr = r.addr
        /\ q.sure = r.sure
    BY AskShape
  <2> HIDE DEF q
  <2> QED BY <1>1, <1>4, <1>8, <2>2, <2>3
<1>9. ASSUME NextCredential(c), ask[c].at \in {"creds", "sub"}
      PROVE  DoorInv' /\ UNCHANGED listVars
  <2> DEFINE r == ask[c]
             q == Ask("creds", r.door, Tail(r.creds), r.host, r.who, r.addr, r.sure)
  <2>1. [r EXCEPT !.at = "creds", !.creds = Tail(r.creds)] = q
    BY AskFields DEF DoorInv
  <2>2. CASE r.door = "connect"
    <3>1. Move(c, q)
      BY <1>9, <2>1, <2>2 DEF NextCredential
    <3>2. Formed(q) /\ q.at = "creds" /\ q.who = r.who /\ q.sure = r.sure
      BY AskShape
    <3> HIDE DEF q
    <3> QED BY <1>1, <1>2, <1>4, <1>9, <3>1, <3>2
  <2>3. CASE r.door # "connect"
    BY <1>3, <1>9, <2>3 DEF NextCredential
  <2> QED BY <2>2, <2>3
<1>10. CASE CheckCredential(c)
  <2> DEFINE r == ask[c]
             cred == Head(r.creds)
  <2>1. r.at = "creds" /\ r.sure \subseteq mem /\ r.who = Nobody
    BY <1>4, <1>10 DEF CheckCredential
  <2>2. \/ verify_token(r.door, cred) /\ ~Refused(JtiOf[cred]) /\ Advance(c, "sub")
        \/ Opens(r.door, cred) /\ Admit(c, cred)
        \/ NextCredential(c)
    BY <1>10 DEF CheckCredential
  <2>3. CASE verify_token(r.door, cred) /\ ~Refused(JtiOf[cred]) /\ Advance(c, "sub")
    BY <1>5, <2>1, <2>3 DEF Refused
  <2>4. CASE Opens(r.door, cred) /\ Admit(c, cred)
    <3>1. cred \notin Tokens
      BY <1>2, <2>4 DEF Opens
    <3> QED BY <1>8, <2>1, <2>4, <3>1
  <2>5. CASE NextCredential(c)
    BY <1>9, <2>1, <2>5
  <2> QED BY <2>2, <2>3, <2>4, <2>5
<1>11. CASE CheckSub(c)
  <2> DEFINE r == ask[c]
             cred == Head(r.creds)
  <2>1. r.at = "sub" /\ r.sure \subseteq mem /\ JtiOf[cred] \notin r.sure
    BY <1>4, <1>11 DEF CheckSub
  <2>2. CASE Refused(SubOf[cred])
    BY <1>9, <1>11, <2>1, <2>2 DEF CheckSub
  <2>3. CASE ~Refused(SubOf[cred])
    <3>1. Admit(c, cred) /\ SubOf[cred] \notin r.sure
      BY <1>11, <2>1, <2>3 DEF CheckSub, Refused
    <3>2. {JtiOf[cred], SubOf[cred]} \cap r.sure = {}
      BY <2>1, <3>1
    <3> QED BY <1>8, <2>1, <3>1, <3>2
  <2> QED BY <2>2, <2>3
<1>12. ASSUME NEW a \in Answers, Resolve(c, a) PROVE DoorInv' /\ UNCHANGED listVars
  <2> DEFINE r == ask[c]
             t == resolve_target(r.host, a)
             q == Ask("dial", r.door, r.creds, r.host, r.who, t, r.sure)
  <2> HIDE DEF t
  <2>1. Formed(r) /\ r.at = "target"
    BY <1>12 DEF DoorInv, Resolve
  <2>2. CASE t.form \in {"denied", "none"}
    BY <1>3, <1>12, <2>2 DEF Resolve, t
  <2>3. CASE t.form \notin {"denied", "none"}
    <3>1. is_public_ip(t)
      BY <2>3, TargetFacts DEF t
    <3>2. [r EXCEPT !.at = "dial", !.addr = t] = q
      BY <2>1, AskFields
    <3>3. Move(c, q)
      BY <1>12, <2>3, <3>2 DEF Resolve, t
    <3>4. Formed(q) /\ q.at = "dial" /\ q.who = r.who /\ q.addr = t /\ q.sure = r.sure
      BY AskShape
    <3> HIDE DEF q
    <3> QED BY <1>1, <1>4, <2>1, <3>1, <3>3, <3>4
  <2> QED BY <2>2, <2>3
<1>13. CASE Dial(c)
  BY <1>4, <1>5, <1>13 DEF Dial
<1>14. CASE \/ HeadFails(c) \/ NoCredential(c) \/ PortDenied(c) \/ DialFails(c)
            \/ ProfileSent(c) \/ SubscriptionSent(c) \/ Fetched(c) \/ TunnelEnds(c)
  BY <1>3, <1>14 DEF HeadFails, NoCredential, PortDenied, DialFails, ProfileSent,
                     SubscriptionSent, Fetched, TunnelEnds, Finish
<1> QED BY <1>6, <1>7, <1>10, <1>11, <1>12, <1>13, <1>14 DEF Visit

(* Every step keeps the list behind the set and the requests behind both. *)
LEMMA AccessStep == AInv /\ [AccessNext]_allVars => AInv'
<1> SUFFICES ASSUME AInv, [AccessNext]_allVars PROVE AInv'
  OBVIOUS
<1>1. CASE \E c \in Clients : Visit(c)
  BY <1>1, VisitStep, ListStep DEF AInv
<1>2. CASE Start
  <2>1. ListInv' /\ ~up /\ up' /\ UNCHANGED ask
    BY <1>2, ListStep DEF AInv, Start, Load
  <2>2. DoorInv'
    BY <2>1 DEF AInv, DoorInv, AdmittedSoundly, Formed
  <2> QED BY <2>1, <2>2 DEF AInv
<1>3. CASE Stop
  <2>1. ListInv' /\ ask' = [c \in Clients |-> NoRequest]
    BY <1>3, ListStep DEF AInv, Stop
  <2>2. Nobody \notin Tokens
    BY AccessAssumption
  <2>3. DoorInv'
    BY <2>1, <2>2, NoRequestFacts DEF DoorInv, AdmittedSoundly, Formed
  <2> QED BY <2>1, <2>3 DEF AInv
<1>4. CASE Revoking
  <2>1. ListInv' /\ (up /\ up' => mem \subseteq mem') /\ UNCHANGED ask
    BY <1>4, ListStep DEF AInv, Revoking, accessVars
  <2>2. up' = up
    BY <1>4 DEF Revoking, Revoke, Insert, AppendId, AppendNewline, Emit, WriteFails, Answer
  <2>3. DoorInv'
    BY <2>1, <2>2 DEF AInv, DoorInv, AdmittedSoundly, Formed
  <2> QED BY <2>1, <2>3 DEF AInv
<1>5. CASE UNCHANGED allVars
  <2>1. ListInv' /\ UNCHANGED <<ask, mem, up>>
    BY <1>5, ListStep DEF AInv, allVars, accessVars, listVars
  <2>2. DoorInv'
    BY <2>1 DEF AInv, DoorInv, AdmittedSoundly, Formed
  <2> QED BY <2>1, <2>2 DEF AInv
<1> QED BY <1>1, <1>2, <1>3, <1>4, <1>5 DEF AccessNext

(* At the start nothing was revoked and nobody has asked. *)
LEMMA AccessStart == AccessInit => AInv
<1> SUFFICES ASSUME AccessInit PROVE AInv
  OBVIOUS
<1>1. ListInv
  BY DEF AccessInit, ListInit, ListInv
<1>2. Nobody \notin Tokens
  BY AccessAssumption
<1>3. DoorInv
  BY <1>2, NoRequestFacts DEF AccessInit, DoorInv, AdmittedSoundly
<1> QED BY <1>1, <1>3 DEF AInv

(* No door lets in a token that was revoked before its request came, as far as
   the running set or a whole line of a readable file says so, across concurrent,
   failing and torn revocations and any number of restarts
   (principal_for_token, load_revoked_tokens); and CONNECT dials public
   addresses only (resolve_target). *)
THEOREM AlwaysAdmittedSoundly == AccessSpec => []AdmittedSoundly
<1>1. AInv => AdmittedSoundly
  BY DEF AInv, DoorInv
<1> QED BY <1>1, AccessStart, AccessStep, PTL DEF AccessSpec

-----------------------------------------------------------------------------
(* What the doors and the list hold, and that the file stays within its bound. *)

(* The requests that still have both of their writes to do, or the second. *)
Writing(f, s) == {h \in Handlers : f[h] = s}

(* The writes that are to come have their place in the file. *)
RoomKept ==
  Len(file) + 2 * Cardinality(Writing(step, "id")) + Cardinality(Writing(step, "newline")) <= MaxFile

(* A request that waits for its second lookup has shown a token. *)
RequestOK(r) ==
  /\ r.at \in {"idle", "head", "creds", "sub", "target", "dial", "open"}
  /\ r.who \in Tokens \cup {Password, Secret, Nobody}
  /\ r.sure \subseteq Ids
  /\ r.at = "sub" => Head(r.creds) \in Tokens

HeldTypes ==
  /\ mem \subseteq Ids /\ {up, blind} \subseteq BOOLEAN /\ keys \subseteq Settings
  /\ \A c \in Clients : RequestOK(ask[c])

TInv == AInv /\ RoomKept /\ HeldTypes

(* Sets of requests are finite. *)
LEMMA WritingFinite ==
  ASSUME NEW f, NEW s
  PROVE  IsFiniteSet(Writing(f, s)) /\ Cardinality(Writing(f, s)) \in Nat
<1>1. Writing(f, s) \subseteq Handlers
  BY DEF Writing
<1> QED BY <1>1, FS_Subset, FS_CardinalityType, ListAssumption

(* One request goes from one phase to another. *)
Moved(f, g, h, to) == g = [f EXCEPT ![h] = to]

(* A request that ends a phase leaves one fewer in it, and one that begins a
   phase one more. *)
LEMMA WritingMoves ==
  ASSUME NEW f \in [Handlers -> {"idle", "id", "newline", "answer"}],
         NEW h \in Handlers, NEW to, NEW g, Moved(f, g, h, to), NEW s
  PROVE  /\ to # s /\ f[h] = s => Cardinality(Writing(g, s)) = Cardinality(Writing(f, s)) - 1
         /\ to = s /\ f[h] # s => Cardinality(Writing(g, s)) = Cardinality(Writing(f, s)) + 1
         /\ to # s /\ f[h] # s => Cardinality(Writing(g, s)) = Cardinality(Writing(f, s))
<1>1. ASSUME to # s, f[h] = s
      PROVE  Cardinality(Writing(g, s)) = Cardinality(Writing(f, s)) - 1
  <2>1. Writing(g, s) = Writing(f, s) \ {h} /\ h \in Writing(f, s)
    BY <1>1 DEF Writing, Moved
  <2> QED BY <2>1, FS_RemoveElement, WritingFinite
<1>2. ASSUME to = s, f[h] # s
      PROVE  Cardinality(Writing(g, s)) = Cardinality(Writing(f, s)) + 1
  <2>1. Writing(g, s) = Writing(f, s) \cup {h} /\ h \notin Writing(f, s)
    BY <1>2 DEF Writing, Moved
  <2> QED BY <2>1, FS_AddElement, WritingFinite
<1>3. ASSUME to # s, f[h] # s
      PROVE  Cardinality(Writing(g, s)) = Cardinality(Writing(f, s))
  <2>1. Writing(g, s) = Writing(f, s)
    BY <1>3 DEF Writing, Moved
  <2> QED BY <2>1
<1> QED BY <1>1, <1>2, <1>3

(* The list's steps keep the file's bound: a request begins only where there
   is room for its two writes beside those of the others. *)
LEMMA RoomStep ==
  ASSUME ListInv, RoomKept,
         Load \/ Crash \/ (\E h \in Handlers : Revoke(h)) \/ UNCHANGED listVars
  PROVE  RoomKept'
<1> DEFINE n == Cardinality(Writing(step, "id"))
           k == Cardinality(Writing(step, "newline"))
<1>0. step \in [Handlers -> {"idle", "id", "newline", "answer"}]
  BY DEF ListInv
<1>1. /\ n \in Nat /\ k \in Nat /\ n' \in Nat /\ k' \in Nat /\ MaxFile \in Nat
      /\ Len(file) \in Nat /\ Len(file) + 2 * n + k <= MaxFile
  BY WritingFinite, ListAssumption DEF ListInv, RoomKept
<1>2. RoomKept' <=> Len(file)' + 2 * n' + k' <= MaxFile
  BY DEF RoomKept
<1> HIDE DEF n, k
<1>3. CASE Load \/ UNCHANGED listVars
  <2>1. UNCHANGED <<file, step>>
    BY <1>3 DEF Load, listVars
  <2>2. n' = n /\ k' = k /\ Len(file)' = Len(file)
    BY <2>1 DEF n, k, Writing
  <2> QED BY <1>1, <1>2, <2>2
<1>4. CASE Crash
  <2>1. file' = file /\ Writing(step', "id") = {} /\ Writing(step', "newline") = {}
    BY <1>4 DEF Crash, Writing
  <2>2. n' = 0 /\ k' = 0 /\ Len(file)' = Len(file)
    BY <2>1, FS_EmptySet DEF n, k
  <2> QED BY <1>1, <1>2, <2>2
<1>5. ASSUME NEW h \in Handlers, Revoke(h) PROVE RoomKept'
  <2>1. ASSUME NEW id \in Ids, Insert(h, id) PROVE RoomKept'
    <3> DEFINE busy == {g \in Handlers : step[g] # "idle"}
    <3>1. /\ step[h] = "idle" /\ Moved(step, step', h, "id") /\ file' = file
          /\ Len(file) + 2 * Cardinality(busy) + 2 <= MaxFile
      BY <2>1 DEF Insert, Room, Moved
    <3>2. n' = n + 1 /\ k' = k
      BY <1>0, <3>1, WritingMoves DEF n, k
    <3>3. IsFiniteSet(busy) /\ Cardinality(busy) \in Nat
      BY FS_Subset, FS_CardinalityType, ListAssumption
    <3>4. /\ Writing(step, "id") \cup Writing(step, "newline") \subseteq busy
          /\ Writing(step, "id") \cap Writing(step, "newline") = {}
      BY DEF Writing
    <3>5. Cardinality(Writing(step, "id") \cup Writing(step, "newline")) = n + k - 0
      BY <3>4, FS_Union, FS_EmptySet, WritingFinite DEF n, k
    <3>6. n + k <= Cardinality(busy)
      BY <1>1, <3>3, <3>4, <3>5, FS_Subset
    <3> HIDE DEF busy
    <3> QED BY <1>1, <1>2, <3>1, <3>2, <3>3, <3>6
  <2>2. CASE AppendId(h)
    <3>1. step[h] = "id" /\ Moved(step, step', h, "newline") /\ file' = file \o <<target[h]>>
      BY <2>2 DEF AppendId, Emit, Moved
    <3>2. n' = n - 1 /\ k' = k + 1
      BY <1>0, <3>1, WritingMoves DEF n, k
    <3>3. Len(file)' = Len(file) + 1
      BY <3>1, LinesGrow DEF ListInv
    <3> QED BY <1>1, <1>2, <3>2, <3>3
  <2>3. CASE AppendNewline(h)
    <3>1. step[h] = "newline" /\ Moved(step, step', h, "answer") /\ file' = file \o <<NL>>
      BY <2>3 DEF AppendNewline, Emit, Moved
    <3>2. n' = n /\ k' = k - 1
      BY <1>0, <3>1, WritingMoves DEF n, k
    <3>3. Len(file)' = Len(file) + 1
      BY <3>1 DEF ListInv
    <3> QED BY <1>1, <1>2, <3>2, <3>3
  <2>4. CASE WriteFails(h)
    <3>1. /\ step[h] \in {"id", "newline"} /\ Moved(step, step', h, "answer")
          /\ file' = file
      BY <2>4 DEF WriteFails, Moved
    <3>2. n' \in {n - 1, n} /\ k' \in {k - 1, k}
      BY <1>0, <3>1, WritingMoves DEF n, k
    <3> QED BY <1>1, <1>2, <3>1, <3>2
  <2>5. CASE Answer(h)
    <3>1. step[h] = "answer" /\ Moved(step, step', h, "idle") /\ file' = file
      BY <2>5 DEF Answer, Moved
    <3>2. n' = n /\ k' = k
      BY <1>0, <3>1, WritingMoves DEF n, k
    <3> QED BY <1>1, <1>2, <3>1, <3>2
  <2> QED BY <1>5, <2>1, <2>2, <2>3, <2>4, <2>5 DEF Revoke
<1> QED BY <1>3, <1>4, <1>5

(* What a line says is an identifier. *)
LEMMA LinesAreIds ==
  ASSUME file \in Seq(Ids \cup {NL})
  PROVE  Lines(file) \subseteq Ids
BY DEF Lines

(* The list's steps put identifiers only into the set. *)
LEMMA MemStep ==
  ASSUME ListInv, HeldTypes,
         Load \/ Crash \/ (\E h \in Handlers : Revoke(h)) \/ UNCHANGED listVars
  PROVE  mem' \subseteq Ids /\ {up', blind'} \subseteq BOOLEAN
<1>1. mem \subseteq Ids /\ {up, blind} \subseteq BOOLEAN /\ Lines(file) \subseteq Ids
  BY LinesAreIds DEF HeldTypes, ListInv
<1> HIDE DEF Lines
<1> QED BY <1>1 DEF Load, Crash, Revoke, Insert, AppendId, AppendNewline, Emit, WriteFails,
                    Answer, listVars

(* A request's step keeps what a request holds. *)
LEMMA VisitTypes ==
  ASSUME AInv, HeldTypes, NEW c \in Clients, Visit(c)
  PROVE  HeldTypes'
<1>1. ASSUME NEW r, Move(c, r), RequestOK(r) PROVE HeldTypes'
  <2>1. ask' = [ask EXCEPT ![c] = r] /\ UNCHANGED <<mem, up, blind, keys>> /\ DOMAIN ask = Clients
    BY <1>1 DEF Move, listVars, AInv, DoorInv
  <2>2. \A d \in Clients : ask'[d] = r \/ ask'[d] = ask[d]
    BY <2>1
  <2>3. \A d \in Clients : RequestOK(ask'[d])
    BY <1>1, <2>2 DEF HeldTypes
  <2> QED BY <2>1, <2>3 DEF HeldTypes
<1> DEFINE r == ask[c]
<1>2. RequestOK(r) /\ Formed(r) /\ mem \subseteq Ids
  BY DEF HeldTypes, AInv, DoorInv
<1>3. ASSUME Leave(c) PROVE HeldTypes'
  <2>1. RequestOK(NoRequest)
    BY DEF RequestOK, NoRequest
  <2> QED BY <1>1, <1>3, <2>1 DEF Leave
<1>4. ASSUME NEW p \in {"creds", "sub", "open"}, Advance(c, p),
             p = "sub" => Head(r.creds) \in Tokens
      PROVE  HeldTypes'
  <2> DEFINE q == Ask(p, r.door, r.creds, r.host, r.who, r.addr, r.sure)
  <2>1. Move(c, q)
    BY <1>2, <1>4, AskFields DEF Advance
  <2>2. q.at = p /\ q.creds = r.creds /\ q.who = r.who /\ q.sure = r.sure
    BY AskShape
  <2> HIDE DEF q
  <2>3. RequestOK(q)
    BY <1>2, <1>4, <2>2 DEF RequestOK
  <2> QED BY <1>1, <2>1, <2>3
<1>5. ASSUME NEW x \in Requests, Arrive(c, x) PROVE HeldTypes'
  <2> DEFINE a == IF x.door = "connect" THEN "head" ELSE "creds"
             m == Known
             q == Ask(a, x.door, Presented(x), x.host, Nobody, NoRequest.addr, m)
  <2>1. Move(c, Filled(NoRequest, a, x.door, x.host, Presented(x), m))
    BY <1>5 DEF Arrive, Filled
  <2>2. a \in {"head", "creds"} /\ m \subseteq Ids
    BY <1>2, WholeAreLines, LinesAreIds DEF AInv, ListInv, Known
  <2> HIDE DEF a, m
  <2>3. Move(c, q)
    BY <2>1, AskFilled, NoRequestFacts
  <2>4. q.at = a /\ q.who = Nobody /\ q.sure = m
    BY AskShape
  <2> HIDE DEF q
  <2>5. RequestOK(q)
    BY <2>2, <2>4 DEF RequestOK
  <2> QED BY <1>1, <2>3, <2>5
<1>6. ASSUME NEW p \in Tokens \cup {Password, Secret}, Admit(c, p) PROVE HeldTypes'
  <2> DEFINE stage == IF r.door = "connect" THEN "target" ELSE "open"
             q == Ask(stage, r.door, r.creds, r.host, p, r.addr, r.sure)
  <2>0. [r EXCEPT !.who = p, !.at = stage] = q
    BY <1>2, AskFields
  <2>1. Move(c, q)
    BY <1>6, <2>0 DEF Admit
  <2>2. q.at = stage /\ q.who = p /\ q.sure = r.sure
    BY AskShape
  <2> HIDE DEF q
  <2>3. RequestOK(q)
    BY <1>2, <1>6, <2>2 DEF RequestOK
  <2> QED BY <1>1, <2>1, <2>3
<1>7. ASSUME NextCredential(c) PROVE HeldTypes'
  <2> DEFINE rest == Tail(r.creds)
             q == Ask("creds", r.door, rest, r.host, r.who, r.addr, r.sure)
  <2> HIDE DEF rest
  <2>0. [r EXCEPT !.at = "creds", !.creds = rest] = q
    BY <1>2, AskFields
  <2>1. CASE r.door = "connect"
    <3>1. Move(c, q)
      BY <1>7, <2>0, <2>1 DEF NextCredential, rest
    <3>2. q.at = "creds" /\ q.who = r.who /\ q.sure = r.sure
      BY AskShape
    <3> HIDE DEF q
    <3>3. RequestOK(q)
      BY <1>2, <3>2 DEF RequestOK
    <3> QED BY <1>1, <3>1, <3>3
  <2>2. CASE r.door # "connect"
    BY <1>3, <1>7, <2>2 DEF NextCredential
  <2> QED BY <2>1, <2>2
<1>8. CASE CheckCredential(c)
  <2> DEFINE cred == Head(r.creds)
  <2>1. \/ verify_token(r.door, cred) /\ Advance(c, "sub")
        \/ Opens(r.door, cred) /\ Admit(c, cred)
        \/ NextCredential(c)
    BY <1>8 DEF CheckCredential
  <2>2. CASE verify_token(r.door, cred) /\ Advance(c, "sub")
    BY <1>4, <2>2 DEF verify_token
  <2>3. CASE Opens(r.door, cred) /\ Admit(c, cred)
    <3>1. cred \in {Password, Secret}
      BY <2>3 DEF Opens
    <3> QED BY <1>6, <2>3, <3>1
  <2> QED BY <1>7, <2>1, <2>2, <2>3
<1>9. CASE CheckSub(c)
  <2>1. Head(r.creds) \in Tokens
    BY <1>2, <1>9 DEF CheckSub, RequestOK
  <2>2. NextCredential(c) \/ Admit(c, Head(r.creds))
    BY <1>9 DEF CheckSub
  <2> QED BY <1>6, <1>7, <2>1, <2>2
<1>10. ASSUME NEW a \in Answers, Resolve(c, a) PROVE HeldTypes'
  <2> DEFINE t == resolve_target(r.host, a)
             q == Ask("dial", r.door, r.creds, r.host, r.who, t, r.sure)
  <2> HIDE DEF t
  <2>1. CASE t.form \in {"denied", "none"}
    BY <1>3, <1>10, <2>1 DEF Resolve, t
  <2>2. CASE t.form \notin {"denied", "none"}
    <3>1. [r EXCEPT !.at = "dial", !.addr = t] = q
      BY <1>2, AskFields
    <3>2. Move(c, q)
      BY <1>10, <2>2, <3>1 DEF Resolve, t
    <3>3. q.at = "dial" /\ q.who = r.who /\ q.sure = r.sure
      BY AskShape
    <3> HIDE DEF q
    <3>4. RequestOK(q)
      BY <1>2, <3>3 DEF RequestOK
    <3> QED BY <1>1, <3>2, <3>4
  <2> QED BY <2>1, <2>2
<1>11. CASE HeadRead(c) \/ Dial(c)
  BY <1>4, <1>11 DEF HeadRead, Dial
<1>12. CASE \/ HeadFails(c) \/ NoCredential(c) \/ PortDenied(c) \/ DialFails(c)
            \/ ProfileSent(c) \/ SubscriptionSent(c) \/ Fetched(c) \/ TunnelEnds(c)
  BY <1>3, <1>12 DEF HeadFails, NoCredential, PortDenied, DialFails, ProfileSent,
                     SubscriptionSent, Fetched, TunnelEnds, Finish
<1> QED BY <1>5, <1>8, <1>9, <1>10, <1>11, <1>12 DEF Visit

(* Every step keeps the room and what the doors hold. *)
LEMMA HeldStep == TInv /\ [AccessNext]_allVars => TInv'
<1> SUFFICES ASSUME TInv, [AccessNext]_allVars PROVE TInv'
  OBVIOUS
<1>1. AInv' /\ AInv /\ ListInv /\ RoomKept /\ HeldTypes
  BY AccessStep DEF TInv, AInv
<1>2. Load \/ Crash \/ (\E h \in Handlers : Revoke(h)) \/ UNCHANGED listVars
  BY <1>1, VisitStep DEF AccessNext, Start, Stop, Revoking, allVars, AInv
<1>3. RoomKept' /\ mem' \subseteq Ids /\ {up', blind'} \subseteq BOOLEAN
  BY <1>1, <1>2, RoomStep, MemStep
<1>4. CASE \E c \in Clients : Visit(c)
  BY <1>1, <1>3, <1>4, VisitTypes DEF TInv
<1>5. CASE Start \/ Revoking \/ UNCHANGED allVars
  <2>1. keys' \subseteq Settings /\ ask' = ask
    BY <1>1, <1>5, AccessAssumption DEF Start, Revoking, allVars, accessVars, HeldTypes
  <2>2. HeldTypes'
    BY <1>1, <1>3, <2>1 DEF HeldTypes
  <2> QED BY <1>1, <1>3, <2>2 DEF TInv
<1>6. CASE Stop
  <2>1. RequestOK(NoRequest)
    BY DEF RequestOK, NoRequest
  <2>2. keys' = {} /\ \A c \in Clients : ask'[c] = NoRequest
    BY <1>6 DEF Stop
  <2>3. \A c \in Clients : RequestOK(ask'[c])
    BY <2>1, <2>2
  <2>4. HeldTypes'
    BY <1>3, <2>2, <2>3 DEF HeldTypes
  <2> QED BY <1>1, <1>3, <2>4 DEF TInv
<1> QED BY <1>4, <1>5, <1>6 DEF AccessNext

(* The set holds identifiers only, the file keeps its bound while requests run
   side by side (handle_revoke), and whoever is let in is a token, the tunnel
   password or the fetch secret (authenticate, principal_for_token). *)
THEOREM AccessTypeCorrect == AccessSpec => []AccessTypeOK
<1>1. AccessInit => TInv
  <2> SUFFICES ASSUME AccessInit PROVE TInv
    OBVIOUS
  <2>1. AInv
    BY AccessStart
  <2>2. Writing(step, "id") = {} /\ Writing(step, "newline") = {} /\ Len(file) = 0 /\ MaxFile \in Nat
    BY ListAssumption DEF Writing, AccessInit, ListInit
  <2>3. Cardinality(Writing(step, "id")) = 0 /\ Cardinality(Writing(step, "newline")) = 0
    BY <2>2, FS_EmptySet
  <2>6. RoomKept
    BY <2>2, <2>3 DEF RoomKept
  <2>4. RequestOK(NoRequest)
    BY DEF RequestOK, NoRequest
  <2>5. HeldTypes
    BY <2>4 DEF HeldTypes, AccessInit, ListInit
  <2> QED BY <2>1, <2>5, <2>6 DEF TInv
<1>2. TInv => AccessTypeOK
  <2> SUFFICES ASSUME TInv PROVE AccessTypeOK
    OBVIOUS
  <2>1. Len(file) <= MaxFile
    BY WritingFinite, ListAssumption DEF TInv, AInv, ListInv, RoomKept
  <2>2. ListTypeOK
    BY <2>1 DEF ListTypeOK, TInv, AInv, ListInv, HeldTypes
  <2> QED BY <2>2 DEF TInv, AccessTypeOK, HeldTypes, RequestOK
<1> QED BY <1>1, <1>2, HeldStep, PTL DEF AccessSpec
=============================================================================
