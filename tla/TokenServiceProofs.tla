------------------------- MODULE TokenServiceProofs -------------------------
(***************************************************************************)
(* Proofs about TokenService, for every number of workers, every set of    *)
(* names and rows, with failing store calls and crashes.                   *)
(***************************************************************************)
EXTENDS TokenService, TLAPS

USE DEF NoId

(* A row insert_token writes has the type of a row. *)
LEMMA NewRowType ==
  ASSUME now \in Nat, NEW n \in AllNames, NEW d \in Lifetimes \cup {None}
  PROVE  /\ NewRow(n, d) \in Row
         /\ NewRow(n, d) # NoRow
         /\ NewRow(n, d).name = n
         /\ NewRow(n, d).state = "active"
         /\ d = None => NewRow(n, d).exp = None
<1> DEFINE e == IF d = None THEN None ELSE now + d
<1>1. e \in Nat \cup {None}
  BY ConstantsAssumption DEF ConstantsAssumption
<1>2. NewRow(n, d) = [name |-> n, exp |-> e, state |-> "active"]
  BY DEF NewRow
<1> HIDE DEF e
<1>3. NewRow(n, d) \in Row
  BY <1>1, <1>2 DEF Row
<1>4. /\ NewRow(n, d).name = n
      /\ NewRow(n, d).state = "active"
      /\ NewRow(n, d).exp = e
  BY <1>2
<1>5. NewRow(n, d) # NoRow
  BY <1>3, ConstantsAssumption DEF ConstantsAssumption
<1>6. d = None => e = None
  BY DEF e
<1> QED BY <1>3, <1>4, <1>5, <1>6

(* Setting revoked_at leaves a row a row. *)
LEMMA RevokedRowType ==
  ASSUME NEW t \in Table, NEW id \in Ids, t[id] # NoRow
  PROVE  [t EXCEPT ![id].state = "revoked"] \in Table
  BY DEF Table, Row

(* The shape of every variable, for every step of the specification. *)
LEMMA TypeInductive ==
  ASSUME TypeOK, CallInv, [Next]_vars
  PROVE  TypeOK'
<1> USE DEF TypeOK
<1>0. Empty \in Table
  BY DEF Empty, Table
<1>1. CASE Boot
  <2>1. None \in Lifetimes \cup {None} /\ Admin \in AllNames
    BY DEF AllNames
  <2>2. db' \in Table
    <3>1. CASE LiveName(db, Admin)
      BY <1>1, <3>1 DEF Boot, bootstrap_admin
    <3>2. CASE ~LiveName(db, Admin)
      <4>1. PICK id \in Ids : db' = [db EXCEPT ![id] = NewRow(Admin, None)]
        BY <1>1, <3>2 DEF Boot, bootstrap_admin
      <4>2. NewRow(Admin, None) \in Row
        BY <2>1, NewRowType
      <4> QED BY <4>1, <4>2 DEF Table
    <3> QED BY <3>1, <3>2
  <2> QED BY <1>1, <2>2 DEF Boot
<1>2. CASE Crash
  BY <1>0, <1>2 DEF Crash, Results
<1>3. CASE Tick
  BY <1>3 DEF Tick
<1>4. ASSUME NEW w \in Workers, CallStart(w)
      PROVE  TypeOK'
  <2>1. ASSUME NEW n \in AllNames, CreateInvalid(w, n) \/ CreateDuplicate(w, n)
        PROVE  TypeOK'
    BY <1>0, <2>1 DEF CreateInvalid, CreateDuplicate, Return, Results
  <2>2. ASSUME NEW n \in AllNames, NEW d \in Lifetimes, CreateInsert(w, n, d)
        PROVE  TypeOK'
    <3>1. PICK id \in Ids : /\ db' = [db EXCEPT ![id] = NewRow(n, d)]
                            /\ Written(w, "created", id)
      BY <2>2 DEF CreateInsert
    <3>2. NewRow(n, d) \in Row
      BY NewRowType
    <3>3. db' \in Table
      BY <3>1, <3>2 DEF Table
    <3> QED BY <2>2, <3>1, <3>3 DEF CreateInsert, Written
  <2>3. ASSUME NEW id \in Ids, RevokeRefuse(w, id)
        PROVE  TypeOK'
    BY <1>0, <2>3 DEF RevokeRefuse, Return, Results
  <2>4. ASSUME NEW id \in Ids, RevokeAccept(w, id)
        PROVE  TypeOK'
    BY <2>4 DEF RevokeAccept
  <2> QED BY <1>4, <2>1, <2>2, <2>3, <2>4 DEF CallStart
<1>5. ASSUME NEW w \in Workers, CallStep(w)
      PROVE  TypeOK'
  <2>1. CASE RevokeWrite(w)
    <3>1. target[w] \in Ids /\ db[target[w]] # NoRow
      BY <2>1 DEF RevokeWrite, CallInv
    <3>2. db' \in Table
      BY <2>1, <3>1, RevokedRowType DEF RevokeWrite
    <3> QED BY <2>1, <3>1, <3>2 DEF RevokeWrite, Written
  <2>2. CASE RevokeAlready(w)
    BY <1>0, <2>2 DEF RevokeAlready, Return, Results, CallInv
  <2>3. CASE ReloadList(w)
    BY <2>3 DEF ReloadList
  <2>4. CASE ReloadInstall(w)
    BY <1>0, <2>4 DEF ReloadInstall, Return, Results, CallInv
  <2> QED BY <1>5, <2>1, <2>2, <2>3, <2>4 DEF CallStep
<1>6. ASSUME NEW w \in Workers, StoreFails(w)
      PROVE  TypeOK'
  BY <1>0, <1>6 DEF StoreFails, Return, Results
<1>7. CASE UNCHANGED vars
  BY <1>7 DEF vars
<1> QED BY <1>1, <1>2, <1>3, <1>4, <1>5, <1>6, <1>7 DEF Next

-----------------------------------------------------------------------------
(* What a step can do to each copy of the table. *)

(* A live row of name n is inserted; an admin row never expires and is only
   inserted while the service is down. *)
Inserts(n) ==
  \E id \in Ids, r \in Row :
    /\ db[id] = NoRow
    /\ db' = [db EXCEPT ![id] = r]
    /\ r.name = n
    /\ r.state = "active"
    /\ n = Admin => r.exp = None /\ ~up
    /\ ~LiveName(db, n)

(* A live data row is marked revoked. *)
Revokes ==
  \E id \in Ids :
    /\ Live(db, id)
    /\ db[id].name # Admin
    /\ db' = [db EXCEPT ![id].state = "revoked"]

(* ... which changes that column of that row and nothing else. *)
LEMMA RevokesEffect ==
  ASSUME TypeOK, Revokes
  PROVE  \E id \in Ids :
           /\ db[id] # NoRow
           /\ db[id].name # Admin
           /\ db'[id] # NoRow
           /\ db'[id].name = db[id].name
           /\ db'[id].exp = db[id].exp
           /\ db'[id].state = "revoked"
           /\ \A j \in Ids : j # id => db'[j] = db[j]
<1>1. PICK id \in Ids : /\ db[id] # NoRow
                        /\ db[id].name # Admin
                        /\ db' = [db EXCEPT ![id].state = "revoked"]
  BY DEF Revokes, Live
<1>2. db \in Table
  BY DEF TypeOK
<1>3. db[id] \in Row
  BY <1>1, <1>2 DEF Table
<1> DEFINE r == [db[id] EXCEPT !.state = "revoked"]
<1>4. r \in Row /\ r.name = db[id].name /\ r.exp = db[id].exp
      /\ r.state = "revoked"
  BY <1>3 DEF Row
<1>5. db' = [db EXCEPT ![id] = r]
  BY <1>1
<1>6. r # NoRow
  BY <1>4, ConstantsAssumption DEF ConstantsAssumption
<1> HIDE DEF r
<1>7. db'[id] = r /\ \A j \in Ids : j # id => db'[j] = db[j]
  BY <1>2, <1>5 DEF Table
<1> QED BY <1>1, <1>4, <1>6, <1>7

(* A step leaves the table alone, inserts one row or revokes one row. *)
LEMMA TableSteps ==
  ASSUME TypeOK, CallInv, [Next]_vars
  PROVE  \/ db' = db
         \/ \E n \in AllNames : Inserts(n)
         \/ Revokes
<1>1. CASE Boot
  <2>1. CASE LiveName(db, Admin)
    BY <1>1, <2>1 DEF Boot, bootstrap_admin
  <2>2. CASE ~LiveName(db, Admin)
    <3>1. PICK id \in Ids : /\ db[id] = NoRow
                            /\ db' = [db EXCEPT ![id] = NewRow(Admin, None)]
      BY <1>1, <2>2 DEF Boot, bootstrap_admin
    <3>2. Admin \in AllNames /\ now \in Nat
      BY DEF AllNames, TypeOK
    <3>3. /\ NewRow(Admin, None) \in Row
          /\ NewRow(Admin, None).name = Admin
          /\ NewRow(Admin, None).state = "active"
          /\ NewRow(Admin, None).exp = None
      BY <3>2, NewRowType
    <3>4. ~up
      BY <1>1 DEF Boot
    <3>5. Inserts(Admin)
      BY <2>2, <3>1, <3>3, <3>4 DEF Inserts
    <3> QED BY <3>2, <3>5
  <2> QED BY <2>1, <2>2
<1>2. ASSUME NEW w \in Workers, NEW n \in AllNames, NEW d \in Lifetimes,
             CreateInsert(w, n, d)
      PROVE  Inserts(n)
  <2>1. PICK id \in Ids : /\ db[id] = NoRow
                          /\ db' = [db EXCEPT ![id] = NewRow(n, d)]
    BY <1>2 DEF CreateInsert
  <2>2. n # Admin /\ ~LiveName(db, n)
    BY <1>2, ConstantsAssumption DEF CreateInsert, ConstantsAssumption
  <2>3. now \in Nat
    BY DEF TypeOK
  <2>4. /\ NewRow(n, d) \in Row
        /\ NewRow(n, d).name = n
        /\ NewRow(n, d).state = "active"
    BY <2>3, NewRowType
  <2> QED BY <2>1, <2>2, <2>4 DEF Inserts
<1>3. ASSUME NEW w \in Workers, RevokeWrite(w)
      PROVE  Revokes
  BY <1>3 DEF RevokeWrite, Revokes, CallInv
<1>4. CASE UNCHANGED db
  BY <1>4
<1>5. ASSUME NEW w \in Workers, CallStart(w), ~UNCHANGED db
      PROVE  \E n \in AllNames : Inserts(n)
  BY <1>2, <1>5 DEF CallStart, CreateInvalid, CreateDuplicate, RevokeRefuse,
                    RevokeAccept
<1>6. ASSUME NEW w \in Workers, CallStep(w), ~UNCHANGED db
      PROVE  Revokes
  BY <1>3, <1>6 DEF CallStep, RevokeAlready, ReloadList, ReloadInstall
<1> QED BY <1>1, <1>4, <1>5, <1>6 DEF Next, Crash, Tick, StoreFails, vars

(* The cache changes only by Boot, Crash or the install of a snapshot. *)
LEMMA CacheSteps ==
  ASSUME TypeOK, CallInv, [Next]_vars
  PROVE  \/ cache' = cache /\ up' = up
         \/ cache' = Empty /\ ~up'
         \/ cache' = db' /\ ~up
         \/ \E w \in Workers : pc[w] = "install" /\ cache' = snap[w]
                               /\ db' = db /\ up' = up
<1>1. ASSUME NEW w \in Workers, CallStart(w)
      PROVE  cache' = cache /\ up' = up
  BY <1>1 DEF CallStart, CreateInvalid, CreateDuplicate, CreateInsert,
              RevokeRefuse, RevokeAccept
<1>2. ASSUME NEW w \in Workers, CallStep(w)
      PROVE  \/ cache' = cache /\ up' = up
             \/ pc[w] = "install" /\ cache' = snap[w] /\ db' = db /\ up' = up
  BY <1>2 DEF CallStep, RevokeWrite, RevokeAlready, ReloadList, ReloadInstall
<1> QED BY <1>1, <1>2 DEF Next, Boot, Crash, Tick, StoreFails, vars

(* A worker's snapshot is kept, dropped, or taken from the table. *)
LEMMA SnapSteps ==
  ASSUME TypeOK, CallInv, [Next]_vars, NEW w \in Workers
  PROVE  \/ snap'[w] = snap[w] /\ (pc'[w] = "install" => pc[w] = "install")
         \/ snap'[w] = Empty /\ pc'[w] = "idle"
         \/ snap'[w] = db /\ db' = db /\ up
<1>1. ASSUME NEW v \in Workers, CallStart(v) \/ StoreFails(v)
      PROVE  \/ snap'[w] = snap[w] /\ (pc'[w] = "install" => pc[w] = "install")
             \/ snap'[w] = Empty /\ pc'[w] = "idle"
  BY <1>1 DEF CallStart, CreateInvalid, CreateDuplicate, CreateInsert,
              RevokeRefuse, RevokeAccept, StoreFails, Return, Written, TypeOK
<1>2. ASSUME NEW v \in Workers, CallStep(v)
      PROVE  \/ snap'[w] = snap[w] /\ (pc'[w] = "install" => pc[w] = "install")
             \/ snap'[w] = Empty /\ pc'[w] = "idle"
             \/ snap'[w] = db /\ db' = db /\ up
  BY <1>2 DEF CallStep, RevokeWrite, RevokeAlready, ReloadList, ReloadInstall,
              Return, Written, TypeOK, CallInv
<1> QED BY <1>1, <1>2 DEF Next, Boot, Crash, Tick, vars

-----------------------------------------------------------------------------
(* Older: the order on tables that reloading relies on. *)

(* A table is no newer than itself, and the empty map than any table. *)
LEMMA OlderBasics ==
  ASSUME NEW t \in Table
  PROVE  Older(t, t) /\ Older(Empty, t)
  BY DEF Older, Empty

(* Whatever a step does to the table, what was no newer stays no newer. *)
LEMMA OlderPreserved ==
  ASSUME TypeOK, CallInv, [Next]_vars, NEW t \in Table, Older(t, db)
  PROVE  Older(t, db')
<1>1. ASSUME NEW n \in AllNames, Inserts(n)
      PROVE  Older(t, db')
  BY <1>1 DEF Inserts, Older, TypeOK, Table
<1>2. CASE Revokes
  BY <1>2, RevokesEffect DEF Older
<1> QED BY <1>1, <1>2, TableSteps

(* No step puts anything newer than the table into the cache. *)
LEMMA CacheIsPastInductive ==
  ASSUME TypeOK, CallInv, CacheIsPast, [Next]_vars
  PROVE  CacheIsPast'
<1>0. db \in Table /\ cache \in Table /\ db' \in Table
  BY TypeInductive DEF TypeOK
<1>1. Older(cache', db')
  <2>1. CASE cache' = cache
    BY <1>0, <2>1, OlderPreserved DEF CacheIsPast
  <2>2. CASE cache' = Empty \/ cache' = db'
    BY <1>0, <2>2, OlderBasics
  <2>3. ASSUME NEW w \in Workers, cache' = snap[w]
        PROVE  Older(cache', db')
    <3>1. snap[w] \in Table /\ Older(snap[w], db)
      BY DEF TypeOK, CacheIsPast
    <3> QED BY <2>3, <3>1, OlderPreserved
  <2> QED BY <2>1, <2>2, <2>3, CacheSteps
<1>2. ASSUME NEW w \in Workers
      PROVE  Older(snap'[w], db')
  <2>1. CASE snap'[w] = snap[w]
    <3>1. snap[w] \in Table /\ Older(snap[w], db)
      BY DEF TypeOK, CacheIsPast
    <3> QED BY <2>1, <3>1, OlderPreserved
  <2>2. CASE snap'[w] = Empty
    BY <1>0, <2>2, OlderBasics
  <2>3. CASE snap'[w] = db /\ db' = db
    BY <1>0, <2>3, OlderBasics
  <2> QED BY <2>1, <2>2, <2>3, SnapSteps
<1> QED BY <1>1, <1>2 DEF CacheIsPast, Older

-----------------------------------------------------------------------------
(* Live names stay unique in every copy of the table. *)

(* The unique index carries over to the cache and every snapshot. *)
LEMMA UniqueInductive ==
  ASSUME TypeOK, CallInv, UniqueInv, [Next]_vars
  PROVE  UniqueInv'
<1>0. UniqueLive(Empty)
  BY DEF UniqueLive, Live, Empty
<1>1. UniqueLive(db')
  <2>1. ASSUME NEW n \in AllNames, Inserts(n)
        PROVE  UniqueLive(db')
    <3>1. PICK id \in Ids, r \in Row : /\ db' = [db EXCEPT ![id] = r]
                                       /\ r.name = n
                                       /\ ~LiveName(db, n)
      BY <2>1 DEF Inserts
    <3> QED BY <3>1 DEF UniqueInv, UniqueLive, LiveName, Live, TypeOK, Table
  <2>2. CASE Revokes
    BY <2>2, RevokesEffect DEF UniqueInv, UniqueLive, Live
  <2>3. CASE db' = db
    BY <2>3 DEF UniqueInv
  <2> QED BY <2>1, <2>2, <2>3, TableSteps
<1>2. UniqueLive(cache')
  BY <1>0, <1>1, CacheSteps DEF UniqueInv
<1>3. ASSUME NEW w \in Workers
      PROVE  UniqueLive(snap'[w])
  BY <1>0, SnapSteps DEF UniqueInv
<1> QED BY <1>1, <1>2, <1>3 DEF UniqueInv, UniqueLive, Live

-----------------------------------------------------------------------------
(* The admin row, and what a worker knows in the middle of a call. *)

(* No step changes a row that carries the reserved name. *)
LEMMA AdminRowKept ==
  ASSUME TypeOK, CallInv, [Next]_vars, NEW a \in Ids, Named(db, a, Admin)
  PROVE  db'[a] = db[a]
<1>1. ASSUME NEW n \in AllNames, Inserts(n)
      PROVE  db'[a] = db[a]
  BY <1>1 DEF Inserts, Named, TypeOK, Table
<1>2. CASE Revokes
  BY <1>2, RevokesEffect DEF Named
<1> QED BY <1>1, <1>2, TableSteps

(* A row that carries the reserved name after a step carried it before, or
   was inserted by Boot. *)
LEMMA AdminRowOrigin ==
  ASSUME TypeOK, CallInv, [Next]_vars, NEW a \in Ids, Named(db, a, Admin)'
  PROVE  \/ Named(db, a, Admin)
         \/ ~up /\ Live(db, a)' /\ db'[a].exp = None
<1>1. ASSUME NEW n \in AllNames, Inserts(n)
      PROVE  \/ Named(db, a, Admin)
             \/ ~up /\ Live(db, a)' /\ db'[a].exp = None
  <2>1. PICK id \in Ids, r \in Row :
          /\ db' = [db EXCEPT ![id] = r]
          /\ r.name = n
          /\ r.state = "active"
          /\ n = Admin => r.exp = None /\ ~up
    BY <1>1 DEF Inserts
  <2>2. CASE a = id
    <3>1. db'[a] = r
      BY <2>1, <2>2 DEF TypeOK, Table
    <3> QED BY <2>1, <3>1 DEF Named, Live
  <2>3. CASE a # id
    BY <2>1, <2>3 DEF Named, TypeOK, Table
  <2> QED BY <2>2, <2>3
<1>2. CASE Revokes
  BY <1>2, RevokesEffect DEF Named
<1> QED BY <1>1, <1>2, TableSteps DEF Named

(* What a worker knows in the middle of its call survives every step. *)
LEMMA CallInductive ==
  ASSUME TypeOK, CallInv, [Next]_vars
  PROVE  CallInv'
<1> SUFFICES ASSUME NEW w \in Workers
             PROVE  /\ pc'[w] # "idle" => up' /\ target'[w] \in Ids
                    /\ pc'[w] = "revoke" => /\ db'[target'[w]] # NoRow
                                           /\ db'[target'[w]].name # Admin
  BY DEF CallInv
(* A row that exists and is not the admin's stays so. *)
<1>1. ASSUME NEW id \in Ids, db[id] # NoRow, db[id].name # Admin
      PROVE  db'[id] # NoRow /\ db'[id].name # Admin
  <2>1. ASSUME NEW n \in AllNames, Inserts(n)
        PROVE  db'[id] = db[id]
    BY <1>1, <2>1 DEF Inserts, TypeOK, Table
  <2>2. CASE Revokes
    BY <1>1, <2>2, RevokesEffect
  <2> QED BY <1>1, <2>1, <2>2, TableSteps
<1>2. ASSUME NEW v \in Workers, CallStart(v) \/ CallStep(v) \/ StoreFails(v)
      PROVE  up' = up /\ (pc'[v] # "idle" => up)
  BY <1>2 DEF CallStart, CallStep, CreateInvalid, CreateDuplicate,
     CreateInsert, RevokeRefuse, RevokeAccept, RevokeWrite, RevokeAlready,
     ReloadList, ReloadInstall, StoreFails, Idle, CallInv
<1>3. ASSUME NEW v \in Workers, CallStart(v) \/ CallStep(v) \/ StoreFails(v)
      PROVE  \/ pc'[w] = "idle"
             \/ /\ pc[w] # "idle" /\ target'[w] = target[w]
                /\ pc'[w] = "revoke" => pc[w] = "revoke"
             \/ w = v /\ target'[w] \in Ids /\ pc'[w] = "list"
             \/ w = v /\ target'[w] \in Ids /\ pc'[w] = "revoke"
                /\ db[target'[w]] # NoRow /\ db[target'[w]].name # Admin
  <2>1. ASSUME NEW id \in Ids, RevokeAccept(v, id)
        PROVE  \/ pc'[w] = pc[w] /\ target'[w] = target[w]
               \/ w = v /\ target'[w] \in Ids /\ pc'[w] = "revoke"
                  /\ db[target'[w]] # NoRow /\ db[target'[w]].name # Admin
    BY <2>1 DEF RevokeAccept, Named, TypeOK
  <2>2. ASSUME NEW n \in AllNames, NEW d \in Lifetimes, CreateInsert(v, n, d)
        PROVE  \/ pc'[w] = pc[w] /\ target'[w] = target[w]
               \/ w = v /\ target'[w] \in Ids /\ pc'[w] = "list"
    BY <2>2 DEF CreateInsert, Written, TypeOK
  <2>3. CASE RevokeWrite(v)
    BY <2>3 DEF RevokeWrite, Written, TypeOK, CallInv
  <2>4. CASE ReloadList(v)
    BY <2>4 DEF ReloadList, TypeOK
  <2>5. CASE RevokeAlready(v) \/ ReloadInstall(v) \/ StoreFails(v)
    BY <2>5 DEF RevokeAlready, ReloadInstall, StoreFails, Return, TypeOK
  <2>6. ASSUME NEW n \in AllNames, CreateInvalid(v, n) \/ CreateDuplicate(v, n)
        PROVE  pc'[w] = "idle" \/ (pc'[w] = pc[w] /\ target'[w] = target[w])
    BY <2>6 DEF CreateInvalid, CreateDuplicate, Return, TypeOK
  <2>7. ASSUME NEW id \in Ids, RevokeRefuse(v, id)
        PROVE  pc'[w] = "idle" \/ (pc'[w] = pc[w] /\ target'[w] = target[w])
    BY <2>7 DEF RevokeRefuse, Return, TypeOK
  <2> QED BY <1>3, <2>1, <2>2, <2>3, <2>4, <2>5, <2>6, <2>7
          DEF CallStart, CallStep
<1>4. ASSUME NEW v \in Workers, CallStart(v) \/ CallStep(v) \/ StoreFails(v)
      PROVE  /\ pc'[w] # "idle" => up' /\ target'[w] \in Ids
             /\ pc'[w] = "revoke" => /\ db'[target'[w]] # NoRow
                                    /\ db'[target'[w]].name # Admin
  BY <1>1, <1>2, <1>3, <1>4 DEF CallInv
<1>5. CASE Boot \/ Tick \/ UNCHANGED vars
  <2>1. target' = target /\ pc' = pc /\ (up => up')
    BY <1>5 DEF Boot, Tick, vars
  <2> QED BY <1>1, <2>1 DEF CallInv
<1>6. CASE Crash
  BY <1>6 DEF Crash
<1> QED BY <1>4, <1>5, <1>6 DEF Next

(* The admin row stays unrevoked, unexpiring and in every copy. *)
LEMMA AdminInductive ==
  ASSUME TypeOK, CallInv, CacheIsPast, AdminInv, [Next]_vars
  PROVE  AdminInv'
<1>1. ASSUME NEW a \in Ids, Named(db, a, Admin)'
      PROVE  Live(db, a)' /\ db'[a].exp = None
  BY <1>1, AdminRowOrigin, AdminRowKept DEF AdminInv, Live
<1>2. ASSUME up, up'
      PROVE  \E a \in Ids : Named(db, a, Admin)'
  BY <1>2, AdminRowKept DEF AdminInv, Named
<1>3. ASSUME ~up, up'
      PROVE  \E a \in Ids : Named(db, a, Admin)'
  <2>1. Boot
    BY <1>3 DEF Next, vars, Crash, Tick, CallStart, CallStep, CreateInvalid,
       CreateDuplicate, CreateInsert, RevokeRefuse, RevokeAccept, RevokeWrite,
       RevokeAlready, ReloadList, ReloadInstall, StoreFails
  <2>2. CASE LiveName(db, Admin)
    BY <2>1, <2>2 DEF Boot, bootstrap_admin, LiveName, Live, Named
  <2>3. CASE ~LiveName(db, Admin)
    <3>1. PICK a \in Ids : db' = [db EXCEPT ![a] = NewRow(Admin, None)]
      BY <2>1, <2>3 DEF Boot, bootstrap_admin
    <3>2. db'[a] = NewRow(Admin, None)
      BY <3>1 DEF TypeOK, Table
    <3>3. NewRow(Admin, None) # NoRow /\ NewRow(Admin, None).name = Admin
      BY NewRowType DEF AllNames, TypeOK
    <3> QED BY <3>2, <3>3 DEF Named
  <2> QED BY <2>2, <2>3
<1>4. ASSUME up', NEW a \in Ids, Named(db, a, Admin)'
      PROVE  cache'[a] = db'[a]
  <2>1. CASE cache' = db'
    BY <2>1
  <2>2. CASE up /\ cache' = cache
    BY <1>4, <2>2, AdminRowOrigin, AdminRowKept DEF AdminInv
  <2>3. ASSUME NEW w \in Workers, pc[w] = "install", cache' = snap[w], db' = db
        PROVE  cache'[a] = db'[a]
    BY <1>4, <2>3 DEF AdminInv, Named
  <2> QED BY <1>4, <2>1, <2>2, <2>3, CacheSteps
<1>5. ASSUME NEW w \in Workers, pc'[w] = "install", NEW a \in Ids,
             Named(db, a, Admin)'
      PROVE  snap'[w][a] = db'[a]
  <2>1. CASE snap'[w] = snap[w] /\ pc[w] = "install"
    <3>1. up
      BY <2>1 DEF CallInv
    <3>2. Named(db, a, Admin) /\ db'[a] = db[a]
      BY <1>5, <3>1, AdminRowOrigin, AdminRowKept
    <3> QED BY <2>1, <3>2 DEF AdminInv
  <2>2. CASE snap'[w] = db /\ db' = db
    BY <2>2
  <2> QED BY <1>5, <2>1, <2>2, SnapSteps
<1> QED BY <1>1, <1>2, <1>3, <1>4, <1>5 DEF AdminInv, Named, Live

-----------------------------------------------------------------------------
(* The inductive invariant holds of an empty database before boot. *)
LEMMA IInvInit == Init => IInv
<1> SUFFICES ASSUME Init PROVE IInv
  OBVIOUS
<1>1. Empty \in Table
  BY DEF Empty, Table
<1>2. TypeOK
  BY <1>1 DEF Init, TypeOK, Results
<1>3. \A id \in Ids : Empty[id] = NoRow
  BY DEF Empty
<1>4. CallInv
  BY DEF Init, CallInv
<1>5. CacheIsPast
  BY <1>3 DEF Init, CacheIsPast, Older
<1>6. UniqueInv
  BY <1>3 DEF Init, UniqueInv, UniqueLive, Live
<1>7. AdminInv
  BY <1>3 DEF Init, AdminInv, Named
<1> QED BY <1>2, <1>4, <1>5, <1>6, <1>7 DEF IInv

(* Every step preserves the inductive invariant. *)
LEMMA IInvNext == IInv /\ [Next]_vars => IInv'
  BY TypeInductive, CallInductive, CacheIsPastInductive, UniqueInductive,
     AdminInductive DEF IInv

(* The inductive invariant holds of every behaviour of the service. *)
THEOREM Invariance == Spec => []IInv
  BY IInvInit, IInvNext, PTL DEF Spec

(* Every variable keeps its type. *)
THEOREM TypeCorrect == Spec => []TypeOK
<1>1. IInv => TypeOK
  BY DEF IInv
<1> QED BY <1>1, Invariance, PTL

(* However management calls, failed reloads and crashes interleave, the
   cache the data plane reads is an earlier state of the table. *)
THEOREM CacheIsAlwaysPast == Spec => []CacheIsPast
<1>1. IInv => CacheIsPast
  BY DEF IInv
<1> QED BY <1>1, Invariance, PTL

(* At most one token per name passes verify, even from a stale cache. *)
THEOREM NamesNeverShared == Spec => []OneTokenPerName
<1>1. IInv => OneTokenPerName
  BY DEF IInv, UniqueInv, UniqueLive, OneTokenPerName, lookup_verified
<1> QED BY <1>1, Invariance, PTL

(* While the service is up the admin credential of the first boot works, and
   it is the only row that carries the reserved name. *)
THEOREM AdminNeverLockedOut == Spec => []AdminPlane
<1>1. IInv => AdminPlane
  <2> SUFFICES ASSUME IInv, up
               PROVE  /\ \E a \in Ids : verify_admin(a)
                      /\ \A a \in Ids : Named(db, a, Admin) => verify_admin(a)
    BY DEF AdminPlane
  <2>1. ASSUME NEW a \in Ids, Named(db, a, Admin)
        PROVE  verify_admin(a)
    BY <2>1 DEF IInv, AdminInv, verify_admin, lookup_verified, Named, Live,
                expired
  <2> QED BY <2>1 DEF IInv, AdminInv
<1> QED BY <1>1, Invariance, PTL
=============================================================================
