---------------------------- MODULE TokenService ----------------------------
(***************************************************************************)
(* The access-token service of the gateway                                 *)
(* (crates/core/src/token.rs, crates/core/src/store/tokens.rs and the      *)
(* token handlers of crates/server/src/api.rs).                            *)
(*                                                                         *)
(* Two copies of the token table exist: the SQLite table `db`, which every *)
(* management call writes, and the in-memory `cache`, which is all the     *)
(* data plane reads.  A management call runs on a blocking-pool worker:    *)
(* each call of a Store method is one atomic step (the connection mutex),  *)
(* but reload_cache() is two - list the table, then swap the map in - and  *)
(* no lock is held across them.  Calls of different workers interleave.    *)
(*                                                                         *)
(* A row's id stands for the row, its SHA-256 hash and the plaintext that  *)
(* hashes to it: each row is created with a fresh random plaintext, and    *)
(* `id` in the verify operators is "the plaintext of row id is presented". *)
(***************************************************************************)
EXTENDS Naturals

CONSTANTS Workers,       \* blocking-pool threads running management calls
          Names,         \* names valid_name() accepts
          Admin,         \* the reserved name __admin__
          Ids,           \* row ids; finite in a model: bounds the rows inserted
          Lifetimes,     \* expires_days as clock units; None = no expiry
          None,          \* Option::None in expires_at
          NoRow,         \* no such row
          MaxTime,       \* bound on the clock
          StoreMayFail   \* TRUE: a Store call may return StoreError

AllNames == Names \cup {Admin}

(* TokenRow, without the columns no guard reads; revoked_at is reduced to
   whether it is set. *)
Row == [name : AllNames, exp : Nat \cup {None}, state : {"active", "revoked"}]
Table == [Ids -> Row \cup {NoRow}]

ASSUME ConstantsAssumption ==
  /\ Admin \notin Names
  /\ None \notin Nat
  /\ NoRow \notin Row
  /\ Lifetimes \subseteq (Nat \ {0}) \cup {None}
  /\ MaxTime \in Nat
  /\ StoreMayFail \in BOOLEAN

VARIABLES db,      \* the tokens table; survives a crash
          cache,   \* TokenService.cache
          up,      \* the service is constructed and serving
          pc,      \* per worker: the next step of its call
          op,      \* per worker: what the call has written to db
          target,  \* per worker: the row the call is about
          snap,    \* per worker: the rows list_tokens() returned
          result,  \* per worker: what its last call answered
          acked,   \* rows whose revocation was answered {"revoked":true}
          now      \* now_unix()

vars == <<db, cache, up, pc, op, target, snap, result, acked, now>>

Empty == [id \in Ids |-> NoRow]
NoId == NoRow

Results == {"none", "created", "revoked", "already_revoked", "not_found",
            "cannot_revoke_admin", "duplicate", "invalid_name",
            "invalid_expiry", "error"}

TypeOK ==
  /\ db \in Table
  /\ cache \in Table
  /\ up \in BOOLEAN
  /\ pc \in [Workers -> {"idle", "revoke", "list", "install"}]
  /\ op \in [Workers -> {"none", "created", "revoked"}]
  /\ target \in [Workers -> Ids \cup {NoId}]
  /\ snap \in [Workers -> Table]
  /\ result \in [Workers -> Results]
  /\ acked \subseteq Ids
  /\ now \in Nat

-----------------------------------------------------------------------------
(* Queries on a table, and the data plane's view of the cache. *)

Live(t, id) == t[id] # NoRow /\ t[id].state = "active"
Named(t, id, n) == t[id] # NoRow /\ t[id].name = n
LiveName(t, n) == \E id \in Ids : Live(t, id) /\ t[id].name = n

expired(row) == row.exp # None /\ row.exp < now

lookup_verified(id) == up /\ Live(cache, id) /\ ~expired(cache[id])
verify(id)          == lookup_verified(id) /\ cache[id].name # Admin
verify_admin(id)    == lookup_verified(id) /\ cache[id].name = Admin

NewRow(n, d) == [name |-> n, exp |-> IF d = None THEN None ELSE now + d,
                 state |-> "active"]

-----------------------------------------------------------------------------
Init ==
  /\ db = Empty
  /\ cache = Empty
  /\ up = FALSE
  /\ pc = [w \in Workers |-> "idle"]
  /\ op = [w \in Workers |-> "none"]
  /\ target = [w \in Workers |-> NoId]
  /\ snap = [w \in Workers |-> Empty]
  /\ result = [w \in Workers |-> "none"]
  /\ acked = {}
  /\ now = 0

(* bootstrap_admin: the admin row is inserted unless a live one exists. *)
bootstrap_admin ==
  IF LiveName(db, Admin)
    THEN db' = db
    ELSE \E id \in Ids : /\ db[id] = NoRow
                         /\ db' = [db EXCEPT ![id] = NewRow(Admin, None)]

(* TokenService::new: bootstrap, then load the cache; only then is the
   service shared with the planes, so no other call interleaves. *)
Boot ==
  /\ ~up
  /\ bootstrap_admin
  /\ cache' = db'
  /\ up' = TRUE
  /\ UNCHANGED <<pc, op, target, snap, result, acked, now>>

(* The process dies: only the table is left. *)
Crash ==
  /\ up
  /\ up' = FALSE
  /\ cache' = Empty
  /\ pc' = [w \in Workers |-> "idle"]
  /\ op' = [w \in Workers |-> "none"]
  /\ target' = [w \in Workers |-> NoId]
  /\ snap' = [w \in Workers |-> Empty]
  /\ result' = [w \in Workers |-> "none"]
  /\ UNCHANGED <<db, acked, now>>

Idle(w) == up /\ pc[w] = "idle"

(* The call answers r and the worker goes back to the pool. *)
Return(w, r) ==
  /\ result' = [result EXCEPT ![w] = r]
  /\ pc' = [pc EXCEPT ![w] = "idle"]
  /\ op' = [op EXCEPT ![w] = "none"]
  /\ target' = [target EXCEPT ![w] = NoId]
  /\ snap' = [snap EXCEPT ![w] = Empty]

(* The call has changed the table and goes on to reload_cache(). *)
Written(w, o, id) ==
  /\ op' = [op EXCEPT ![w] = o]
  /\ target' = [target EXCEPT ![w] = id]
  /\ pc' = [pc EXCEPT ![w] = "list"]
  /\ UNCHANGED <<snap, result>>

(* create_token up to insert_token.  expires_days outside 1..=3650 is refused
   (Lifetimes holds only the values that are not).  The partial unique index on the names of
   unrevoked rows turns a second live row of a name into Duplicate. *)
CreateInvalid(w, n) ==
  /\ Idle(w)
  /\ \/ n \notin Names /\ Return(w, "invalid_name")
     \/ n \in Names /\ Return(w, "invalid_expiry")
  /\ UNCHANGED <<db, cache, up, acked, now>>

CreateDuplicate(w, n) ==
  /\ Idle(w)
  /\ n \in Names
  /\ LiveName(db, n)
  /\ Return(w, "duplicate")
  /\ UNCHANGED <<db, cache, up, acked, now>>

(* Seeded fault: the name is checked against the cache, not by the index. *)
CreateInsertCheckingCache(w, n, d) ==
  /\ Idle(w)
  /\ n \in Names
  /\ ~LiveName(cache, n)
  /\ \E id \in Ids : /\ db[id] = NoRow
                     /\ db' = [db EXCEPT ![id] = NewRow(n, d)]
                     /\ Written(w, "created", id)
  /\ UNCHANGED <<cache, up, acked, now>>

CreateInsert(w, n, d) ==
  /\ Idle(w)
  /\ n \in Names
  /\ ~LiveName(db, n)
  /\ \E id \in Ids : /\ db[id] = NoRow
                     /\ db' = [db EXCEPT ![id] = NewRow(n, d)]
                     /\ Written(w, "created", id)
  /\ UNCHANGED <<cache, up, acked, now>>

(* revoke_token_handler: first a list_tokens() to refuse the admin row ... *)
RevokeRefuse(w, id) ==
  /\ Idle(w)
  /\ \/ db[id] = NoRow /\ Return(w, "not_found")
     \/ Named(db, id, Admin) /\ Return(w, "cannot_revoke_admin")
     \/ StoreMayFail /\ Return(w, "not_found")
  /\ UNCHANGED <<db, cache, up, acked, now>>

RevokeAccept(w, id) ==
  /\ Idle(w)
  /\ db[id] # NoRow
  /\ ~Named(db, id, Admin)
  /\ pc' = [pc EXCEPT ![w] = "revoke"]
  /\ target' = [target EXCEPT ![w] = id]
  /\ UNCHANGED <<db, cache, up, op, snap, result, acked, now>>

(* Seeded fault: the row is deleted. *)
RevokeWriteDeletes(w) ==
  /\ pc[w] = "revoke"
  /\ Live(db, target[w])
  /\ db' = [db EXCEPT ![target[w]] = NoRow]
  /\ Written(w, "revoked", target[w])
  /\ UNCHANGED <<cache, up, acked, now>>

(* ... then, in a second blocking task, TokenService::revoke_token.  A row
   that is already revoked is answered like a fresh revocation, and only a
   fresh one reloads the cache. *)
RevokeWrite(w) ==
  LET id == target[w] IN
  /\ pc[w] = "revoke"
  /\ Live(db, id)
  /\ db' = [db EXCEPT ![id].state = "revoked"]
  /\ Written(w, "revoked", id)
  /\ UNCHANGED <<cache, up, acked, now>>

RevokeAlready(w) ==
  /\ pc[w] = "revoke"
  /\ ~Live(db, target[w])
  /\ Return(w, "already_revoked")
  /\ acked' = acked \cup {target[w]}
  /\ UNCHANGED <<db, cache, up, now>>

(* reload_cache: list_tokens() ... *)
ReloadList(w) ==
  /\ pc[w] = "list"
  /\ snap' = [snap EXCEPT ![w] = db]
  /\ pc' = [pc EXCEPT ![w] = "install"]
  /\ UNCHANGED <<db, cache, up, op, target, result, acked, now>>

(* ... then the map is swapped in, and the call answers success. *)
ReloadInstall(w) ==
  /\ pc[w] = "install"
  /\ cache' = snap[w]
  /\ Return(w, op[w])
  /\ acked' = IF op[w] = "revoked" THEN acked \cup {target[w]} ELSE acked
  /\ UNCHANGED <<db, up, now>>

(* A Store call of the running management call returns StoreError: the
   insert or the update left the table as it was, or the reload found no
   rows to install.  The caller is answered 500 either way. *)
StoreFails(w) ==
  /\ StoreMayFail
  /\ up
  /\ pc[w] \in {"idle", "revoke", "list"}
  /\ Return(w, "error")
  /\ UNCHANGED <<db, cache, up, acked, now>>

Tick ==
  /\ now < MaxTime
  /\ now' = now + 1
  /\ UNCHANGED <<db, cache, up, pc, op, target, snap, result, acked>>

CallStep(w) ==
  \/ RevokeWrite(w) \/ RevokeAlready(w) \/ ReloadList(w) \/ ReloadInstall(w)

CallStart(w) ==
  \/ \E n \in AllNames : CreateInvalid(w, n) \/ CreateDuplicate(w, n)
  \/ \E n \in AllNames, d \in Lifetimes : CreateInsert(w, n, d)
  \/ \E id \in Ids : RevokeRefuse(w, id) \/ RevokeAccept(w, id)

Next ==
  \/ Boot
  \/ Crash
  \/ Tick
  \/ \E w \in Workers : CallStart(w) \/ CallStep(w) \/ StoreFails(w)

Spec == Init /\ [][Next]_vars

-----------------------------------------------------------------------------
(* Properties that hold however calls, failures and crashes interleave. *)

(* t is no newer than u: every row of t is a row of u, and t knows of no
   revocation that u does not. *)
Older(t, u) ==
  \A id \in Ids : t[id] # NoRow =>
    /\ u[id] # NoRow
    /\ u[id].name = t[id].name
    /\ u[id].exp = t[id].exp
    /\ t[id].state = "revoked" => u[id].state = "revoked"

(* The cache (and every snapshot on its way into the cache) is an earlier
   state of the table: the data plane may be late, but it never admits a
   token that was not inserted, nor under another name or expiry. *)
CacheIsPast ==
  /\ Older(cache, db)
  /\ \A w \in Workers : Older(snap[w], db)

(* The data plane never admits two tokens of one name, even while it runs on
   a stale cache: revoke-and-recreate replaces the token, it does not add
   one.  (Partial unique index + whole-table reload.) *)
OneTokenPerName ==
  \A i, j \in Ids :
    lookup_verified(i) /\ lookup_verified(j) /\ cache[i].name = cache[j].name
      => i = j

(* The management plane is never locked out and its credential never
   changes: while the service is up, the admin row - the one printed once at
   first boot - passes verify_admin, and no other row ever carries the name.
   (revoke_token_handler's admin check, bootstrap_admin's skip.) *)
AdminPlane ==
  up => /\ \E a \in Ids : verify_admin(a)
        /\ \A a \in Ids : Named(db, a, Admin) => verify_admin(a)

(* The inductive strengthening of the three: what a worker in the middle of a
   call knows, unique live names in every copy of the table, and an admin
   row that is in every copy a reader may get to see. *)
CallInv ==
  \A w \in Workers :
    /\ pc[w] # "idle" => up /\ target[w] \in Ids
    /\ pc[w] = "revoke" => /\ db[target[w]] # NoRow
                          /\ db[target[w]].name # Admin

UniqueLive(t) ==
  \A i, j \in Ids : Live(t, i) /\ Live(t, j) /\ t[i].name = t[j].name => i = j

UniqueInv ==
  /\ UniqueLive(db)
  /\ UniqueLive(cache)
  /\ \A w \in Workers : UniqueLive(snap[w])

AdminInv ==
  /\ \A a \in Ids : Named(db, a, Admin) => Live(db, a) /\ db[a].exp = None
  /\ up => \E a \in Ids : Named(db, a, Admin)
  /\ up => \A a \in Ids : Named(db, a, Admin) => cache[a] = db[a]
  /\ \A w \in Workers : pc[w] = "install" =>
       \A a \in Ids : Named(db, a, Admin) => snap[w][a] = db[a]

IInv == TypeOK /\ CallInv /\ CacheIsPast /\ UniqueInv /\ AdminInv

-----------------------------------------------------------------------------
(* What the code says of revocation. *)

(* A token whose revocation was answered with success is not admitted any
   more once no reload is under way: "写库成功后同步 reload_cache() 全量重建缓存
   ... 换取无失效竞态" (every write rebuilds the cache, which leaves no
   invalidation race, token.rs:7-8), "窗口上限 = 一次 reload_cache()" (the window
   is at most one reload, token.rs:12).  The code breaks this: a call that
   listed the table before the revocation may install its list after it. *)
RevokeSticks ==
  (\A w \in Workers : pc[w] \notin {"list", "install"})
    => \A id \in acked : ~lookup_verified(id)

=============================================================================
