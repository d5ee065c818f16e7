---------------------------- MODULE UserService ----------------------------
(***************************************************************************)
(* Proxy users with a password (crates/core/src/user.rs, crates/core/src/  *)
(* store/users.rs, crates/cli/src/cmd/user.rs).                            *)
(*                                                                         *)
(* A serving process loads the users table once, when it starts, and never *)
(* again: verify_user() reads that map only.  Users are managed by the     *)
(* command line, which runs in a process of its own with a UserService of  *)
(* its own; the map it updates dies with it, so only what it writes to the *)
(* table is state here.  last_used_at is read by no guard and left out.    *)
(***************************************************************************)
EXTENDS Naturals

CONSTANTS Users, Passwords, NoUser,
          Endless,   \* whether users are created without an expiry
          MaxEdits   \* bound on the writes to the table

UserRow == [pw : Passwords, disabled : BOOLEAN, forever : BOOLEAN]
UserTables == [Users -> UserRow \cup {NoUser}]

ASSUME UserAssumption == 
  NoUser \notin UserRow /\ MaxEdits \in Nat /\ Endless \subseteq BOOLEAN

VARIABLES users,    \* the users table
          known,    \* UserService.cache of the serving process
          expired,  \* the clock has passed the expiry of limited users
          edits     \* writes to the table so far

userVars == <<users, known, expired, edits>>

UserTypeOK ==
  /\ users \in UserTables /\ known \in UserTables
  /\ expired \in BOOLEAN
  /\ edits \in 0 .. MaxEdits

UserInit ==
  /\ users = [u \in Users |-> NoUser]
  /\ known = users
  /\ expired = FALSE
  /\ edits = 0

verify_user(u, p) ==
  /\ known[u] # NoUser
  /\ ~known[u].disabled
  /\ known[u].forever \/ ~expired
  /\ known[u].pw = p

-----------------------------------------------------------------------------
StoreUsers(t) ==
  /\ edits < MaxEdits
  /\ edits' = edits + 1
  /\ users' = t
  /\ UNCHANGED <<known, expired>>

(* `pproxy user add`: the UNIQUE key refuses a name that exists. *)
create_user(u, p, f) ==
  /\ users[u] = NoUser
  /\ StoreUsers([users EXCEPT ![u] = [pw |-> p, disabled |-> FALSE,
                                      forever |-> f]])

delete_user(u) ==
  /\ users[u] # NoUser
  /\ StoreUsers([users EXCEPT ![u] = NoUser])

set_disabled(u, d) ==
  /\ users[u] # NoUser
  /\ StoreUsers([users EXCEPT ![u].disabled = d])

update_password(u, p) ==
  /\ users[u] # NoUser
  /\ StoreUsers([users EXCEPT ![u].pw = p])

UserCommand ==
  \E u \in Users :
    \/ \E p \in Passwords, f \in Endless : create_user(u, p, f)
    \/ delete_user(u)
    \/ \E d \in BOOLEAN : set_disabled(u, d)
    \/ \E p \in Passwords : update_password(u, p)

UserClock == ~expired /\ expired' = TRUE
             /\ UNCHANGED <<users, known, edits>>

(* UserService::new, before the service is shared: list, clear, insert. *)
refresh_cache ==
  /\ known' = users
  /\ UNCHANGED <<users, expired, edits>>
=============================================================================
