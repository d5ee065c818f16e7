----------------------------- MODULE RouteTable -----------------------------
(***************************************************************************)
(* The route table (crates/core/src/route.rs, crates/core/src/store/       *)
(* routes.rs and the route handlers of crates/server/src/api.rs).          *)
(*                                                                         *)
(* As with tokens there are two copies, the SQLite table and the map the   *)
(* data plane resolves against; a management call writes the first and     *)
(* then reloads the second in two steps without a lock: list, swap.        *)
(***************************************************************************)
EXTENDS Naturals

CONSTANTS Workers,   \* blocking-pool threads running management calls
          Names,     \* route names validate_name() accepts
          Hosts,     \* target hosts validate_host() accepts
          BadInput,  \* any name or host they refuse
          Edges,     \* keys of the edges map: the configured upstreams
          NewRoutes, \* what create calls ask for: [host, over, backup]
          Edits,     \* what update calls ask for: [over, backup, enabled]
          None,      \* Option::None, SQL NULL
          Keep,      \* a field an update leaves alone
          NoRow,     \* no such route
          MaxWrites  \* bound on the writes to the table

Upstreams == {"worker", "vercel"} \cup Edges
Row == [host : Hosts, over : Upstreams \cup {None},
        backup : Upstreams \cup {None}, enabled : BOOLEAN]
Tables == [Names -> Row \cup {NoRow}]

ASSUME RouteAssumption ==
  /\ NoRow \notin Row /\ MaxWrites \in Nat /\ BadInput \notin Hosts \cup Names
  /\ None \notin Upstreams
  /\ \A e \in Edits : e.enabled \in BOOLEAN \cup {Keep}

VARIABLES db,      \* the routes table
          table,   \* RouteTable.table
          pc,      \* per worker: the next step of its call
          snap,    \* per worker: the rows list_routes() returned
          writes,  \* writes so far
          history  \* history variable: the contents db has had

routeVars == <<db, table, pc, snap, writes, history>>

RouteTypeOK ==
  /\ db \in Tables /\ table \in Tables
  /\ pc \in [Workers -> {"idle", "list", "install"}]
  /\ snap \in [Workers -> Tables]
  /\ writes \in 0 .. MaxWrites
  /\ history \subseteq Tables

(* RouteTable::new: the first reload runs before the table is shared. *)
RouteInit ==
  /\ db = [n \in Names |-> NoRow]
  /\ table = db
  /\ pc = [w \in Workers |-> "idle"]
  /\ snap = [w \in Workers |-> db]
  /\ writes = 0
  /\ history = {db}

-----------------------------------------------------------------------------
(* Validation.  Names and hosts are opaque: what the checks let through is
   Names and Hosts, and BadInput stands for all the rest. *)

validate_name(n) == n \in Names
validate_host(h) == h \in Hosts

(* "worker" and "vercel" always pass, configured or not. *)
valid_override(u) == u \in {"worker", "vercel"} \cup Edges

valid_route(r) ==
  /\ validate_host(r.host)
  /\ r.over # None => valid_override(r.over)
  /\ r.backup # None => valid_override(r.backup)

-----------------------------------------------------------------------------
(* What the data plane reads. *)

pick_upstream(row) == IF row.over # None THEN row.over ELSE "worker"

resolvable(t, n) == n \in Names /\ t[n] # NoRow /\ t[n].enabled

(* NULL or no row: no backup. *)
backup_upstream(n) == IF table[n] = NoRow THEN None ELSE table[n].backup

-----------------------------------------------------------------------------
(* A Store write: one statement under the connection's mutex. *)
Store(t) ==
  /\ writes < MaxWrites
  /\ db' = t
  /\ writes' = writes + 1
  /\ history' = history \cup {t}

Reloading(w) == pc' = [pc EXCEPT ![w] = "list"] /\ UNCHANGED <<table, snap>>

insert_route(n, r) ==
  Store([db EXCEPT ![n] = [host |-> r.host, over |-> r.over,
                           backup |-> r.backup, enabled |-> TRUE]])

(* create_route: the validations, the look at the map (not at the table) for
   a duplicate, then INSERT, whose UNIQUE key catches the duplicate that the
   map does not show yet.  A refused call leaves everything as it was. *)
create_route(w, n, r) ==
  /\ pc[w] = "idle"
  /\ validate_name(n) /\ valid_route(r)
  /\ table[n] = NoRow
  /\ db[n] = NoRow
  /\ insert_route(n, r)
  /\ Reloading(w)

Changed(old, new) == IF new = Keep THEN old ELSE new

(* Store::update_route, three states per column: keep, clear, set. *)
Edited(row, e) ==
  [row EXCEPT !.over = Changed(@, e.over), !.backup = Changed(@, e.backup),
              !.enabled = Changed(@, e.enabled)]

(* A row that is hit makes the call reload, also when nothing changed. *)
update_route(w, n, e) ==
  /\ pc[w] = "idle"
  /\ e.over \notin {Keep, None} => valid_override(e.over)
  /\ e.backup \notin {Keep, None} => valid_override(e.backup)
  /\ db[n] # NoRow
  /\ Store([db EXCEPT ![n] = Edited(@, e)])
  /\ Reloading(w)

delete_route(w, n) ==
  /\ pc[w] = "idle"
  /\ db[n] # NoRow
  /\ Store([db EXCEPT ![n] = NoRow])
  /\ Reloading(w)

ReloadList(w) ==
  /\ pc[w] = "list"
  /\ snap' = [snap EXCEPT ![w] = db]
  /\ pc' = [pc EXCEPT ![w] = "install"]
  /\ UNCHANGED <<db, table, writes, history>>

(* list_routes() returns an error: the call answers 500 and the map stays
   behind the table until another call reloads it. *)
ReloadFails(w) ==
  /\ pc[w] = "list"
  /\ pc' = [pc EXCEPT ![w] = "idle"]
  /\ UNCHANGED <<db, table, snap, writes, history>>

(* Seeded fault: the rows are merged into the map one reload at a time. *)
ReloadMerges(w) ==
  /\ pc[w] = "install"
  /\ table' = [n \in Names |-> IF snap[w][n] = NoRow THEN table[n]
                                                     ELSE snap[w][n]]
  /\ pc' = [pc EXCEPT ![w] = "idle"]
  /\ snap' = [snap EXCEPT ![w] = [n \in Names |-> NoRow]]
  /\ UNCHANGED <<db, writes, history>>

ReloadInstall(w) ==
  /\ pc[w] = "install"
  /\ table' = snap[w]
  /\ pc' = [pc EXCEPT ![w] = "idle"]
  /\ snap' = [snap EXCEPT ![w] = [n \in Names |-> NoRow]]
  /\ UNCHANGED <<db, writes, history>>

Manage(w) ==
  \/ \E n \in Names : \/ \E r \in NewRoutes : create_route(w, n, r)
                      \/ \E e \in Edits : update_route(w, n, e)
                      \/ delete_route(w, n)
  \/ ReloadList(w) \/ ReloadFails(w) \/ ReloadInstall(w)

-----------------------------------------------------------------------------
(* Refinement: the map the data plane resolves against is a whole version of
   the routes table, whatever reloads overlap or fail. *)
Lagging == INSTANCE LaggingTable
             WITH table <- db, view <- table, versions <- history
LagsBehindStore == Lagging!LTSpec
=============================================================================
