---------------------------- MODULE LaggingTable ----------------------------
(***************************************************************************)
(* What a table with an in-memory copy promises its readers: the copy is   *)
(* at every moment one whole version the table has had, possibly an old    *)
(* one, and never a mixture of versions or an invention.  RouteTable and   *)
(* UserService implement it (LagsBehindStore in each).                     *)
(***************************************************************************)
VARIABLES table,    \* the stored table
          view,     \* the copy readers are served from
          versions  \* the contents the table has had

LTInit == view = table /\ versions = {table}

Write == /\ table' # table
         /\ versions' = versions \cup {table'}
         /\ UNCHANGED view

Refresh == /\ view' \in versions
           /\ UNCHANGED <<table, versions>>

LTSpec == LTInit /\ [][Write \/ Refresh]_<<table, view, versions>>
=============================================================================
