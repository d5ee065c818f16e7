------------------------------ MODULE MCNodeOps ------------------------------
(* NodeOps with one metered source and Vercel, and an old configuration of a
   valid and an invalid route. *)
EXTENDS NodeOps

MCMetered == <<"cf">>
=============================================================================
