---------------------------- MODULE MCGateServer ----------------------------
(* GateServer with two sessions, a tenant, an admin and the tunnel principal. *)
EXTENDS GateServer

CONSTANTS s1, s2

MCSessions == {s1, s2}
MCQuota == [u \in Tenants |-> 4]
MCLimitLoose == [u \in Tenants |-> 2]
=============================================================================
