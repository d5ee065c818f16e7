------------------------------ MODULE MCHaNode ------------------------------
(* One user with two passwords; the clients that differ in what they may do. *)
EXTENDS HaNode
CONSTANTS u1, p1, p2

C(e, l, x, f, c) ==
  [entry |-> e, loop |-> l, proxied |-> x, forged |-> f, cred |-> c]

MCClients ==
  {C("forwarder", FALSE, TRUE, TRUE, ClientToken),
   C("forwarder", FALSE, FALSE, TRUE, NoCred),
   C("engine", FALSE, FALSE, FALSE, <<u1, p1>>),
   C("engine", TRUE, FALSE, FALSE, NoCred)}

MCGates == <<"cf", "vc", "rn">>
MCClass == [e \in {"cf", "vc", "rn"} |->
              CASE e = "cf" -> "cf" [] e = "vc" -> "vercel" [] e = "rn" -> "vps"]
=============================================================================
