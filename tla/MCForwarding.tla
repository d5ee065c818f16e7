---------------------------- MODULE MCForwarding ----------------------------
(* Two routes, three upstream names of which one is not configured, one
   request and two management workers. *)
EXTENDS Forwarding
CONSTANTS n1, n2, h1, t1, t2

MCNewRoutes ==
  {[host |-> h1, over |-> "b", backup |-> None],
   [host |-> h1, over |-> "elsewhere", backup |-> None],
   [host |-> BadInput, over |-> None, backup |-> None]}
MCEdits ==
  {[over |-> Keep, backup |-> "worker", enabled |-> Keep],
   [over |-> None, backup |-> "b", enabled |-> Keep],
   [over |-> "vercel", backup |-> None, enabled |-> FALSE],
   [over |-> Keep, backup |-> Keep, enabled |-> TRUE]}
MCTargets ==
  {[absolute |-> TRUE, open |-> FALSE, path |-> <<n1>>, header |-> t1],
   [absolute |-> FALSE, open |-> TRUE, path |-> <<>>, header |-> None],
   [absolute |-> FALSE, open |-> FALSE, path |-> <<n1>>, header |-> t1],
   [absolute |-> FALSE, open |-> FALSE, path |-> <<t2, n1>>, header |-> t1],
   [absolute |-> FALSE, open |-> FALSE, path |-> <<t1, n1>>, header |-> None],
   [absolute |-> FALSE, open |-> FALSE, path |-> <<n1>>, header |-> t2],
   [absolute |-> FALSE, open |-> FALSE, path |-> <<t1>>, header |-> None]}
=============================================================================
