--------------------------- MODULE MCUsageTracker ---------------------------
(* UsageTracker with two keys, one of them recorded on twice. *)
EXTENDS UsageTracker

CONSTANTS k1, k2

MCKeys == {k1, k2}
MCMaxCount == [k \in MCKeys |-> IF k = k1 THEN 2 ELSE 1]
=============================================================================
