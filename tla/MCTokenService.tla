--------------------------- MODULE MCTokenService ---------------------------
(* TokenService on small instances; every bound is a constant of the .cfg. *)
EXTENDS TokenService, TLC

CONSTANTS w1, w2, t1, t2, t3

MCWorkers == {w1, w2}
MCIds == {t1, t2, t3}
MCLifetimes == {1, None}

(* Workers and row ids are interchangeable. *)
Sym == Permutations(MCWorkers) \cup Permutations(MCIds)
=============================================================================
