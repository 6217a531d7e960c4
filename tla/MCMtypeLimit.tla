---------------------------- MODULE MCMtypeLimit ----------------------------
(* MtypeLimit with two processes, a limit of one and three slots.          *)
EXTENDS MtypeLimit, TLC

CONSTANTS p1, p2, m1, m2, m3

Procs2 == {p1, p2}
Sessions3 == {m1, m2, m3}
Sym == Permutations(Procs2) \cup Permutations(Sessions3)
=============================================================================
