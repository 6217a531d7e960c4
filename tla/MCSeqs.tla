------------------------------- MODULE MCSeqs -------------------------------
(* Seqs with one or two listener processes and small skips.                *)
EXTENDS Seqs, TLC

CONSTANTS p1, p2

Procs1 == {p1}
Procs2 == {p1, p2}
Sym == Permutations(Procs2)
=============================================================================
