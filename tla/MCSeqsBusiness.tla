--------------------------- MODULE MCSeqsBusiness ---------------------------
(* SeqsBusiness with three services and a unit of three numbers.    *)
EXTENDS SeqsBusiness, TLC

CONSTANTS p1, p2, p3

Procs3 == {p1, p2, p3}
Sym == Permutations(Procs3)
=============================================================================
