------------------------------ MODULE MCMtype ------------------------------
(* Mtype with two processes and two usable slots.                          *)
EXTENDS Mtype

CONSTANTS p1, p2

Procs2 == {p1, p2}
=============================================================================
