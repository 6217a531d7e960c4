----------------------------- MODULE MCSemLock -----------------------------
(* SemLock on three processes, one semaphore set of four semaphores.       *)
EXTENDS SemLock

CONSTANTS p1, p2, p3

Procs3 == {p1, p2, p3}
=============================================================================
