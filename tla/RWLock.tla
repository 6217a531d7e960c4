------------------------------- MODULE RWLock -------------------------------
(***************************************************************************)
(* What the lock service promises its callers: each lock is held by any    *)
(* number of readers or by one writer, and a process that dies releases    *)
(* what it held.  core/sem_lock.c implements this (SemLock) with counting  *)
(* semaphores, and Mtype, MtypeLimit and LinkList take it for granted.     *)
(***************************************************************************)
CONSTANTS Proc, Lock

VARIABLE mode          \* mode[p][l]: how p holds l

Free == [l \in Lock |-> "out"]

Init == mode = [p \in Proc |-> Free]

Read(p, l) == /\ mode[p][l] = "out"
              /\ \A q \in Proc : mode[q][l] # "write"
              /\ mode' = [mode EXCEPT ![p][l] = "read"]

Write(p, l) == /\ \A q \in Proc : mode[q][l] = "out"
               /\ mode' = [mode EXCEPT ![p][l] = "write"]

Release(p, l) == /\ mode[p][l] # "out"
                 /\ mode' = [mode EXCEPT ![p][l] = "out"]

Die(p) == mode' = [mode EXCEPT ![p] = Free]

Next == \E p \in Proc : \/ \E l \in Lock : Read(p, l) \/ Write(p, l) \/ Release(p, l)
                        \/ Die(p)

Spec == Init /\ [][Next]_mode
=============================================================================
