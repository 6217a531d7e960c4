------------------------------ MODULE SemLock ------------------------------
(***************************************************************************)
(* The lock service of core/sem_lock.c over the System V semaphores of      *)
(* os/unix/pub_sem.c.  One semaphore set, in the run-time shared memory,    *)
(* serves every process of the switch.  A semaphore starts at SEM_VALUE; a  *)
(* reader takes 1 of it and a writer (or mutex holder) all of it.  Every    *)
(* operation carries SEM_UNDO, so the kernel gives back what a dying        *)
(* process held.  Semaphore 1 protects the counter that new lock ids are    *)
(* drawn from.                                                             *)
(***************************************************************************)
EXTENDS Integers, FiniteSets

CONSTANTS Proc,        \* the processes attached to the shared memory
          SemNum,      \* syscfg->semsize, the number of semaphores
          SEM_VALUE    \* initial value of a semaphore (500)

ASSUME ProcAssumption == IsFiniteSet(Proc)
ASSUME SemNumAssumption == SemNum \in Nat /\ SemNum > 1
ASSUME SemValueAssumption == SEM_VALUE \in Nat /\ SEM_VALUE > 0

VARIABLES semval,      \* kernel: the value of each semaphore of the set
          semadj,      \* kernel: what SEM_UNDO gives back when p dies
          lock_cnt,    \* sem_lock->lock_cnt
          issued,      \* how often an id was returned by sem_new_lock_id
          inside,      \* the critical section a caller has entered, per id
          alloc        \* where p is in sem_new_lock_id, and its local count

vars == <<semval, semadj, lock_cnt, issued, inside, alloc>>

Sem == 0 .. SemNum - 1
\* Ids that callers can be given: lock_cnt starts at 1 and is incremented
\* before it is returned.
Id == 2 .. SemNum
Mode == {"out", "read", "write"}
NoAlloc == [at |-> "idle", cnt |-> 0]
AllocState == [at : {"idle", "wait", "locked", "loaded", "stored"},
               cnt : 0 .. SemNum]

\* Mutant: a writer takes no more than a reader.
WeightOne(m) == IF m = "out" THEN 0 ELSE 1

\* What read_lock (1) and write_lock or mutex_lock (SEM_VALUE) take.
Weight(m) == IF m = "out" THEN 0 ELSE IF m = "read" THEN 1 ELSE SEM_VALUE

\* The parameter check at the head of the six lock and unlock functions.
ValidId(id) == id >= 0 /\ id < SemNum

TypeOK == /\ semval \in [Sem -> 0 .. SEM_VALUE]
          /\ semadj \in [Proc -> [Sem -> 0 .. SEM_VALUE]]
          /\ lock_cnt \in 1 .. SemNum
          /\ issued \in [Id -> Nat]
          /\ inside \in [Proc -> [Id -> Mode]]
          /\ alloc \in [Proc -> AllocState]

-----------------------------------------------------------------------------
\* sem_loc_lock_creat: every semaphore holds SEM_VALUE, lock_cnt is 1.
Init == /\ semval = [s \in Sem |-> SEM_VALUE]
        /\ semadj = [p \in Proc |-> [s \in Sem |-> 0]]
        /\ lock_cnt = 1
        /\ issued = [id \in Id |-> 0]
        /\ inside = [p \in Proc |-> [id \in Id |-> "out"]]
        /\ alloc = [p \in Proc |-> NoAlloc]

\* Mutant: sem_flg without SEM_UNDO.
PSemLockNoUndo(p, s, k) == /\ semval[s] >= k
                           /\ semval' = [semval EXCEPT ![s] = @ - k]
                           /\ UNCHANGED semadj

\* Mutant: IPC_NOWAIT, its EAGAIN ignored.
PSemLockNoWait(p, s, k) == IF semval[s] >= k
                           THEN /\ semval' = [semval EXCEPT ![s] = @ - k]
                                /\ semadj' = [semadj EXCEPT ![p][s] = @ + k]
                           ELSE UNCHANGED <<semval, semadj>>

\* pub_sem_lock: semop with a negative sem_op blocks until the value covers it.
PSemLock(p, s, k) == /\ semval[s] >= k
                     /\ semval' = [semval EXCEPT ![s] = @ - k]
                     /\ semadj' = [semadj EXCEPT ![p][s] = @ + k]

\* pub_sem_unlock: a positive sem_op never blocks.
PSemUnlock(p, s, k) == /\ semval' = [semval EXCEPT ![s] = @ + k]
                       /\ semadj' = [semadj EXCEPT ![p][s] = @ - k]

\* sem_read_lock, sem_write_lock and sem_mutex_lock of an id stored in some
\* table of the shared memory.  An id that fails the parameter check returns
\* SW_ERROR at once; the callers discard the result and go on.
SemLock(p, id, m) ==
    /\ alloc[p].at = "idle" /\ issued[id] > 0 /\ inside[p][id] = "out"
    /\ IF ValidId(id) THEN PSemLock(p, id, Weight(m)) ELSE UNCHANGED <<semval, semadj>>
    /\ inside' = [inside EXCEPT ![p][id] = m]
    /\ UNCHANGED <<lock_cnt, issued, alloc>>

\* Mutant: every unlock is a write unlock.
SemUnlockAll(p, id) ==
    /\ alloc[p].at = "idle" /\ inside[p][id] # "out"
    /\ IF ValidId(id) THEN PSemUnlock(p, id, SEM_VALUE) ELSE UNCHANGED <<semval, semadj>>
    /\ inside' = [inside EXCEPT ![p][id] = "out"]
    /\ UNCHANGED <<lock_cnt, issued, alloc>>

\* sem_read_unlock, sem_write_unlock and sem_mutex_unlock.
SemUnlock(p, id) ==
    /\ alloc[p].at = "idle" /\ inside[p][id] # "out"
    /\ IF ValidId(id) THEN PSemUnlock(p, id, Weight(inside[p][id]))
                      ELSE UNCHANGED <<semval, semadj>>
    /\ inside' = [inside EXCEPT ![p][id] = "out"]
    /\ UNCHANGED <<lock_cnt, issued, alloc>>

\* sem_new_lock_id is called ...
NewLockIdCall(p) ==
    /\ alloc[p].at = "idle"
    /\ alloc' = [alloc EXCEPT ![p].at = "wait"]
    /\ UNCHANGED <<semval, semadj, lock_cnt, issued, inside>>

\* Mutant: the counter without its mutex.
NewLockIdNoLock(p) ==
    /\ alloc[p].at = "wait"
    /\ alloc' = [alloc EXCEPT ![p].at = "locked"]
    /\ UNCHANGED <<semval, semadj, lock_cnt, issued, inside>>

\* ... takes the mutex of semaphore 1 ...
NewLockIdLock(p) ==
    /\ alloc[p].at = "wait"
    /\ PSemLock(p, 1, SEM_VALUE)
    /\ alloc' = [alloc EXCEPT ![p].at = "locked"]
    /\ UNCHANGED <<lock_cnt, issued, inside>>

\* ... loads lock_cnt from the shared memory and compares it with sem_num ...
NewLockIdLoad(p) ==
    /\ alloc[p].at = "locked"
    /\ alloc' = [alloc EXCEPT ![p] =
                   IF lock_cnt < SemNum THEN [at |-> "loaded", cnt |-> lock_cnt]
                                        ELSE [at |-> "stored", cnt |-> 0]]
    /\ UNCHANGED <<semval, semadj, lock_cnt, issued, inside>>

\* ... stores the incremented value, which is the new id ...
NewLockIdStore(p) ==
    /\ alloc[p].at = "loaded"
    /\ lock_cnt' = alloc[p].cnt + 1
    /\ alloc' = [alloc EXCEPT ![p] = [at |-> "stored", cnt |-> @.cnt + 1]]
    /\ UNCHANGED <<semval, semadj, issued, inside>>

\* ... and unlocks; 0 stands for the result -1, "no more lock_id".
NewLockIdReturn(p) ==
    /\ alloc[p].at = "stored"
    /\ PSemUnlock(p, 1, SEM_VALUE)
    /\ issued' = IF alloc[p].cnt = 0 THEN issued
                 ELSE [issued EXCEPT ![alloc[p].cnt] = @ + 1]
    /\ alloc' = [alloc EXCEPT ![p] = NoAlloc]
    /\ UNCHANGED <<lock_cnt, inside>>

\* The process dies anywhere: the kernel adds its semadj values back.
Crash(p) ==
    /\ \/ alloc[p] # NoAlloc
       \/ \E id \in Id : inside[p][id] # "out"
    /\ semval' = [s \in Sem |-> semval[s] + semadj[p][s]]
    /\ semadj' = [semadj EXCEPT ![p] = [s \in Sem |-> 0]]
    /\ inside' = [inside EXCEPT ![p] = [id \in Id |-> "out"]]
    /\ alloc' = [alloc EXCEPT ![p] = NoAlloc]
    /\ UNCHANGED <<lock_cnt, issued>>

NewLockIdStep(p) == NewLockIdLoad(p) \/ NewLockIdStore(p) \/ NewLockIdReturn(p)

Next == \E p \in Proc :
          \/ \E id \in Id : \/ \E m \in {"read", "write"} : SemLock(p, id, m)
                            \/ SemUnlock(p, id)
          \/ NewLockIdCall(p)
          \/ NewLockIdLock(p)
          \/ NewLockIdStep(p)
          \/ Crash(p)

\* A process that holds the mutex of semaphore 1 keeps running (or dies), and
\* the kernel queues blocked semop calls first in first out, so that a mutex
\* which is free again and again is not withheld from one waiter.
Fairness == \A p \in Proc : WF_vars(NewLockIdStep(p)) /\ SF_vars(NewLockIdLock(p))

Spec == Init /\ [][Next]_vars
FairSpec == Spec /\ Fairness
-----------------------------------------------------------------------------
Readers(id) == {p \in Proc : inside[p][id] = "read"}
Writers(id) == {p \in Proc : inside[p][id] = "write"}
Allocators == {p \in Proc : alloc[p].at \in {"locked", "loaded", "stored"}}

Exclusive(id) == Writers(id) # {} => Readers(id) = {} /\ Cardinality(Writers(id)) = 1

\* Readers share, a writer is alone: on every lock id the semaphore set can
\* hold, whatever interleaving of lock, unlock and crash came before
\* (sem_loc_read_lock, sem_loc_write_lock over pub_sem_lock). The last id
\* handed out, SemNum, is one too many and excludes nobody.
RWExclusion == \A id \in Id \cap Sem : Exclusive(id)

\* How the callers see the service: as the reader-writer locks of RWLock, on
\* the ids that pass the parameter check.
RW == INSTANCE RWLock WITH Lock <- Id \cap Sem,
                           mode <- [p \in Proc |-> [id \in Id \cap Sem |-> inside[p][id]]]

\* Whatever the six lock and unlock functions, the kernel's undo and the id
\* allocation do is a step of RWLock or none: a read lock is granted only
\* when nobody writes, a write lock only when nobody is inside, and nothing
\* but its holder's unlock or death ends a critical section.
ImplementsRWLock == RW!Spec

\* The kernel's value accounts exactly for the critical sections entered: no
\* unlock or crash gives back more or less than was taken.
Conservation ==
    \A id \in Id \cap Sem :
        semval[id] = SEM_VALUE - Cardinality(Readers(id)) - SEM_VALUE * Cardinality(Writers(id))

\* sem_loc_new_lock_id: no two calls return the same id, also when a caller
\* dies between its load and its store of lock_cnt.
UniqueIds == \A id \in Id : issued[id] <= 1

\* lock_cnt only grows, by one, and only while the caller is the only process
\* inside sem_loc_new_lock_id.
CountStep == lock_cnt' = lock_cnt + 1 /\ Cardinality(Allocators) = 1
CountGrows == [][lock_cnt' # lock_cnt => CountStep]_vars

\* A call of sem_new_lock_id returns (or its caller dies): nobody is left
\* waiting for the mutex of semaphore 1 by others that die while holding it.
MutexServed == \A p \in Proc : alloc[p].at = "wait" ~> alloc[p].at = "idle"
=============================================================================
