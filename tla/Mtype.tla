------------------------------- MODULE Mtype -------------------------------
(***************************************************************************)
(* The session table of core/mtype.c.  Every request of the switch owns an *)
(* mtype, a slot of a table in shared memory, from mtype_new to            *)
(* mtype_delete.  Slots and counters change under one mutex (SemLock), but *)
(* the scan's starting point is read, and a new slot's left-over variables *)
(* are destroyed, outside it.  A slot whose owner vanished is taken over   *)
(* after MTYPE_TIMEOUT (three hours).  A node is zeroed before it is       *)
(* marked: a process that dies in between leaves a flag that is none of    *)
(* MTYPE_IDLE, MTYPE_USED and MTYPE_TAIL, and no scan gets past it.        *)
(*                                                                         *)
(* The admission counters that mtype_new and mtype_delete also change      *)
(* (core/mtype_limit.c) are added by MtypeLimit.  The statistics msg_cnt,  *)
(* succ_cnt and fail_cnt, which nothing reads back, are left out.          *)
(***************************************************************************)
EXTENDS Integers, FiniteSets

CONSTANTS Proc,        \* processes that open and close sessions
          None,        \* no process
          MtypeMax,    \* head.mtype_max
          MaxCrash     \* bound: how many processes die

ASSUME ProcAssumption == None \notin Proc
ASSUME MaxAssumption == MtypeMax \in Nat /\ MtypeMax > 1
ASSUME CrashAssumption == MaxCrash \in Nat

VARIABLES flag,        \* item[m].flag
          old,         \* item[m].start_time is more than MTYPE_TIMEOUT ago
          vars,        \* who created the shared variables of m, if any
          cur_cnt, cur_use,
          lock,        \* holder of head.lock_id
          loc,         \* a process's place in a function and its locals
          held,        \* sessions a process opened and has not closed
          stolen,      \* some session was taken over from a living owner
          torn,        \* processes that died between the mark and the count
          wiped,       \* processes that died between the zeroing and the mark
          crashes

ghost == <<stolen, torn, wiped, crashes>>
all == <<flag, old, vars, cur_cnt, cur_use, lock, loc, held, ghost>>

Slot == 1 .. MtypeMax
\* The last slot is the sentinel MTYPE_TAIL and never becomes a session.
Session == 1 .. MtypeMax - 1
At == {"idle", "new", "reclaim", "recount", "found", "zeroed", "taken", "clean",
       "del_mark", "info_zero", "info_mark"}
Idle == [at |-> "idle", m |-> 0, idx |-> 0]

Used == {m \in Slot : flag[m] = "USED"}
Owns(p) == held[p] \cup (IF loc[p].at \in {"taken", "clean"} THEN {loc[p].m} ELSE {})

TypeOK == /\ flag \in [Slot -> {"IDLE", "USED", "TAIL", "ZERO"}]
          /\ \A m \in Slot : flag[m] = "TAIL" <=> m = MtypeMax
          /\ old \in [Slot -> BOOLEAN]
          /\ vars \in [Slot -> Proc \cup {None}]
          /\ cur_cnt \in Int /\ cur_use \in 0 .. MtypeMax - 1
          /\ lock \in Proc \cup {None}
          /\ loc \in [Proc -> [at : At, m : 0 .. MtypeMax - 1, idx : 0 .. MtypeMax - 1]]
          /\ held \in [Proc -> SUBSET Session]
          /\ stolen \in BOOLEAN /\ torn \in Nat /\ wiped \in Nat /\ crashes \in 0 .. MaxCrash

-----------------------------------------------------------------------------
\* mtype_loc_init
Init == /\ flag = [m \in Slot |-> IF m = MtypeMax THEN "TAIL" ELSE "IDLE"]
        /\ old = [m \in Slot |-> FALSE]
        /\ vars = [m \in Slot |-> None]
        /\ cur_cnt = 0 /\ cur_use = 0 /\ lock = None
        /\ loc = [p \in Proc |-> Idle]
        /\ held = [p \in Proc |-> {}]
        /\ stolen = FALSE /\ torn = 0 /\ wiped = 0 /\ crashes = 0

Goto(p, r) == loc' = [loc EXCEPT ![p] = r]

\* Mutant: the mutex does not exclude.
LockNoWait(p) == lock' = p

\* sem_mutex_lock and sem_mutex_unlock of head.lock_id: the mutex of SemLock.
Lock(p) == lock = None /\ lock' = p
Unlock(p) == lock = p /\ lock' = None

-----------------------------------------------------------------------------
(* mtype_loc_new *)

\* The starting point of the scan is read before the mutex is taken.
NewCall(p) == /\ loc[p].at = "idle"
              /\ Goto(p, [at |-> "new", m |-> 0, idx |-> cur_use])
              /\ UNCHANGED <<flag, old, vars, cur_cnt, cur_use, lock, held, ghost>>

\* Mutant: whatever is not in use is free, the sentinel too.
TakeableTail(m) == flag[m] \in {"IDLE", "TAIL"} \/ (flag[m] = "USED" /\ old[m])

\* A slot the scan takes: free, or in use for longer than MTYPE_TIMEOUT.
Takeable(m) == flag[m] = "IDLE" \/ (flag[m] = "USED" /\ old[m])

\* A slot that was zeroed and never marked: the scan's error branch.
Broken(m) == flag[m] = "ZERO"

\* Mutant: the scan gives up at the sentinel.
CandidatesNoWrap(idx) == {m \in idx + 1 .. MtypeMax : Takeable(m) \/ Broken(m)}

\* Mutant: a scan that never looks at the age of a slot.
CandidatesNoAge(idx) == LET ahead == {m \in idx + 1 .. MtypeMax : flag[m] \in {"IDLE", "ZERO"}}
                        IN  IF ahead # {} THEN ahead
                            ELSE {m \in 1 .. idx : flag[m] \in {"IDLE", "ZERO"}}

\* Where the scan stops: from the starting point up to the sentinel, then
\* among the slots before it.
Candidates(idx) == LET ahead == {m \in idx + 1 .. MtypeMax : Takeable(m) \/ Broken(m)}
                   IN  IF ahead # {} THEN ahead
                       ELSE {m \in 1 .. idx : Takeable(m) \/ Broken(m)}
First(m, idx) == m \in Candidates(idx) /\ \A n \in Candidates(idx) : m <= n

\* The mutex is taken and the first slot of the scan found; a slot over age
\* has to be freed first.
NewFind(p) ==
    /\ loc[p].at = "new" /\ Lock(p)
    /\ \E m \in Slot :
         /\ First(m, loc[p].idx) /\ Takeable(m)
         /\ Goto(p, [at |-> IF flag[m] = "USED" THEN "reclaim" ELSE "found", m |-> m, idx |-> 0])
         /\ stolen' = (stolen \/ (flag[m] = "USED" /\ \E q \in Proc : m \in Owns(q)))
    /\ UNCHANGED <<flag, old, vars, cur_cnt, cur_use, held, torn, wiped, crashes>>

\* No slot, or one with a flag that cannot be: unlock, return SW_ERROR, and
\* mtype_new prints the table and raises an alert.
NewNone(p) ==
    /\ loc[p].at = "new" /\ lock = None
    /\ \/ Candidates(loc[p].idx) = {}
       \/ \E m \in Slot : First(m, loc[p].idx) /\ Broken(m)
    /\ Goto(p, Idle)
    /\ UNCHANGED <<flag, old, vars, cur_cnt, cur_use, lock, held, ghost>>

\* The slot over age becomes idle ...
NewReclaim(p) ==
    /\ loc[p].at = "reclaim"
    /\ flag' = [flag EXCEPT ![loc[p].m] = "IDLE"]
    /\ Goto(p, [loc[p] EXCEPT !.at = "recount"])
    /\ UNCHANGED <<old, vars, cur_cnt, cur_use, lock, held, ghost>>

\* ... and is no longer counted.
NewRecount(p) ==
    /\ loc[p].at = "recount"
    /\ cur_cnt' = cur_cnt - 1
    /\ Goto(p, [loc[p] EXCEPT !.at = "found"])
    /\ UNCHANGED <<flag, old, vars, cur_use, lock, held, ghost>>

\* The node is zeroed, its flag and its start_time too ...
NewZero(p) ==
    /\ loc[p].at = "found"
    /\ flag' = [flag EXCEPT ![loc[p].m] = "ZERO"]
    /\ Goto(p, [loc[p] EXCEPT !.at = "zeroed"])
    /\ UNCHANGED <<old, vars, cur_cnt, cur_use, lock, held, ghost>>

\* ... then marked used, and its start_time is now.
NewTake(p) ==
    /\ loc[p].at = "zeroed"
    /\ flag' = [flag EXCEPT ![loc[p].m] = "USED"]
    /\ old' = [old EXCEPT ![loc[p].m] = FALSE]
    /\ Goto(p, [loc[p] EXCEPT !.at = "taken"])
    /\ UNCHANGED <<vars, cur_cnt, cur_use, lock, held, ghost>>

\* The head is updated and the mutex released.
NewCount(p) ==
    /\ loc[p].at = "taken" /\ Unlock(p)
    /\ cur_cnt' = cur_cnt + 1
    /\ cur_use' = loc[p].m
    /\ Goto(p, [loc[p] EXCEPT !.at = "clean"])
    /\ UNCHANGED <<flag, old, vars, held, ghost>>

\* Mutant: the left-over variables are kept.
NewReturnDirty(p) ==
    /\ loc[p].at = "clean"
    /\ held' = [held EXCEPT ![p] = @ \cup {loc[p].m}]
    /\ Goto(p, Idle)
    /\ UNCHANGED <<flag, old, vars, cur_cnt, cur_use, lock, ghost>>

\* pub_vars_destroy_by_mtype after the unlock, and the return.
NewReturn(p) ==
    /\ loc[p].at = "clean"
    /\ vars' = [vars EXCEPT ![loc[p].m] = None]
    /\ held' = [held EXCEPT ![p] = @ \cup {loc[p].m}]
    /\ Goto(p, Idle)
    /\ UNCHANGED <<flag, old, cur_cnt, cur_use, lock, ghost>>

-----------------------------------------------------------------------------
(* The life of a session in the hands of its owner. *)

\* The listener creates the request's variables in shared memory under m.
CreateVars(p, m) ==
    /\ loc[p].at = "idle" /\ m \in held[p] /\ vars[m] # p
    /\ vars' = [vars EXCEPT ![m] = p]
    /\ UNCHANGED <<flag, old, cur_cnt, cur_use, lock, loc, held, ghost>>

\* mtype_save_link_info without a business number restarts the age.
SaveLinkInfo(p, m) ==
    /\ loc[p].at = "idle" /\ m \in held[p] /\ old[m]
    /\ old' = [old EXCEPT ![m] = FALSE]
    /\ UNCHANGED <<flag, vars, cur_cnt, cur_use, lock, loc, held, ghost>>

\* Time passes: m becomes older than MTYPE_TIMEOUT.
Age(m) == /\ flag[m] = "USED" /\ ~old[m]
          /\ old' = [old EXCEPT ![m] = TRUE]
          /\ UNCHANGED <<flag, vars, cur_cnt, cur_use, lock, loc, held, ghost>>

-----------------------------------------------------------------------------
(* mtype_loc_delete and mtype_loc_delete_info *)

\* Mutant: the slot is freed without a look at its flag.
DeleteMarkBlind(p, m) ==
    /\ loc[p].at = "idle" /\ m \in held[p] /\ Lock(p)
    /\ flag' = [flag EXCEPT ![m] = "IDLE"]
    /\ Goto(p, [at |-> "del_mark", m |-> m, idx |-> 0])
    /\ held' = [held EXCEPT ![p] = @ \ {m}]
    /\ UNCHANGED <<old, vars, cur_cnt, cur_use, ghost>>

\* Under the mutex: a slot that is not in use is an error, otherwise idle.
DeleteMark(p, m) ==
    /\ loc[p].at = "idle" /\ m \in held[p]
    /\ IF flag[m] = "USED"
       THEN /\ Lock(p)
            /\ flag' = [flag EXCEPT ![m] = "IDLE"]
            /\ Goto(p, [at |-> "del_mark", m |-> m, idx |-> 0])
       ELSE lock = None /\ UNCHANGED <<flag, loc, lock>>
    /\ held' = [held EXCEPT ![p] = @ \ {m}]
    /\ UNCHANGED <<old, vars, cur_cnt, cur_use, ghost>>

DeleteCount(p) ==
    /\ loc[p].at = "del_mark" /\ Unlock(p)
    /\ cur_cnt' = cur_cnt - 1
    /\ vars' = [vars EXCEPT ![loc[p].m] = None]
    /\ Goto(p, Idle)
    /\ UNCHANGED <<flag, old, cur_use, held, ghost>>

\* mtype_delete_info zeroes the node and leaves the variables alone; a slot
\* that is not in use is an error and nothing changes.
DeleteInfoZero(p, m) ==
    /\ loc[p].at = "idle" /\ m \in held[p] /\ flag[m] = "USED" /\ Lock(p)
    /\ flag' = [flag EXCEPT ![m] = "ZERO"]
    /\ Goto(p, [at |-> "info_zero", m |-> m, idx |-> 0])
    /\ held' = [held EXCEPT ![p] = @ \ {m}]
    /\ UNCHANGED <<old, vars, cur_cnt, cur_use, ghost>>

DeleteInfoMark(p) ==
    /\ loc[p].at = "info_zero"
    /\ flag' = [flag EXCEPT ![loc[p].m] = "IDLE"]
    /\ Goto(p, [loc[p] EXCEPT !.at = "info_mark"])
    /\ UNCHANGED <<old, vars, cur_cnt, cur_use, lock, held, ghost>>

DeleteInfoCount(p) ==
    /\ loc[p].at = "info_mark" /\ Unlock(p)
    /\ cur_cnt' = cur_cnt - 1
    /\ Goto(p, Idle)
    /\ UNCHANGED <<flag, old, vars, cur_use, held, ghost>>

-----------------------------------------------------------------------------
\* A process dies anywhere; SEM_UNDO releases the mutex.  Its sessions stay.
Crash(p) == /\ loc[p].at # "idle" \/ held[p] # {}
            /\ crashes < MaxCrash /\ crashes' = crashes + 1
            /\ lock' = IF lock = p THEN None ELSE lock
            /\ torn' = IF loc[p].at \in {"recount", "taken", "del_mark", "info_zero", "info_mark"}
                       THEN torn + 1 ELSE torn
            /\ wiped' = IF loc[p].at \in {"zeroed", "info_zero"} THEN wiped + 1 ELSE wiped
            /\ Goto(p, Idle)
            /\ held' = [held EXCEPT ![p] = {}]
            /\ UNCHANGED <<flag, old, vars, cur_cnt, cur_use, stolen>>

NewStep(p) == \/ NewReclaim(p) \/ NewRecount(p) \/ NewZero(p) \/ NewTake(p) \/ NewCount(p)
              \/ NewReturn(p)
DeleteStep(p) == DeleteCount(p) \/ DeleteInfoMark(p) \/ DeleteInfoCount(p)
OwnerStep(p, m) == \/ CreateVars(p, m) \/ SaveLinkInfo(p, m)
                   \/ DeleteMark(p, m) \/ DeleteInfoZero(p, m)

Next == \/ \E p \in Proc : \/ NewCall(p) \/ NewFind(p) \/ NewNone(p) \/ NewStep(p)
                           \/ DeleteStep(p) \/ Crash(p)
                           \/ \E m \in Session : OwnerStep(p, m)
        \/ \E m \in Session : Age(m)

\* Time passes, the mutex is granted to each waiter in its turn (the kernel's
\* queue), functions run to their end, and requests keep coming.
Fairness == /\ \A m \in Session : WF_all(Age(m))
            /\ \A p \in Proc : /\ WF_all(NewCall(p) \/ NewStep(p) \/ DeleteStep(p))
                               /\ SF_all(NewFind(p) \/ NewNone(p))

Spec == Init /\ [][Next]_all
FairSpec == Spec /\ Fairness
-----------------------------------------------------------------------------
\* cur_cnt counts the slots in use, up to one for each process that died
\* between the two updates of a critical section (mtype.c: 215-217, 284-288,
\* 478-489).
CountDrift == lock = None => cur_cnt - Cardinality(Used) \in -torn .. torn

\* A session belongs to one process from mtype_new to mtype_delete: nobody
\* else is given the slot, and it stays marked, unless the owner kept it for
\* longer than MTYPE_TIMEOUT and it was taken over.
SessionOwned == ~stolen => \A p \in Proc : \A m \in Owns(p) :
                              flag[m] = "USED" /\ \A q \in Proc \ {p} : m \notin Owns(q)

\* A request never sees the shared variables of an earlier one in its slot,
\* although a dead owner and mtype_delete_info leave them behind.
VarsOwned == ~stolen => \A p \in Proc : \A m \in held[p] : vars[m] \in {None, p}

\* mtype_new fails only when every slot before the sentinel is in use and
\* younger than MTYPE_TIMEOUT, wherever the scan started; or it met a slot
\* that a process zeroed and did not live to mark (mtype.c: 229-234, 266-271),
\* and it never does before such a death.
FailsWhenFull == [][\A p \in Proc : loc[p].at = "new" /\ loc'[p].at = "idle" /\ crashes' = crashes
                       => \/ \A m \in Session : flag[m] = "USED" /\ ~old[m]
                          \/ wiped > 0 /\ \E m \in Session : Broken(m)]_all

Leaked(m) == flag[m] = "USED" /\ \A p \in Proc : m \notin Owns(p)

\* The slot of a process that died is taken over in the end: the scan comes
\* by every slot as long as sessions are opened and no process died between
\* the zeroing and the mark of a slot.  After such a death the broken slot
\* stops every scan that reaches it, and what lies beyond is never taken over.
LeakReclaimed == \A m \in Session : Leaked(m) ~> (~Leaked(m) \/ wiped > 0)
=============================================================================
