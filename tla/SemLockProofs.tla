--------------------------- MODULE SemLockProofs ---------------------------
(***************************************************************************)
(* Theorems about SemLock for every finite set of processes, every size of *)
(* the semaphore set and every SEM_VALUE.                                  *)
(***************************************************************************)
EXTENDS SemLock, FiniteSetTheorems, TLAPS

\* A semaphore of value v with readers R and writers W: either nobody writes
\* and each reader has taken one, or one writer has taken everything.
Account(v, R, W) == \/ W = {} /\ v = SEM_VALUE - Cardinality(R)
                    \/ R = {} /\ v = 0 /\ \E w : W = {w}

\* Semaphore 0 is never used.
SpareKept == semval[0] = SEM_VALUE /\ \A p \in Proc : semadj[p][0] = 0

\* What SEM_UNDO would give back is what the critical sections took.
UndoExact == \A p \in Proc :
                /\ \A id \in Id \cap Sem : semadj[p][id] = Weight(inside[p][id])
                /\ semadj[p][1] = IF p \in Allocators THEN SEM_VALUE ELSE 0

Accounts == \A id \in Id \cap Sem : Account(semval[id], Readers(id), Writers(id))
MutexAccount == Account(semval[1], {}, Allocators)

\* The process inside sem_new_lock_id works on the current count, and an id
\* above the count, or stored and not yet returned, has not been issued.
IdState == /\ \A id \in Id : issued[id] <= 1 /\ (id > lock_cnt => issued[id] = 0)
           /\ \A p \in Proc :
                /\ alloc[p].at = "loaded" => alloc[p].cnt = lock_cnt /\ lock_cnt < SemNum
                /\ alloc[p].at = "stored" /\ alloc[p].cnt # 0
                     => /\ alloc[p].cnt = lock_cnt /\ lock_cnt \in Id
                        /\ issued[lock_cnt] = 0

IInv == TypeOK /\ SpareKept /\ UndoExact /\ Accounts /\ MutexAccount /\ IdState
-----------------------------------------------------------------------------
\* Any set of processes is finite.
LEMMA FiniteProcs == ASSUME NEW S, S \subseteq Proc PROVE IsFiniteSet(S)
  BY FS_Subset, ProcAssumption

\* sem_read_lock: one more reader takes one.
LEMMA AddReader ==
  ASSUME NEW v \in Int, NEW R, NEW W, NEW p, IsFiniteSet(R), p \notin R,
         Account(v, R, W), v >= 1
  PROVE  Account(v - 1, R \cup {p}, W)
<1>1. v # 0 /\ W = {} /\ v = SEM_VALUE - Cardinality(R)
  BY DEF Account
<1>2. Cardinality(R \cup {p}) = Cardinality(R) + 1
  BY FS_AddElement
<1> QED  BY <1>1, <1>2, FS_CardinalityType, SemValueAssumption DEF Account

\* sem_write_lock: a writer finds the semaphore whole, so nobody is inside.
LEMMA AddWriter ==
  ASSUME NEW v \in Int, NEW R, NEW W, NEW p, IsFiniteSet(R),
         Account(v, R, W), v >= SEM_VALUE
  PROVE  v = SEM_VALUE /\ Account(v - SEM_VALUE, R, W \cup {p})
<1>1. W = {} /\ v = SEM_VALUE - Cardinality(R)
  BY SemValueAssumption DEF Account
<1>2. Cardinality(R) = 0
  BY <1>1, FS_CardinalityType, SemValueAssumption
<1>3. R = {}
  BY <1>2, FS_EmptySet
<1>4. v - SEM_VALUE = 0 /\ v = SEM_VALUE
  BY <1>1, <1>2, SemValueAssumption
<1>5. W \cup {p} = {p}
  BY <1>1
<1> QED  BY <1>3, <1>4, <1>5 DEF Account

\* sem_read_unlock: a reader that leaves gives its one back.
LEMMA DropReader ==
  ASSUME NEW v \in Int, NEW R, NEW W, NEW p, IsFiniteSet(R), p \in R, Account(v, R, W)
  PROVE  Account(v + 1, R \ {p}, W)
<1>1. W = {} /\ v = SEM_VALUE - Cardinality(R)
  BY DEF Account
<1>2. Cardinality(R \ {p}) = Cardinality(R) - 1
  BY FS_RemoveElement
<1> QED  BY <1>1, <1>2, FS_CardinalityType, SemValueAssumption DEF Account

\* sem_write_unlock: the writer gives everything back.
LEMMA DropWriter ==
  ASSUME NEW v \in Int, NEW R, NEW W, NEW p, p \in W, Account(v, R, W)
  PROVE  Account(v + SEM_VALUE, R, W \ {p})
<1>1. R = {} /\ v = 0 /\ W \ {p} = {}
  BY DEF Account
<1> QED  BY <1>1, FS_EmptySet, SemValueAssumption DEF Account

\* The value of an accounted semaphore stays within its initial value.
LEMMA AccountRange ==
  ASSUME NEW v \in Int, NEW R, NEW W, IsFiniteSet(R), Account(v, R, W), v >= 0
  PROVE  v \in 0 .. SEM_VALUE
  BY FS_CardinalityType, SemValueAssumption DEF Account
-----------------------------------------------------------------------------
\* The initial state of sem_loc_lock_creat satisfies the invariant.
LEMMA InitIInv == Init => IInv
<1> SUFFICES ASSUME Init PROVE IInv
  OBVIOUS
<1> USE SemNumAssumption, SemValueAssumption
<1>1. TypeOK
  BY DEF Init, TypeOK, Sem, Id, Mode, NoAlloc, AllocState
<1>2. SpareKept /\ IdState
  BY DEF Init, SpareKept, IdState, Sem, Id, NoAlloc
<1>3. Allocators = {} /\ \A id \in Id : Readers(id) = {} /\ Writers(id) = {}
  BY DEF Init, Allocators, Readers, Writers, NoAlloc
<1>4. UndoExact
  BY <1>3 DEF Init, UndoExact, Weight, Sem, Id
<1>5. Account(SEM_VALUE, {}, {})
  BY FS_EmptySet DEF Account
<1>6. semval[1] = SEM_VALUE /\ \A id \in Sem : semval[id] = SEM_VALUE
  BY DEF Init, Sem
<1>7. Accounts /\ MutexAccount
  BY <1>3, <1>5, <1>6, Zenon DEF Accounts, MutexAccount
<1> QED  BY <1>1, <1>2, <1>4, <1>7 DEF IInv
-----------------------------------------------------------------------------
\* What a section entered or left changes: p joins or leaves the readers and
\* writers of the id, those of the other ids do not change.
SectionChanged(p, id, m) ==
  /\ Readers(id)' = IF m = "read" THEN Readers(id) \cup {p} ELSE Readers(id) \ {p}
  /\ Writers(id)' = IF m = "write" THEN Writers(id) \cup {p} ELSE Writers(id) \ {p}
  /\ \A j \in Id \ {id} : Readers(j)' = Readers(j) /\ Writers(j)' = Writers(j)
  /\ inside' \in [Proc -> [Id -> Mode]]
  /\ inside'[p][id] = m
  /\ \A q \in Proc, j \in Id : q # p \/ j # id => inside'[q][j] = inside[q][j]

\* One critical section entered or left does just that.
LEMMA SectionChange ==
  ASSUME TypeOK, NEW p \in Proc, NEW id \in Id, NEW m \in Mode,
         inside' = [inside EXCEPT ![p][id] = m]
  PROVE  SectionChanged(p, id, m)
<1>1. /\ inside' \in [Proc -> [Id -> Mode]]
      /\ inside'[p][id] = m
      /\ \A q \in Proc, j \in Id : q # p \/ j # id => inside'[q][j] = inside[q][j]
  BY DEF TypeOK
<1>2. Readers(id)' = IF m = "read" THEN Readers(id) \cup {p} ELSE Readers(id) \ {p}
  BY <1>1 DEF Readers
<1>3. Writers(id)' = IF m = "write" THEN Writers(id) \cup {p} ELSE Writers(id) \ {p}
  BY <1>1 DEF Writers
<1>4. \A j \in Id \ {id} : Readers(j)' = Readers(j) /\ Writers(j)' = Writers(j)
  BY <1>1 DEF Readers, Writers
<1> QED  BY <1>1, <1>2, <1>3, <1>4 DEF SectionChanged

\* A lock or an unlock of the lock service: p goes from outside to inside the
\* section of id, or back, and the kernel moves the weight of the section.
SectionMove(p, id, m, v) ==
  /\ inside[p][id] = "out" \/ m = "out"
  /\ inside[p][id] # m
  /\ inside' = [inside EXCEPT ![p][id] = m]
  /\ UNCHANGED <<lock_cnt, issued, alloc>>
  /\ v = Weight(inside[p][id]) - Weight(m)
  /\ id \in Sem => /\ semval[id] + v >= 0
                   /\ semval' = [semval EXCEPT ![id] = @ + v]
                   /\ semadj' = [semadj EXCEPT ![p][id] = @ - v]
  /\ id \notin Sem => UNCHANGED <<semval, semadj>>

\* Such a move keeps the invariant: the accounts follow the readers and writers.
LEMMA SectionStep ==
  ASSUME IInv, NEW p \in Proc, NEW id \in Id, NEW m \in Mode, NEW v \in Int,
         SectionMove(p, id, m, v)
  PROVE  IInv'
<1> SUFFICES
      ASSUME inside[p][id] = "out" \/ m = "out", inside[p][id] # m,
             inside' = [inside EXCEPT ![p][id] = m],
             UNCHANGED <<lock_cnt, issued, alloc>>,
             v = Weight(inside[p][id]) - Weight(m),
             id \in Sem => /\ semval[id] + v >= 0
                           /\ semval' = [semval EXCEPT ![id] = @ + v]
                           /\ semadj' = [semadj EXCEPT ![p][id] = @ - v],
             id \notin Sem => UNCHANGED <<semval, semadj>>
      PROVE  IInv'
  BY DEF SectionMove
<1>1. TypeOK /\ inside[p][id] \in Mode
  BY DEF IInv, TypeOK
<1>a. SectionChanged(p, id, m)
  BY <1>1, SectionChange
<1>2. /\ Readers(id)' = IF m = "read" THEN Readers(id) \cup {p} ELSE Readers(id) \ {p}
      /\ Writers(id)' = IF m = "write" THEN Writers(id) \cup {p} ELSE Writers(id) \ {p}
      /\ \A j \in Id \ {id} : Readers(j)' = Readers(j) /\ Writers(j)' = Writers(j)
      /\ inside' \in [Proc -> [Id -> Mode]]
      /\ inside'[p][id] = m
      /\ \A q \in Proc, j \in Id : q # p \/ j # id => inside'[q][j] = inside[q][j]
  BY <1>a DEF SectionChanged
<1> USE SemNumAssumption, SemValueAssumption
<1>3. Allocators' = Allocators /\ IdState'
  BY DEF IInv, IdState, Allocators
<1>4. id \in Id /\ id # 0 /\ id # 1 /\ 1 \in Sem /\ 0 \in Sem
  BY DEF Id, Sem
<1>5. /\ semval' \in [Sem -> Int]
      /\ \A s \in Sem \ {id} : semval'[s] = semval[s]
      /\ id \in Sem => semval'[id] = semval[id] + v /\ semval'[id] >= 0
  BY <1>1 DEF TypeOK
<1>6. /\ semadj' \in [Proc -> [Sem -> Int]]
      /\ \A q \in Proc, s \in Sem : q # p \/ s # id => semadj'[q][s] = semadj[q][s]
      /\ id \in Sem => semadj'[p][id] = semadj[p][id] - v
  BY <1>1 DEF TypeOK
<1>7. id \in Sem => semadj'[p][id] = Weight(m)
  BY <1>6, <1>1 DEF IInv, UndoExact, Weight, Mode
<1>8. SpareKept' /\ MutexAccount'
  <2>1. SpareKept'
    BY <1>4, <1>5, <1>6 DEF IInv, SpareKept
  <2>2. semval'[1] = semval[1] /\ MutexAccount
    BY <1>4, <1>5 DEF IInv
  <2> QED  BY <2>1, <2>2, <1>3, Zenon DEF MutexAccount
<1>9. UndoExact'
  <2>1. ASSUME NEW q \in Proc, NEW j \in Id \cap Sem PROVE semadj'[q][j] = Weight(inside'[q][j])
    <3>1. CASE q = p /\ j = id
      BY <3>1, <1>2, <1>7
    <3>2. CASE q # p \/ j # id
      BY <3>2, <1>2, <1>6 DEF IInv, UndoExact
    <3> QED  BY <3>1, <3>2
  <2>2. ASSUME NEW q \in Proc PROVE semadj'[q][1] = semadj[q][1]
    BY <1>4, <1>6
  <2>3. \A q \in Proc : semadj'[q][1] = IF q \in Allocators THEN SEM_VALUE ELSE 0
    BY <2>2 DEF IInv, UndoExact
  <2>4. \A q \in Proc : semadj'[q][1] = IF q \in Allocators' THEN SEM_VALUE ELSE 0
    BY <2>3, <1>3
  <2> QED  BY <2>1, <2>4, Zenon DEF UndoExact, Weight
<1>10. Accounts'
  <2>1. ASSUME NEW j \in Id \cap Sem PROVE Account(semval'[j], Readers(j)', Writers(j)')
    <3>1. Account(semval[j], Readers(j), Writers(j))
      BY DEF IInv, Accounts
    <3>2. CASE j # id
      <4>1. semval'[j] = semval[j] /\ Readers(j)' = Readers(j) /\ Writers(j)' = Writers(j)
        BY <3>2, <1>2, <1>5
      <4> QED  BY <3>1, <4>1, Zenon
    <3>3. CASE j = id
      <4>1. id \in Sem /\ semval[id] \in Int
        BY <3>3, <1>1 DEF TypeOK
      <4>2. IsFiniteSet(Readers(id))
        BY FiniteProcs DEF Readers
      <4>3. Account(semval[id], Readers(id), Writers(id))
        BY <3>1, <3>3
      <4>4. CASE m = "read"
        <5>1. p \notin Readers(id) /\ p \notin Writers(id) /\ v = -1
          BY <4>4 DEF Readers, Writers, Weight
        <5>2. Readers(id)' = Readers(id) \cup {p} /\ Writers(id)' = Writers(id)
          BY <5>1, <4>4, <1>2
        <5>3. semval'[id] = semval[id] - 1 /\ semval[id] >= 1
          BY <5>1, <1>5, <4>1
        <5>4. Account(semval[id] - 1, Readers(id) \cup {p}, Writers(id))
          BY <5>1, <5>3, <4>1, <4>2, <4>3, AddReader
        <5> QED  BY <5>2, <5>3, <5>4, <3>3
      <4>5. CASE m = "write"
        <5>1. p \notin Readers(id) /\ p \notin Writers(id) /\ v = -SEM_VALUE
          BY <4>5 DEF Readers, Writers, Weight
        <5>2. Readers(id)' = Readers(id) /\ Writers(id)' = Writers(id) \cup {p}
          BY <5>1, <4>5, <1>2
        <5>3. semval'[id] = semval[id] - SEM_VALUE /\ semval[id] >= SEM_VALUE
          BY <5>1, <1>5, <4>1
        <5>4. Account(semval[id] - SEM_VALUE, Readers(id), Writers(id) \cup {p})
          BY <5>1, <5>3, <4>1, <4>2, <4>3, AddWriter
        <5> QED  BY <5>2, <5>3, <5>4, <3>3
      <4>6. CASE m = "out" /\ inside[p][id] = "read"
        <5>1. p \in Readers(id) /\ p \notin Writers(id) /\ v = 1
          BY <4>6 DEF Readers, Writers, Weight
        <5>2. Readers(id)' = Readers(id) \ {p} /\ Writers(id)' = Writers(id)
          BY <5>1, <4>6, <1>2
        <5>3. semval'[id] = semval[id] + 1
          BY <5>1, <1>5, <4>1
        <5>4. Account(semval[id] + 1, Readers(id) \ {p}, Writers(id))
          BY <5>1, <4>1, <4>2, <4>3, DropReader
        <5> QED  BY <5>2, <5>3, <5>4, <3>3
      <4>7. CASE m = "out" /\ inside[p][id] = "write"
        <5>1. p \notin Readers(id) /\ p \in Writers(id) /\ v = SEM_VALUE
          BY <4>7 DEF Readers, Writers, Weight
        <5>2. Readers(id)' = Readers(id) /\ Writers(id)' = Writers(id) \ {p}
          BY <5>1, <4>7, <1>2
        <5>3. semval'[id] = semval[id] + SEM_VALUE
          BY <5>1, <1>5, <4>1
        <5>4. Account(semval[id] + SEM_VALUE, Readers(id), Writers(id) \ {p})
          BY <5>1, <4>1, <4>3, DropWriter
        <5> QED  BY <5>2, <5>3, <5>4, <3>3
      <4> QED  BY <4>4, <4>5, <4>6, <4>7, <1>1 DEF Mode
    <3> QED  BY <3>2, <3>3
  <2> QED  BY <2>1, Zenon DEF Accounts
<1>11. TypeOK'
  <2>1. \A s \in Sem : semval'[s] >= 0
    BY <1>1, <1>5 DEF TypeOK
  <2>2. ASSUME NEW s \in Sem PROVE semval'[s] \in 0 .. SEM_VALUE
    <3>1. CASE s \in Id
      <4>1. Account(semval'[s], Readers(s)', Writers(s)')
        BY <3>1, <1>10 DEF Accounts
      <4>2. IsFiniteSet(Readers(s)')
        BY FiniteProcs DEF Readers
      <4> QED  BY <4>1, <4>2, <1>5, <2>1, AccountRange
    <3>2. CASE s \notin Id
      BY <3>2, <1>1, <1>4, <1>5 DEF TypeOK
    <3> QED  BY <3>1, <3>2
  <2>3. semval' \in [Sem -> 0 .. SEM_VALUE]
    BY <2>2, <1>5
  <2>4. ASSUME NEW q \in Proc, NEW s \in Sem PROVE semadj'[q][s] \in 0 .. SEM_VALUE
    BY <1>1, <1>6, <1>7 DEF TypeOK, Weight
  <2>5. semadj' \in [Proc -> [Sem -> 0 .. SEM_VALUE]]
    BY <2>4, <1>6
  <2> QED  BY <2>3, <2>5, <1>1, <1>2 DEF TypeOK
<1> QED  BY <1>3, <1>8, <1>9, <1>10, <1>11 DEF IInv

\* sem_read_lock, sem_write_lock and sem_mutex_lock.
LEMMA LockStep ==
  ASSUME IInv, NEW p \in Proc, NEW id \in Id, NEW m \in {"read", "write"}, SemLock(p, id, m)
  PROVE  IInv'
<1> USE SemNumAssumption, SemValueAssumption
<1>0. Weight(inside[p][id]) \in Int /\ Weight(m) \in Int
  BY DEF Weight
<1> PICK v \in Int : v = Weight(inside[p][id]) - Weight(m)
  BY <1>0
<1>1. inside[p][id] = "out" /\ m \in Mode /\ v = 0 - Weight(m)
  BY DEF SemLock, Weight, Mode
<1>2. (id \in Sem) <=> ValidId(id)
  BY DEF Sem, Id, ValidId
<1>3. id \in Sem => semval[id] \in Int /\ semadj[p][id] \in Int
  BY DEF IInv, TypeOK
<1>4. id \in Sem => /\ semval[id] + v >= 0
                    /\ semval' = [semval EXCEPT ![id] = @ + v]
                    /\ semadj' = [semadj EXCEPT ![p][id] = @ - v]
  <2> SUFFICES ASSUME id \in Sem
               PROVE  /\ semval[id] + v >= 0
                      /\ semval' = [semval EXCEPT ![id] = @ + v]
                      /\ semadj' = [semadj EXCEPT ![p][id] = @ - v]
    OBVIOUS
  <2>1. PSemLock(p, id, Weight(m))
    BY <1>2 DEF SemLock
  <2>2. semval[id] + v = semval[id] - Weight(m) /\ semadj[p][id] - v = semadj[p][id] + Weight(m)
    BY <1>0, <1>1, <1>3
  <2>3. semval[id] >= Weight(m) /\ semval' = [semval EXCEPT ![id] = semval[id] - Weight(m)]
    BY <2>1 DEF PSemLock
  <2>4. semadj' = [semadj EXCEPT ![p][id] = semadj[p][id] + Weight(m)]
    BY <2>1 DEF PSemLock
  <2>5. semval[id] + v >= 0
    BY <2>2, <2>3, <1>0, <1>3
  <2> QED  BY <2>2, <2>3, <2>4, <2>5, Zenon
<1>5. id \notin Sem => UNCHANGED <<semval, semadj>>
  BY <1>2 DEF SemLock
<1>6. inside' = [inside EXCEPT ![p][id] = m] /\ UNCHANGED <<lock_cnt, issued, alloc>> /\ inside[p][id] # m
  BY <1>1 DEF SemLock
<1>7. SectionMove(p, id, m, v)
  BY <1>1, <1>4, <1>5, <1>6, Zenon DEF SectionMove
<1> QED  BY <1>1, <1>7, SectionStep

\* sem_read_unlock, sem_write_unlock and sem_mutex_unlock.
LEMMA UnlockStep ==
  ASSUME IInv, NEW p \in Proc, NEW id \in Id, SemUnlock(p, id)
  PROVE  IInv'
<1> USE SemNumAssumption, SemValueAssumption
<1>0. Weight(inside[p][id]) \in Int /\ Weight("out") = 0
  BY DEF Weight
<1> PICK v \in Int : v = Weight(inside[p][id]) - Weight("out")
  BY <1>0
<1>1. /\ inside[p][id] # "out" /\ "out" \in Mode
      /\ v = Weight(inside[p][id]) /\ v >= 0
  BY <1>0 DEF IInv, TypeOK, SemUnlock, Weight, Mode
<1>2. (id \in Sem) <=> ValidId(id)
  BY DEF Sem, Id, ValidId
<1>3. id \in Sem => semval[id] \in Nat
  BY DEF IInv, TypeOK
<1>4. id \in Sem => /\ semval[id] + v >= 0
                    /\ semval' = [semval EXCEPT ![id] = @ + v]
                    /\ semadj' = [semadj EXCEPT ![p][id] = @ - v]
  BY <1>1, <1>2, <1>3 DEF SemUnlock, PSemUnlock
<1>5. id \notin Sem => UNCHANGED <<semval, semadj>>
  BY <1>2 DEF SemUnlock
<1>6. inside' = [inside EXCEPT ![p][id] = "out"] /\ UNCHANGED <<lock_cnt, issued, alloc>>
  BY DEF SemUnlock
<1>7. SectionMove(p, id, "out", v)
  BY <1>1, <1>4, <1>5, <1>6, Zenon DEF SectionMove
<1> QED  BY <1>1, <1>7, SectionStep

\* A step of sem_new_lock_id leaves the other semaphores and their critical
\* sections alone.
LEMMA SectionsKept ==
  ASSUME IInv, UNCHANGED inside,
         \A s \in Sem \ {1} : semval'[s] = semval[s],
         \A q \in Proc, s \in Sem \ {1} : semadj'[q][s] = semadj[q][s]
  PROVE  /\ SpareKept' /\ Accounts'
         /\ \A q \in Proc, id \in Id \cap Sem : semadj'[q][id] = Weight(inside'[q][id])
<1> USE SemNumAssumption, SemValueAssumption
<1>1. \A id \in Id \cap Sem : id # 1 /\ 0 \in Sem \ {1}
  BY DEF Id, Sem
<1>2. SpareKept'
  BY DEF IInv, SpareKept, Sem
<1>3. \A q \in Proc, id \in Id \cap Sem : semadj'[q][id] = Weight(inside'[q][id])
  BY <1>1 DEF IInv, UndoExact
<1>4. ASSUME NEW id \in Id \cap Sem PROVE Account(semval'[id], Readers(id)', Writers(id)')
  <2>1. semval'[id] = semval[id] /\ Readers(id)' = Readers(id) /\ Writers(id)' = Writers(id)
    BY <1>1 DEF Readers, Writers
  <2>2. Account(semval[id], Readers(id), Writers(id))
    BY DEF IInv, Accounts
  <2> QED  BY <2>1, <2>2, Zenon
<1>5. Accounts'
  BY <1>4, Zenon DEF Accounts
<1> QED  BY <1>2, <1>3, <1>5

\* The steps of sem_new_lock_id that take no semaphore.
LEMMA AllocStep ==
  ASSUME IInv, NEW p \in Proc, NewLockIdCall(p) \/ NewLockIdLoad(p) \/ NewLockIdStore(p)
  PROVE  IInv'
<1> USE SemNumAssumption, SemValueAssumption
<1>1. UNCHANGED <<semval, semadj, issued, inside>> /\ TypeOK /\ IdState /\ MutexAccount
  BY DEF IInv, NewLockIdCall, NewLockIdLoad, NewLockIdStore
<1>2. Allocators' = Allocators
  <2>1. \A q \in Proc \ {p} : alloc'[q] = alloc[q]
    BY <1>1 DEF TypeOK, NewLockIdCall, NewLockIdLoad, NewLockIdStore
  <2>2. (alloc[p].at \in {"locked", "loaded", "stored"})
          <=> (alloc'[p].at \in {"locked", "loaded", "stored"})
    BY <1>1 DEF TypeOK, AllocState, NewLockIdCall, NewLockIdLoad, NewLockIdStore
  <2> QED  BY <2>1, <2>2 DEF Allocators
<1>3. /\ SpareKept' /\ Accounts'
      /\ \A q \in Proc, id \in Id \cap Sem : semadj'[q][id] = Weight(inside'[q][id])
  BY <1>1, SectionsKept
<1>4. MutexAccount'
  BY <1>1, <1>2, Zenon DEF MutexAccount
<1>5. UndoExact'
  <2>1. \A q \in Proc : semadj'[q][1] = IF q \in Allocators' THEN SEM_VALUE ELSE 0
    BY <1>1, <1>2 DEF IInv, UndoExact
  <2> QED  BY <2>1, <1>3, Zenon DEF UndoExact
<1>6. \A q \in Proc \ {p} : q \in Allocators => p \notin Allocators
  BY <1>1 DEF MutexAccount, Account
<1>7. TypeOK' /\ IdState'
  <2>1. CASE NewLockIdCall(p)
    BY <2>1, <1>1 DEF NewLockIdCall, TypeOK, AllocState, IdState
  <2>2. CASE NewLockIdLoad(p)
    BY <2>2, <1>1 DEF NewLockIdLoad, TypeOK, AllocState, IdState
  <2>3. CASE NewLockIdStore(p)
    <3>1. p \in Allocators /\ alloc[p].cnt = lock_cnt /\ lock_cnt < SemNum /\ lock_cnt \in 1 .. SemNum
      BY <2>3, <1>1 DEF NewLockIdStore, Allocators, IdState, TypeOK
    <3>2. /\ lock_cnt' = lock_cnt + 1 /\ lock_cnt' \in Id /\ lock_cnt' \in 1 .. SemNum
          /\ issued[lock_cnt'] = 0
      BY <3>1, <2>3, <1>1 DEF NewLockIdStore, Id, IdState
    <3>3. /\ alloc' \in [Proc -> AllocState]
          /\ alloc'[p].at = "stored" /\ alloc'[p].cnt = lock_cnt'
          /\ \A q \in Proc \ {p} : alloc'[q] = alloc[q] /\ q \notin Allocators
      BY <3>1, <3>2, <2>3, <1>1, <1>6 DEF NewLockIdStore, TypeOK, AllocState
    <3>4. TypeOK'
      BY <3>2, <3>3, <1>1 DEF TypeOK
    <3>5. \A id \in Id : issued'[id] <= 1 /\ (id > lock_cnt' => issued'[id] = 0)
      BY <3>1, <3>2, <1>1 DEF IdState, Id
    <3>6. \A q \in Proc \ {p} : alloc'[q].at \notin {"loaded", "stored"}
      BY <3>3 DEF Allocators
    <3> QED  BY <3>2, <3>3, <3>4, <3>5, <3>6, <1>1 DEF IdState
  <2> QED  BY <2>1, <2>2, <2>3
<1> QED  BY <1>3, <1>4, <1>5, <1>7 DEF IInv

\* sem_new_lock_id takes the mutex of semaphore 1: it finds it whole.
LEMMA MutexLockStep ==
  ASSUME IInv, NEW p \in Proc, NewLockIdLock(p)
  PROVE  IInv'
<1> USE SemNumAssumption, SemValueAssumption
<1>0. 1 \in Sem /\ TypeOK /\ IdState /\ semval[1] \in Int
  BY DEF IInv, TypeOK, Sem
<1>1. 1 \in Sem /\ TypeOK /\ semval[1] \in Int /\ semval[1] >= SEM_VALUE /\ p \notin Allocators
  BY <1>0 DEF NewLockIdLock, PSemLock, Allocators
<1>2. Account(semval[1], {}, Allocators)
  BY DEF IInv, MutexAccount
<1>3. semval[1] = SEM_VALUE /\ Account(semval[1] - SEM_VALUE, {}, Allocators \cup {p})
  BY <1>1, <1>2, AddWriter, FS_EmptySet
<1>4. /\ semval' = [semval EXCEPT ![1] = semval[1] - SEM_VALUE]
      /\ semadj' = [semadj EXCEPT ![p][1] = semadj[p][1] + SEM_VALUE]
      /\ alloc' = [alloc EXCEPT ![p].at = "locked"]
      /\ UNCHANGED <<lock_cnt, issued, inside>>
  BY DEF NewLockIdLock, PSemLock
<1>5. Allocators' = Allocators \cup {p}
  BY <1>1, <1>4 DEF Allocators, TypeOK, AllocState
<1>6. /\ semval' \in [Sem -> 0 .. SEM_VALUE] /\ semval'[1] = semval[1] - SEM_VALUE
      /\ \A s \in Sem \ {1} : semval'[s] = semval[s]
  BY <1>1, <1>3, <1>4 DEF TypeOK
<1>7. semadj[p][1] = 0
  BY <1>1 DEF IInv, UndoExact
<1>8. /\ semadj' \in [Proc -> [Sem -> 0 .. SEM_VALUE]] /\ semadj'[p][1] = SEM_VALUE
      /\ \A q \in Proc, s \in Sem : q # p \/ s # 1 => semadj'[q][s] = semadj[q][s]
  BY <1>1, <1>4, <1>7 DEF TypeOK
<1>9. /\ SpareKept' /\ Accounts'
      /\ \A q \in Proc, id \in Id \cap Sem : semadj'[q][id] = Weight(inside'[q][id])
  BY <1>4, <1>6, <1>8, SectionsKept
<1>10. MutexAccount'
  BY <1>3, <1>5, <1>6, Zenon DEF MutexAccount
<1>11. \A q \in Proc : semadj'[q][1] = IF q \in Allocators' THEN SEM_VALUE ELSE 0
  BY <1>1, <1>5, <1>8 DEF IInv, UndoExact
<1>12. UndoExact'
  BY <1>9, <1>11, Zenon DEF UndoExact
<1>13. /\ alloc' \in [Proc -> AllocState] /\ alloc'[p].at = "locked"
       /\ \A q \in Proc \ {p} : alloc'[q] = alloc[q]
  BY <1>0, <1>4 DEF TypeOK, AllocState
<1>14. TypeOK'
  BY <1>0, <1>4, <1>6, <1>8, <1>13 DEF TypeOK
<1>15. IdState'
  BY <1>0, <1>4, <1>13 DEF IdState
<1> QED  BY <1>9, <1>10, <1>12, <1>14, <1>15 DEF IInv

\* sem_new_lock_id gives the mutex back and returns the id it stored.
LEMMA MutexUnlockStep ==
  ASSUME IInv, NEW p \in Proc, NewLockIdReturn(p)
  PROVE  IInv'
<1> USE SemNumAssumption, SemValueAssumption
<1>1. 1 \in Sem /\ TypeOK /\ IdState /\ semval[1] \in Int /\ p \in Allocators
  BY DEF IInv, TypeOK, Sem, NewLockIdReturn, Allocators
<1>2. Account(semval[1], {}, Allocators)
  BY DEF IInv, MutexAccount
<1>3. semval[1] = 0 /\ Allocators \ {p} = {} /\ Account(semval[1] + SEM_VALUE, {}, Allocators \ {p})
  BY <1>1, <1>2, DropWriter DEF Account
<1>4. /\ semval' = [semval EXCEPT ![1] = semval[1] + SEM_VALUE]
      /\ semadj' = [semadj EXCEPT ![p][1] = semadj[p][1] - SEM_VALUE]
      /\ alloc' = [alloc EXCEPT ![p] = NoAlloc]
      /\ UNCHANGED <<lock_cnt, inside>>
  BY DEF NewLockIdReturn, PSemUnlock
<1>5. Allocators' = Allocators \ {p}
  BY <1>1, <1>4 DEF Allocators, TypeOK, AllocState, NoAlloc
<1>6. /\ semval' \in [Sem -> 0 .. SEM_VALUE] /\ semval'[1] = semval[1] + SEM_VALUE
      /\ \A s \in Sem \ {1} : semval'[s] = semval[s]
  BY <1>1, <1>3, <1>4 DEF TypeOK
<1>7. semadj[p][1] = SEM_VALUE
  BY <1>1 DEF IInv, UndoExact
<1>8. /\ semadj' \in [Proc -> [Sem -> 0 .. SEM_VALUE]] /\ semadj'[p][1] = 0
      /\ \A q \in Proc, s \in Sem : q # p \/ s # 1 => semadj'[q][s] = semadj[q][s]
  BY <1>1, <1>4, <1>7 DEF TypeOK
<1>9. /\ SpareKept' /\ Accounts'
      /\ \A q \in Proc, id \in Id \cap Sem : semadj'[q][id] = Weight(inside'[q][id])
  BY <1>4, <1>6, <1>8, SectionsKept
<1>10. MutexAccount'
  BY <1>3, <1>5, <1>6, Zenon DEF MutexAccount
<1>11. \A q \in Proc : semadj'[q][1] = IF q \in Allocators' THEN SEM_VALUE ELSE 0
  BY <1>1, <1>5, <1>8 DEF IInv, UndoExact
<1>12. UndoExact'
  BY <1>9, <1>11, Zenon DEF UndoExact
<1>13. TypeOK' /\ IdState'
  <2>1. alloc[p].cnt # 0 => alloc[p].cnt = lock_cnt /\ lock_cnt \in Id /\ issued[lock_cnt] = 0
    BY <1>1 DEF IdState, NewLockIdReturn
  <2>2. /\ issued' \in [Id -> Nat]
        /\ \A id \in Id : id # lock_cnt => issued'[id] = issued[id]
        /\ lock_cnt \in Id => issued'[lock_cnt] <= 1
    BY <1>1, <2>1 DEF NewLockIdReturn, TypeOK, IdState
  <2>3. \A q \in Proc : alloc'[q].at \notin {"loaded", "stored"}
    BY <1>3, <1>5 DEF Allocators
  <2>4. TypeOK'
    BY <1>1, <1>4, <1>6, <1>8, <2>2 DEF TypeOK, AllocState, NoAlloc
  <2>5. \A id \in Id : issued'[id] <= 1 /\ (id > lock_cnt' => issued'[id] = 0)
    BY <1>1, <1>4, <2>2 DEF IdState, TypeOK, Id
  <2> QED  BY <2>3, <2>4, <2>5 DEF IdState
<1> QED  BY <1>9, <1>10, <1>12, <1>13 DEF IInv

\* A process dies: what the kernel gives back on each semaphore is what its
\* critical section there had taken.
LEMMA CrashStep ==
  ASSUME IInv, NEW p \in Proc, Crash(p)
  PROVE  IInv'
<1> USE SemNumAssumption, SemValueAssumption
<1>1. 1 \in Sem /\ 0 \in Sem /\ TypeOK /\ IdState /\ UndoExact /\ Accounts /\ MutexAccount /\ SpareKept
  BY DEF IInv, Sem
<1>2. /\ semval' = [s \in Sem |-> semval[s] + semadj[p][s]]
      /\ semadj' = [semadj EXCEPT ![p] = [s \in Sem |-> 0]]
      /\ inside' = [inside EXCEPT ![p] = [id \in Id |-> "out"]]
      /\ alloc' = [alloc EXCEPT ![p] = NoAlloc]
      /\ UNCHANGED <<lock_cnt, issued>>
  BY DEF Crash
<1>3. /\ semval' \in [Sem -> Int]
      /\ \A s \in Sem : semval'[s] = semval[s] + semadj[p][s] /\ semval'[s] >= 0
  BY <1>1, <1>2 DEF TypeOK
<1>4. /\ semadj' \in [Proc -> [Sem -> 0 .. SEM_VALUE]]
      /\ \A s \in Sem : semadj'[p][s] = 0
      /\ \A q \in Proc \ {p}, s \in Sem : semadj'[q][s] = semadj[q][s]
  BY <1>1, <1>2 DEF TypeOK
<1>5. /\ inside' \in [Proc -> [Id -> Mode]]
      /\ \A id \in Id : inside'[p][id] = "out"
      /\ \A q \in Proc \ {p}, id \in Id : inside'[q][id] = inside[q][id]
  BY <1>1, <1>2 DEF TypeOK, Mode
<1>6. /\ alloc' \in [Proc -> AllocState] /\ alloc'[p] = NoAlloc
      /\ \A q \in Proc \ {p} : alloc'[q] = alloc[q]
  BY <1>1, <1>2 DEF TypeOK, AllocState, NoAlloc
<1>7. Allocators' = Allocators \ {p}
  BY <1>6 DEF Allocators, NoAlloc
<1>8. Accounts'
  <2>1. ASSUME NEW id \in Id \cap Sem PROVE Account(semval'[id], Readers(id)', Writers(id)')
    <3>1. Readers(id)' = Readers(id) \ {p} /\ Writers(id)' = Writers(id) \ {p}
      BY <1>5 DEF Readers, Writers
    <3>2. semval'[id] = semval[id] + Weight(inside[p][id]) /\ semval[id] \in Int
      BY <1>1, <1>3 DEF UndoExact, TypeOK
    <3>3. Account(semval[id], Readers(id), Writers(id)) /\ IsFiniteSet(Readers(id))
      BY <1>1, FiniteProcs DEF Accounts, Readers
    <3>4. CASE inside[p][id] = "out"
      <4>1. Readers(id)' = Readers(id) /\ Writers(id)' = Writers(id) /\ semval'[id] = semval[id]
        BY <3>1, <3>2, <3>4 DEF Readers, Writers, Weight
      <4> QED  BY <4>1, <3>3, Zenon
    <3>5. CASE inside[p][id] = "read"
      <4>1. Writers(id)' = Writers(id) /\ p \in Readers(id) /\ semval'[id] = semval[id] + 1
        BY <3>1, <3>2, <3>5 DEF Readers, Writers, Weight
      <4> QED  BY <4>1, <3>1, <3>2, <3>3, DropReader
    <3>6. CASE inside[p][id] = "write"
      <4>1. Readers(id)' = Readers(id) /\ p \in Writers(id) /\ semval'[id] = semval[id] + SEM_VALUE
        BY <3>1, <3>2, <3>6 DEF Readers, Writers, Weight
      <4> QED  BY <4>1, <3>1, <3>2, <3>3, DropWriter
    <3> QED  BY <3>4, <3>5, <3>6, <1>1 DEF TypeOK, Mode
  <2> QED  BY <2>1, Zenon DEF Accounts
<1>9. MutexAccount'
  <2>1. Account(semval[1], {}, Allocators) /\ semval[1] \in Int
    BY <1>1 DEF MutexAccount, TypeOK
  <2>2. CASE p \in Allocators
    <3>1. semval'[1] = semval[1] + SEM_VALUE
      BY <2>2, <1>1, <1>3 DEF UndoExact
    <3>2. Account(semval[1] + SEM_VALUE, {}, Allocators \ {p})
      BY <2>1, <2>2, DropWriter
    <3> QED  BY <3>1, <3>2, <1>7, Zenon DEF MutexAccount
  <2>3. CASE p \notin Allocators
    <3>1. semval'[1] = semval[1]
      BY <2>1, <2>3, <1>1, <1>3 DEF UndoExact
    <3>2. Allocators' = Allocators
      BY <2>3, <1>7
    <3> QED  BY <3>1, <3>2, <2>1, Zenon DEF MutexAccount
  <2> QED  BY <2>2, <2>3
<1>10. UndoExact'
  <2>1. \A q \in Proc, id \in Id \cap Sem : semadj'[q][id] = Weight(inside'[q][id])
    BY <1>1, <1>4, <1>5 DEF UndoExact, Weight
  <2>2. \A q \in Proc : semadj'[q][1] = IF q \in Allocators' THEN SEM_VALUE ELSE 0
    BY <1>1, <1>4, <1>7 DEF UndoExact
  <2> QED  BY <2>1, <2>2, Zenon DEF UndoExact
<1>11. TypeOK'
  <2>1. ASSUME NEW s \in Sem PROVE semval'[s] \in 0 .. SEM_VALUE
    <3>1. CASE s \in Id
      <4>1. Account(semval'[s], Readers(s)', Writers(s)') /\ IsFiniteSet(Readers(s)')
        BY <3>1, <1>8, FiniteProcs DEF Accounts, Readers
      <4> QED  BY <4>1, <1>3, AccountRange
    <3>2. CASE s = 1
      <4>1. Account(semval'[1], {}, Allocators')
        BY <1>9 DEF MutexAccount
      <4> QED  BY <3>2, <4>1, <1>3, AccountRange, FS_EmptySet
    <3>3. CASE s = 0
      BY <3>3, <1>1, <1>3 DEF SpareKept
    <3> QED  BY <3>1, <3>2, <3>3 DEF Sem, Id
  <2> QED  BY <2>1, <1>1, <1>2, <1>3, <1>4, <1>5, <1>6 DEF TypeOK
<1>12. SpareKept'
  BY <1>1, <1>3, <1>4 DEF SpareKept
<1>13. IdState'
  BY <1>1, <1>2, <1>6 DEF IdState, NoAlloc
<1> QED  BY <1>8, <1>9, <1>10, <1>11, <1>12, <1>13 DEF IInv
-----------------------------------------------------------------------------
\* Every step of every process keeps the invariant.
LEMMA NextIInv == IInv /\ [Next]_vars => IInv'
<1> SUFFICES ASSUME IInv, [Next]_vars PROVE IInv'
  OBVIOUS
<1>1. CASE UNCHANGED vars
  BY <1>1 DEF vars, IInv, TypeOK, SpareKept, UndoExact, Accounts, MutexAccount, IdState,
              Readers, Writers, Allocators
<1>2. ASSUME NEW p \in Proc, NEW id \in Id, NEW m \in {"read", "write"}, SemLock(p, id, m)
      PROVE  IInv'
  BY <1>2, LockStep
<1>3. ASSUME NEW p \in Proc, NEW id \in Id, SemUnlock(p, id) PROVE IInv'
  BY <1>3, UnlockStep
<1>4. ASSUME NEW p \in Proc, NewLockIdCall(p) \/ NewLockIdLoad(p) \/ NewLockIdStore(p) PROVE IInv'
  BY <1>4, AllocStep
<1>5. ASSUME NEW p \in Proc, NewLockIdLock(p) PROVE IInv'
  BY <1>5, MutexLockStep
<1>6. ASSUME NEW p \in Proc, NewLockIdReturn(p) PROVE IInv'
  BY <1>6, MutexUnlockStep
<1>7. ASSUME NEW p \in Proc, Crash(p) PROVE IInv'
  BY <1>7, CrashStep
<1> QED  BY <1>1, <1>2, <1>3, <1>4, <1>5, <1>6, <1>7, Zenon DEF Next, NewLockIdStep

\* The invariant holds in every reachable state of the lock service.
THEOREM Invariance == Spec => []IInv
  BY InitIInv, NextIInv, PTL DEF Spec

\* Type correctness: the semaphores stay between 0 and SEM_VALUE.
THEOREM TypeCorrect == Spec => []TypeOK
<1>1. IInv => TypeOK
  BY DEF IInv
<1> QED  BY <1>1, Invariance, PTL

\* A writer is alone on every lock id that the semaphore set holds.
THEOREM Exclusion == Spec => []RWExclusion
<1>1. IInv => RWExclusion
  <2> SUFFICES ASSUME IInv, NEW id \in Id \cap Sem PROVE Exclusive(id)
    BY DEF RWExclusion
  <2>1. Account(semval[id], Readers(id), Writers(id))
    BY DEF IInv, Accounts
  <2> QED  BY <2>1, FS_Singleton DEF Account, Exclusive
<1> QED  BY <1>1, Invariance, PTL

\* The semaphore's value accounts for its readers and writers.
THEOREM Conserved == Spec => []Conservation
<1>1. IInv => Conservation
  <2> SUFFICES ASSUME IInv, NEW id \in Id \cap Sem
               PROVE  semval[id] = SEM_VALUE - Cardinality(Readers(id))
                                     - SEM_VALUE * Cardinality(Writers(id))
    BY DEF Conservation
  <2>1. Account(semval[id], Readers(id), Writers(id))
    BY DEF IInv, Accounts
  <2>2. IsFiniteSet(Readers(id)) /\ Cardinality(Readers(id)) \in Nat
    BY FiniteProcs, FS_CardinalityType DEF Readers
  <2>3. CASE Writers(id) = {} /\ semval[id] = SEM_VALUE - Cardinality(Readers(id))
    BY <2>2, <2>3, FS_EmptySet, SemValueAssumption
  <2>4. CASE Readers(id) = {} /\ semval[id] = 0 /\ \E w : Writers(id) = {w}
    <3>1. Cardinality(Readers(id)) = 0 /\ Cardinality(Writers(id)) = 1
      BY <2>4, FS_EmptySet, FS_Singleton, Zenon
    <3> QED  BY <2>4, <3>1, SemValueAssumption
  <2> QED  BY <2>1, <2>3, <2>4 DEF Account
<1> QED  BY <1>1, Invariance, PTL

\* No lock id is returned twice by sem_new_lock_id.
THEOREM IdsUnique == Spec => []UniqueIds
<1>1. IInv => UniqueIds
  BY DEF IInv, IdState, UniqueIds
<1> QED  BY <1>1, Invariance, PTL

\* lock_cnt moves by one, under the mutex of semaphore 1 alone.
THEOREM CountMoves == Spec => CountGrows
<1> USE SemNumAssumption, SemValueAssumption
<1>1. IInv /\ [Next]_vars => [lock_cnt' # lock_cnt => CountStep]_vars
  <2> SUFFICES ASSUME IInv, Next, lock_cnt' # lock_cnt PROVE CountStep
    BY DEF vars
  <2>1. PICK p \in Proc : NewLockIdStore(p)
    BY DEF Next, SemLock, SemUnlock, NewLockIdCall, NewLockIdLock, NewLockIdStep,
           NewLockIdLoad, NewLockIdReturn, Crash
  <2>2. p \in Allocators /\ alloc[p].cnt = lock_cnt
    BY <2>1 DEF NewLockIdStore, Allocators, IInv, IdState
  <2>3. Allocators = {p}
    BY <2>2 DEF IInv, MutexAccount, Account
  <2>4. Cardinality(Allocators) = 1
    BY <2>3, FS_Singleton
  <2> QED  BY <2>1, <2>2, <2>4 DEF NewLockIdStore, CountStep
<1> QED  BY <1>1, Invariance, PTL DEF Spec, CountGrows

-----------------------------------------------------------------------------
\* The critical sections as RWLock sees them.
Held == [p \in Proc |-> [id \in Id \cap Sem |-> inside[p][id]]]

\* A lock that SemLock grants is one that RWLock may grant.
LEMMA LockRefines ==
  ASSUME IInv, NEW p \in Proc, NEW id \in Id, NEW m \in {"read", "write"}, SemLock(p, id, m)
  PROVE  RW!Next \/ UNCHANGED Held
<1> USE SemNumAssumption, SemValueAssumption
<1>1. inside \in [Proc -> [Id -> Mode]] /\ inside' = [inside EXCEPT ![p][id] = m]
      /\ inside[p][id] = "out"
  BY DEF SemLock, IInv, TypeOK
<1>2. CASE id \notin Sem
  <2>1. Held' = Held
    BY <1>1, <1>2 DEF Held
  <2> QED  BY <2>1
<1>3. CASE id \in Sem
  <2>1. semval[id] >= Weight(m) /\ semval[id] \in Int
    BY <1>3 DEF SemLock, ValidId, PSemLock, Sem, IInv, TypeOK
  <2>2. Account(semval[id], Readers(id), Writers(id)) /\ id \in Id \cap Sem
    BY <1>3 DEF IInv, Accounts
  <2>3. IsFiniteSet(Readers(id)) /\ Cardinality(Readers(id)) \in Nat
    BY FiniteProcs, FS_CardinalityType DEF Readers
  <2>4. Writers(id) = {}
    BY <2>1, <2>2 DEF Account, Weight
  <2>5. \A q \in Proc : Held[q][id] # "write"
    BY <2>2, <2>4 DEF Held, Writers
  <2>6. Held' = [Held EXCEPT ![p][id] = m] /\ Held[p][id] = "out"
    BY <1>1, <2>2 DEF Held
  <2>7. CASE m = "read"
    <3>1. RW!Read(p, id)
      BY <2>5, <2>6, <2>7 DEF RW!Read, Held
    <3> QED  BY <2>2, <3>1 DEF RW!Next
  <2>8. CASE m = "write"
    <3>1. Cardinality(Readers(id)) = 0
      BY <2>1, <2>2, <2>3, <2>4, <2>8 DEF Account, Weight
    <3>2. Readers(id) = {}
      BY <2>3, <3>1, FS_EmptySet
    <3>3. \A q \in Proc : Held[q][id] = "out"
      BY <1>1, <2>2, <2>4, <3>2 DEF Held, Readers, Writers, Mode
    <3>4. RW!Write(p, id)
      BY <2>6, <2>8, <3>3 DEF RW!Write, Held
    <3> QED  BY <2>2, <3>4 DEF RW!Next
  <2> QED  BY <2>7, <2>8
<1> QED  BY <1>2, <1>3

\* An unlock is the release of RWLock.
LEMMA UnlockRefines ==
  ASSUME IInv, NEW p \in Proc, NEW id \in Id, SemUnlock(p, id)
  PROVE  RW!Next \/ UNCHANGED Held
<1>1. inside \in [Proc -> [Id -> Mode]] /\ inside' = [inside EXCEPT ![p][id] = "out"]
      /\ inside[p][id] # "out"
  BY DEF SemUnlock, IInv, TypeOK
<1>2. CASE id \notin Sem
  <2>1. Held' = Held
    BY <1>1, <1>2 DEF Held
  <2> QED  BY <2>1
<1>3. CASE id \in Sem
  <2>1. Held' = [Held EXCEPT ![p][id] = "out"] /\ Held[p][id] # "out" /\ id \in Id \cap Sem
    BY <1>1, <1>3 DEF Held
  <2>2. RW!Release(p, id)
    BY <2>1 DEF RW!Release, Held
  <2> QED  BY <2>1, <2>2 DEF RW!Next
<1> QED  BY <1>2, <1>3

\* A death releases everything, in SemLock as in RWLock.
LEMMA CrashRefines ==
  ASSUME IInv, NEW p \in Proc, Crash(p)
  PROVE  RW!Next \/ UNCHANGED Held
<1>1. inside \in [Proc -> [Id -> Mode]]
      /\ inside' = [inside EXCEPT ![p] = [id \in Id |-> "out"]]
  BY DEF Crash, IInv, TypeOK
<1>2. Held' = [Held EXCEPT ![p] = [id \in Id \cap Sem |-> "out"]]
  BY <1>1 DEF Held
<1>3. RW!Die(p)
  BY <1>2 DEF RW!Die, RW!Free, Held
<1> QED  BY <1>3 DEF RW!Next

\* The semaphores of sem_lock.c implement reader-writer locks that survive
\* the death of their holders.
THEOREM Refinement == Spec => ImplementsRWLock
<1>1. Init => RW!Init
  BY DEF Init, RW!Init, RW!Free
<1>2. IInv /\ [Next]_vars => [RW!Next]_Held
  <2> SUFFICES ASSUME IInv, [Next]_vars PROVE RW!Next \/ UNCHANGED Held
    OBVIOUS
  <2>1. ASSUME UNCHANGED inside PROVE UNCHANGED Held
    BY <2>1 DEF Held
  <2>2. CASE UNCHANGED vars
    BY <2>1, <2>2 DEF vars
  <2>3. ASSUME NEW p \in Proc, NEW id \in Id, NEW m \in {"read", "write"}, SemLock(p, id, m)
        PROVE  RW!Next \/ UNCHANGED Held
    BY <2>3, LockRefines
  <2>4. ASSUME NEW p \in Proc, NEW id \in Id, SemUnlock(p, id)
        PROVE  RW!Next \/ UNCHANGED Held
    BY <2>4, UnlockRefines
  <2>5. ASSUME NEW p \in Proc, NewLockIdCall(p) \/ NewLockIdLock(p) \/ NewLockIdStep(p)
        PROVE  RW!Next \/ UNCHANGED Held
    BY <2>1, <2>5 DEF NewLockIdCall, NewLockIdLock, NewLockIdStep, NewLockIdLoad,
                      NewLockIdStore, NewLockIdReturn
  <2>6. ASSUME NEW p \in Proc, Crash(p) PROVE RW!Next \/ UNCHANGED Held
    BY <2>6, CrashRefines
  <2> QED  BY <2>2, <2>3, <2>4, <2>5, <2>6, Zenon DEF Next
<1> QED  BY <1>1, <1>2, Invariance, PTL DEF Spec, ImplementsRWLock, RW!Spec, Held
=============================================================================
