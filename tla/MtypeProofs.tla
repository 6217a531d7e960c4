---------------------------- MODULE MtypeProofs ----------------------------
(***************************************************************************)
(* The session table keeps sessions apart and counts them, for every       *)
(* number of processes and slots and any number of deaths.                 *)
(*                                                                         *)
(* Who is between two writes of a critical section has the mutex (Mutex)   *)
(* and its slot is marked as that place says (Marks).  A slot that is      *)
(* being searched has no owner, unless a living one was overtaken          *)
(* (Unowned).  The counter is off by what the section under way has yet to *)
(* add or to subtract (Pending) and by one per process that died there.    *)
(***************************************************************************)
EXTENDS Mtype, TLAPS, FiniteSetTheorems

\* Who is in a critical section has the mutex, and nobody else.
Inside == {"reclaim", "recount", "found", "zeroed", "taken", "del_mark", "info_zero", "info_mark"}
Mutex == \A p \in Proc : loc[p].at \in Inside <=> lock = p

\* The slot a process works on, and its mark at that place.
Marks == \A p \in Proc :
           /\ loc[p].at \in Inside \cup {"clean"} => loc[p].m \in Session
           /\ loc[p].at \in {"recount", "found", "del_mark", "info_mark"} => flag[loc[p].m] = "IDLE"
           /\ loc[p].at \in {"reclaim", "taken"} => flag[loc[p].m] = "USED"
           /\ loc[p].at \in {"zeroed", "info_zero"} => flag[loc[p].m] = "ZERO"

IInv == TypeOK /\ Mutex /\ Marks

USE ProcAssumption, MaxAssumption, CrashAssumption

-----------------------------------------------------------------------------
LEMMA TypeInit == Init => TypeOK
<1> SUFFICES ASSUME Init PROVE TypeOK
  OBVIOUS
<1>1. /\ flag \in [Slot -> {"IDLE", "USED", "TAIL", "ZERO"}]
      /\ \A m \in Slot : flag[m] = "TAIL" <=> m = MtypeMax
  BY DEF Init, Slot
<1>2. loc \in [Proc -> [at : At, m : 0 .. MtypeMax - 1, idx : 0 .. MtypeMax - 1]]
  BY DEF Init, Idle, At
<1>3. /\ old \in [Slot -> BOOLEAN] /\ stolen \in BOOLEAN
  BY DEF Init
<1>4. /\ vars \in [Slot -> Proc \cup {None}] /\ held \in [Proc -> SUBSET Session]
      /\ lock \in Proc \cup {None}
  BY DEF Init
<1>5. /\ cur_cnt \in Int /\ cur_use \in 0 .. MtypeMax - 1
      /\ torn \in Nat /\ wiped \in Nat /\ crashes \in 0 .. MaxCrash
  BY DEF Init
<1> QED BY <1>1, <1>2, <1>3, <1>4, <1>5 DEF TypeOK

\* The slot a scan finds is one before the sentinel.
LEMMA FoundSession ==
  ASSUME TypeOK, NEW m \in Slot, Takeable(m) \/ Broken(m)
  PROVE  m \in Session /\ (Takeable(m) => flag[m] \in {"IDLE", "USED"})
BY DEF TypeOK, Takeable, Broken, Slot, Session

LEMMA TypeStep == IInv /\ [Next]_all => TypeOK'
<1> SUFFICES ASSUME IInv, [Next]_all PROVE TypeOK'
  OBVIOUS
<1> USE DEF IInv, Goto, Idle, At
<1>1. ASSUME NEW p \in Proc, NewCall(p) PROVE TypeOK'
  BY <1>1 DEF NewCall, TypeOK, ghost
<1>2. ASSUME NEW p \in Proc, NewFind(p) PROVE TypeOK'
  <2>1. PICK m \in Slot :
          /\ Takeable(m)
          /\ loc' = [loc EXCEPT ![p] = [at |-> IF flag[m] = "USED" THEN "reclaim" ELSE "found",
                                        m |-> m, idx |-> 0]]
    BY <1>2 DEF NewFind
  <2>2. m \in 0 .. MtypeMax - 1
    BY <2>1, FoundSession DEF Session
  <2>3. stolen' \in BOOLEAN
    BY <1>2 DEF NewFind, TypeOK
  <2>4. lock' = p /\ UNCHANGED <<flag, old, vars, cur_cnt, cur_use, held, torn, wiped, crashes>>
    BY <1>2 DEF NewFind, Lock
  <2> QED BY <2>1, <2>2, <2>3, <2>4 DEF TypeOK
<1>3. ASSUME NEW p \in Proc, NewNone(p) PROVE TypeOK'
  BY <1>3 DEF NewNone, TypeOK, ghost
<1>4. ASSUME NEW p \in Proc, NewReclaim(p) PROVE TypeOK'
  <2>1. loc[p].m \in Session
    BY <1>4 DEF NewReclaim, Marks, Inside
  <2>2. /\ flag' \in [Slot -> {"IDLE", "USED", "TAIL", "ZERO"}]
        /\ \A m \in Slot : flag'[m] = "TAIL" <=> m = MtypeMax
    BY <1>4, <2>1 DEF NewReclaim, TypeOK, Slot, Session
  <2>3. /\ loc' \in [Proc -> [at : At, m : 0 .. MtypeMax - 1, idx : 0 .. MtypeMax - 1]]
        /\ UNCHANGED <<old, vars, cur_cnt, cur_use, lock, held, ghost>>
    BY <1>4 DEF NewReclaim, TypeOK
  <2> QED BY <2>2, <2>3 DEF TypeOK, ghost
<1>5. ASSUME NEW p \in Proc, NewRecount(p) PROVE TypeOK'
  BY <1>5 DEF NewRecount, TypeOK, ghost
<1>6. ASSUME NEW p \in Proc, NewTake(p) PROVE TypeOK'
  <2>1. loc[p].m \in Session
    BY <1>6 DEF NewTake, Marks, Inside
  <2>2. /\ flag' \in [Slot -> {"IDLE", "USED", "TAIL", "ZERO"}]
        /\ \A m \in Slot : flag'[m] = "TAIL" <=> m = MtypeMax
    BY <1>6, <2>1 DEF NewTake, TypeOK, Slot, Session
  <2>3. /\ loc' \in [Proc -> [at : At, m : 0 .. MtypeMax - 1, idx : 0 .. MtypeMax - 1]]
        /\ UNCHANGED <<vars, cur_cnt, cur_use, lock, held, ghost>>
    BY <1>6 DEF NewTake, TypeOK
  <2>4. old' \in [Slot -> BOOLEAN]
    BY <1>6 DEF NewTake, TypeOK
  <2> QED BY <2>2, <2>3, <2>4 DEF TypeOK, ghost
<1>7. ASSUME NEW p \in Proc, NewCount(p) PROVE TypeOK'
  BY <1>7 DEF NewCount, Unlock, TypeOK, ghost
<1>8. ASSUME NEW p \in Proc, NewReturn(p) PROVE TypeOK'
  <2>1. held' \in [Proc -> SUBSET Session]
    BY <1>8 DEF NewReturn, TypeOK, Marks
  <2>2. vars' \in [Slot -> Proc \cup {None}]
    BY <1>8 DEF NewReturn, TypeOK
  <2>3. /\ loc' \in [Proc -> [at : At, m : 0 .. MtypeMax - 1, idx : 0 .. MtypeMax - 1]]
        /\ UNCHANGED <<flag, old, cur_cnt, cur_use, lock, ghost>>
    BY <1>8 DEF NewReturn, TypeOK
  <2> QED BY <2>1, <2>2, <2>3 DEF TypeOK, ghost
<1>9. ASSUME NEW p \in Proc, NEW m \in Session, OwnerStep(p, m) PROVE TypeOK'
  <2>1. CASE CreateVars(p, m)
    BY <2>1 DEF CreateVars, TypeOK, ghost
  <2>2. CASE SaveLinkInfo(p, m)
    BY <2>2 DEF SaveLinkInfo, TypeOK, ghost
  <2>3. CASE DeleteMark(p, m)
    <3>1. /\ flag' \in [Slot -> {"IDLE", "USED", "TAIL", "ZERO"}]
          /\ \A n \in Slot : flag'[n] = "TAIL" <=> n = MtypeMax
      BY <2>3 DEF DeleteMark, TypeOK, Slot, Session
    <3>2. /\ loc' \in [Proc -> [at : At, m : 0 .. MtypeMax - 1, idx : 0 .. MtypeMax - 1]]
          /\ lock' \in Proc \cup {None}
      <4>1. CASE flag[m] = "USED"
        BY <2>3, <4>1 DEF DeleteMark, Lock, TypeOK, Session
      <4>2. CASE flag[m] # "USED"
        BY <2>3, <4>2 DEF DeleteMark, TypeOK
      <4> QED BY <4>1, <4>2
    <3>3. held' \in [Proc -> SUBSET Session] /\ UNCHANGED <<old, vars, cur_cnt, cur_use, ghost>>
      BY <2>3 DEF DeleteMark, TypeOK
    <3> QED BY <3>1, <3>2, <3>3 DEF TypeOK, ghost
  <2>4. CASE DeleteInfoZero(p, m)
    BY <2>4 DEF DeleteInfoZero, Lock, TypeOK, ghost, Slot, Session
  <2> QED BY <1>9, <2>1, <2>2, <2>3, <2>4 DEF OwnerStep
<1>10. ASSUME NEW p \in Proc, DeleteCount(p) PROVE TypeOK'
  <2>1. vars' \in [Slot -> Proc \cup {None}] /\ lock' \in Proc \cup {None}
    BY <1>10 DEF DeleteCount, Unlock, TypeOK
  <2>2. /\ loc' \in [Proc -> [at : At, m : 0 .. MtypeMax - 1, idx : 0 .. MtypeMax - 1]]
        /\ cur_cnt' \in Int
    BY <1>10 DEF DeleteCount, TypeOK
  <2>3. UNCHANGED <<flag, old, cur_use, held, ghost>>
    BY <1>10 DEF DeleteCount
  <2> QED BY <2>1, <2>2, <2>3 DEF TypeOK, ghost
<1>11. ASSUME NEW p \in Proc, DeleteInfoCount(p) PROVE TypeOK'
  BY <1>11 DEF DeleteInfoCount, Unlock, TypeOK, ghost
<1>12. ASSUME NEW p \in Proc, Crash(p) PROVE TypeOK'
  BY <1>12 DEF Crash, TypeOK
<1>13. ASSUME NEW m \in Session, Age(m) PROVE TypeOK'
  BY <1>13 DEF Age, TypeOK, ghost
<1>15. ASSUME NEW p \in Proc, NewZero(p) PROVE TypeOK'
  <2>1. loc[p].m \in Session
    BY <1>15 DEF NewZero, Marks, Inside
  <2>2. /\ flag' \in [Slot -> {"IDLE", "USED", "TAIL", "ZERO"}]
        /\ \A m \in Slot : flag'[m] = "TAIL" <=> m = MtypeMax
    BY <1>15, <2>1 DEF NewZero, TypeOK, Slot, Session
  <2>3. /\ loc' \in [Proc -> [at : At, m : 0 .. MtypeMax - 1, idx : 0 .. MtypeMax - 1]]
        /\ UNCHANGED <<old, vars, cur_cnt, cur_use, lock, held, ghost>>
    BY <1>15 DEF NewZero, TypeOK
  <2> QED BY <2>2, <2>3 DEF TypeOK, ghost
<1>16. ASSUME NEW p \in Proc, DeleteInfoMark(p) PROVE TypeOK'
  <2>1. loc[p].m \in Session
    BY <1>16 DEF DeleteInfoMark, Marks, Inside
  <2>2. /\ flag' \in [Slot -> {"IDLE", "USED", "TAIL", "ZERO"}]
        /\ \A m \in Slot : flag'[m] = "TAIL" <=> m = MtypeMax
    BY <1>16, <2>1 DEF DeleteInfoMark, TypeOK, Slot, Session
  <2>3. /\ loc' \in [Proc -> [at : At, m : 0 .. MtypeMax - 1, idx : 0 .. MtypeMax - 1]]
        /\ UNCHANGED <<old, vars, cur_cnt, cur_use, lock, held, ghost>>
    BY <1>16 DEF DeleteInfoMark, TypeOK
  <2> QED BY <2>2, <2>3 DEF TypeOK, ghost
<1>14. CASE UNCHANGED all
  BY <1>14 DEF all, ghost, TypeOK
<1> QED BY <1>1, <1>2, <1>3, <1>4, <1>5, <1>6, <1>7, <1>8, <1>9, <1>10, <1>11, <1>12, <1>13, <1>14,
        <1>15, <1>16 DEF Next, NewStep, DeleteStep

-----------------------------------------------------------------------------
(* The mutex and the marks *)

LEMMA InvInit == Init => IInv
BY TypeInit DEF Init, IInv, Mutex, Marks, Inside, Idle

\* A step of one process leaves the others where they are.
LEMMA Others ==
  ASSUME TypeOK, NEW p \in Proc, NEW r, Goto(p, r)
  PROVE  loc'[p] = r /\ \A q \in Proc : q # p => loc'[q] = loc[q]
BY DEF TypeOK, Goto

\* The scan goes on to reclaim the slot or to take it.
LEMMA FindLoc ==
  ASSUME TypeOK, NEW p \in Proc, NewFind(p)
  PROVE  /\ loc[p].at = "new" /\ loc'[p].at \in {"reclaim", "found"}
         /\ \A q \in Proc : q # p => loc'[q] = loc[q]
<1>1. PICK m \in Slot :
        Goto(p, [at |-> IF flag[m] = "USED" THEN "reclaim" ELSE "found", m |-> m, idx |-> 0])
  BY DEF NewFind
<1>2. /\ loc'[p] = [at |-> IF flag[m] = "USED" THEN "reclaim" ELSE "found", m |-> m, idx |-> 0]
      /\ \A q \in Proc : q # p => loc'[q] = loc[q]
  BY <1>1, Others
<1> QED BY <1>2 DEF NewFind

LEMMA InvStep == IInv /\ [Next]_all => IInv'
<1> SUFFICES ASSUME IInv, [Next]_all PROVE Mutex' /\ Marks'
  BY TypeStep DEF IInv
<1> USE DEF IInv, Inside
<1>0. TypeOK
  OBVIOUS
<1>1. ASSUME NEW p \in Proc, NewCall(p) PROVE Mutex' /\ Marks'
  BY <1>0, <1>1, Others DEF NewCall, Mutex, Marks
<1>2. ASSUME NEW p \in Proc, NewFind(p) PROVE Mutex' /\ Marks'
  <2>1. PICK m \in Slot :
          /\ Takeable(m)
          /\ Goto(p, [at |-> IF flag[m] = "USED" THEN "reclaim" ELSE "found", m |-> m, idx |-> 0])
    BY <1>2 DEF NewFind
  <2>2. m \in Session /\ flag[m] \in {"IDLE", "USED"}
    BY <1>0, <2>1, FoundSession
  <2>3. lock = None /\ lock' = p /\ flag' = flag
    BY <1>2 DEF NewFind, Lock
  <2>4. /\ loc'[p] = [at |-> IF flag[m] = "USED" THEN "reclaim" ELSE "found", m |-> m, idx |-> 0]
        /\ \A q \in Proc : q # p => loc'[q] = loc[q]
    BY <1>0, <2>1, Others
  <2> QED BY <2>2, <2>3, <2>4 DEF Mutex, Marks
<1>3. ASSUME NEW p \in Proc, NewNone(p) PROVE Mutex' /\ Marks'
  BY <1>0, <1>3, Others DEF NewNone, Mutex, Marks, Idle
<1>4. ASSUME NEW p \in Proc, NewReclaim(p) PROVE Mutex' /\ Marks'
  <2>1. loc[p].m \in Session /\ lock = p /\ lock' = lock
    BY <1>4 DEF NewReclaim, Mutex, Marks
  <2>2. /\ loc'[p].at = "recount" /\ loc'[p].m = loc[p].m
        /\ \A q \in Proc : q # p => loc'[q] = loc[q]
    BY <1>0, <1>4, Others DEF NewReclaim, TypeOK
  <2>3. flag' = [flag EXCEPT ![loc[p].m] = "IDLE"] /\ flag'[loc[p].m] = "IDLE"
    BY <1>4, <2>1 DEF NewReclaim, TypeOK, Session, Slot
  <2>4. \A q \in Proc : q # p => loc[q].at \notin Inside
    BY <2>1 DEF Mutex
  <2> QED BY <2>1, <2>2, <2>3, <2>4 DEF Mutex, Marks
<1>5. ASSUME NEW p \in Proc, NewRecount(p) PROVE Mutex' /\ Marks'
  BY <1>0, <1>5, Others DEF NewRecount, Mutex, Marks, TypeOK
<1>6. ASSUME NEW p \in Proc, NewTake(p) PROVE Mutex' /\ Marks'
  <2>1. loc[p].m \in Session /\ lock = p /\ lock' = lock
    BY <1>6 DEF NewTake, Mutex, Marks
  <2>2. /\ loc'[p].at = "taken" /\ loc'[p].m = loc[p].m
        /\ \A q \in Proc : q # p => loc'[q] = loc[q]
    BY <1>0, <1>6, Others DEF NewTake, TypeOK
  <2>3. flag' = [flag EXCEPT ![loc[p].m] = "USED"] /\ flag'[loc[p].m] = "USED"
    BY <1>6, <2>1 DEF NewTake, TypeOK, Session, Slot
  <2>4. \A q \in Proc : q # p => loc[q].at \notin Inside
    BY <2>1 DEF Mutex
  <2> QED BY <2>1, <2>2, <2>3, <2>4 DEF Mutex, Marks
<1>7. ASSUME NEW p \in Proc, NewCount(p) PROVE Mutex' /\ Marks'
  BY <1>0, <1>7, Others DEF NewCount, Unlock, Mutex, Marks, TypeOK
<1>8. ASSUME NEW p \in Proc, NewReturn(p) PROVE Mutex' /\ Marks'
  BY <1>0, <1>8, Others DEF NewReturn, Mutex, Marks, Idle
<1>9. ASSUME NEW p \in Proc, NEW m \in Session, OwnerStep(p, m) PROVE Mutex' /\ Marks'
  <2>1. CASE CreateVars(p, m) \/ SaveLinkInfo(p, m)
    BY <2>1 DEF CreateVars, SaveLinkInfo, Mutex, Marks
  <2>2. CASE DeleteMark(p, m)
    <3>1. CASE flag[m] = "USED"
      BY <1>0, <2>2, <3>1, Others DEF DeleteMark, Lock, Mutex, Marks, TypeOK, Session, Slot
    <3>2. CASE flag[m] # "USED"
      BY <2>2, <3>2 DEF DeleteMark, Mutex, Marks
    <3> QED BY <3>1, <3>2
  <2>3. CASE DeleteInfoZero(p, m)
    <3>1. lock = None /\ lock' = p
      BY <2>3 DEF DeleteInfoZero, Lock
    <3>2. /\ loc'[p].at = "info_zero" /\ loc'[p].m = m
          /\ \A q \in Proc : q # p => loc'[q] = loc[q]
      BY <1>0, <2>3, Others DEF DeleteInfoZero
    <3>3. flag' = [flag EXCEPT ![m] = "ZERO"] /\ flag'[m] = "ZERO"
      BY <2>3 DEF DeleteInfoZero, TypeOK, Session, Slot
    <3>4. \A q \in Proc : loc[q].at \notin Inside
      BY <3>1 DEF Mutex
    <3> QED BY <3>1, <3>2, <3>3, <3>4 DEF Mutex, Marks
  <2> QED BY <1>9, <2>1, <2>2, <2>3 DEF OwnerStep
<1>10. ASSUME NEW p \in Proc, DeleteCount(p) \/ DeleteInfoCount(p) PROVE Mutex' /\ Marks'
  BY <1>0, <1>10, Others DEF DeleteCount, DeleteInfoCount, Unlock, Mutex, Marks, Idle
<1>11. ASSUME NEW p \in Proc, Crash(p) PROVE Mutex' /\ Marks'
  BY <1>0, <1>11, Others DEF Crash, Mutex, Marks, Idle
<1>13. ASSUME NEW p \in Proc, NewZero(p) PROVE Mutex' /\ Marks'
  <2>1. loc[p].m \in Session /\ lock = p /\ lock' = lock
    BY <1>13 DEF NewZero, Mutex, Marks
  <2>2. /\ loc'[p].at = "zeroed" /\ loc'[p].m = loc[p].m
        /\ \A q \in Proc : q # p => loc'[q] = loc[q]
    BY <1>0, <1>13, Others DEF NewZero, TypeOK
  <2>3. flag' = [flag EXCEPT ![loc[p].m] = "ZERO"] /\ flag'[loc[p].m] = "ZERO"
    BY <1>13, <2>1 DEF NewZero, TypeOK, Session, Slot
  <2>4. \A q \in Proc : q # p => loc[q].at \notin Inside
    BY <2>1 DEF Mutex
  <2> QED BY <2>1, <2>2, <2>3, <2>4 DEF Mutex, Marks
<1>14. ASSUME NEW p \in Proc, DeleteInfoMark(p) PROVE Mutex' /\ Marks'
  <2>1. loc[p].m \in Session /\ lock = p /\ lock' = lock
    BY <1>14 DEF DeleteInfoMark, Mutex, Marks
  <2>2. /\ loc'[p].at = "info_mark" /\ loc'[p].m = loc[p].m
        /\ \A q \in Proc : q # p => loc'[q] = loc[q]
    BY <1>0, <1>14, Others DEF DeleteInfoMark, TypeOK
  <2>3. flag' = [flag EXCEPT ![loc[p].m] = "IDLE"] /\ flag'[loc[p].m] = "IDLE"
    BY <1>14, <2>1 DEF DeleteInfoMark, TypeOK, Session, Slot
  <2>4. \A q \in Proc : q # p => loc[q].at \notin Inside
    BY <2>1 DEF Mutex
  <2> QED BY <2>1, <2>2, <2>3, <2>4 DEF Mutex, Marks
<1>12. CASE (\E m \in Session : Age(m)) \/ UNCHANGED all
  BY <1>12 DEF Age, all, Mutex, Marks
<1> QED BY <1>1, <1>2, <1>3, <1>4, <1>5, <1>6, <1>7, <1>8, <1>9, <1>10, <1>11, <1>12,
        <1>13, <1>14 DEF Next, NewStep, DeleteStep

\* Marks, counters, the mutex and every process keep their ranges, and only
\* the last slot is the sentinel (mtype_loc_new never gives it out).
THEOREM TypeCorrect == Spec => []TypeOK
<1>1. IInv => TypeOK
  BY DEF IInv
<1> QED BY <1>1, InvInit, InvStep, PTL DEF Spec

-----------------------------------------------------------------------------
(* Sessions and their owners *)

\* Nobody owns the slot that is about to be given out.
Search == {"reclaim", "recount", "found", "zeroed"}
Unowned == ~stolen => \A p, q \in Proc : loc[p].at \in Search => loc[p].m \notin Owns(q)

OInv == IInv /\ SessionOwned /\ Unowned

\* Steps by which nobody comes to own a slot, and no owned slot changes.
LEMMA Keep ==
  ASSUME OInv, ~stolen,
         \A q \in Proc : Owns(q)' \subseteq Owns(q) /\ \A m \in Owns(q)' : flag'[m] = flag[m],
         \A q \in Proc : loc'[q].at \in Search => loc[q].at \in Search /\ loc'[q].m = loc[q].m
  PROVE  SessionOwned' /\ Unowned'
BY DEF OInv, SessionOwned, Unowned

LEMMA OwnStep == OInv /\ [Next]_all => SessionOwned' /\ Unowned'
<1> SUFFICES ASSUME OInv, [Next]_all, ~stolen' PROVE SessionOwned' /\ Unowned'
  BY DEF SessionOwned, Unowned
<1>0. TypeOK /\ Mutex /\ Marks
  BY DEF OInv, IInv
<1> USE DEF Search, Owns
<1>1. ASSUME NEW p \in Proc, NewCall(p) \/ NewNone(p) PROVE SessionOwned' /\ Unowned'
  <2>1. /\ loc'[p].at \in {"new", "idle"} /\ loc[p].at \in {"new", "idle"}
        /\ \A q \in Proc : q # p => loc'[q] = loc[q]
    BY <1>0, <1>1, Others DEF NewCall, NewNone, Idle
  <2>2. UNCHANGED <<flag, held, stolen>>
    BY <1>1 DEF NewCall, NewNone, ghost
  <2> QED BY <2>1, <2>2, Keep
<1>2. ASSUME NEW p \in Proc, NewFind(p) PROVE SessionOwned' /\ Unowned'
  <2>1. PICK m \in Slot :
          /\ Goto(p, [at |-> IF flag[m] = "USED" THEN "reclaim" ELSE "found", m |-> m, idx |-> 0])
          /\ stolen' = (stolen \/ (flag[m] = "USED" /\ \E q \in Proc : m \in Owns(q)))
    BY <1>2 DEF NewFind
  <2>2. /\ loc[p].at = "new" /\ lock = None /\ UNCHANGED <<flag, held>>
    BY <1>2 DEF NewFind, Lock
  <2>3. /\ loc'[p].at \in {"reclaim", "found"} /\ loc'[p].m = m
        /\ \A q \in Proc : q # p => loc'[q] = loc[q]
    BY <1>0, <2>1, Others
  <2>4. \A q \in Proc : Owns(q)' = Owns(q)
    BY <2>2, <2>3
  <2>5. ~stolen /\ \A q \in Proc : m \notin Owns(q)
    <3>1. ~stolen /\ (flag[m] = "USED" => \A q \in Proc : m \notin Owns(q))
      BY <2>1
    <3>2. \A q \in Proc : \A k \in Owns(q) : flag[k] = "USED"
      BY <3>1 DEF OInv, SessionOwned
    <3> QED BY <3>1, <3>2
  <2>6. SessionOwned'
    BY <2>2, <2>4, <2>5 DEF OInv, SessionOwned
  <2>7. \A q \in Proc : q # p => loc'[q].at \notin Search
    BY <1>0, <2>2, <2>3 DEF Mutex, Inside
  <2>8. Unowned'
    BY <2>3, <2>4, <2>5, <2>7 DEF Unowned
  <2> QED BY <2>6, <2>8
<1>3. ASSUME NEW p \in Proc, NewReclaim(p) PROVE SessionOwned' /\ Unowned'
  <2>1. /\ loc[p].at = "reclaim" /\ loc'[p].at = "recount" /\ loc'[p].m = loc[p].m
        /\ \A q \in Proc : q # p => loc'[q] = loc[q]
    BY <1>0, <1>3, Others DEF NewReclaim, TypeOK
  <2>2. UNCHANGED <<held, stolen>> /\ flag' = [flag EXCEPT ![loc[p].m] = "IDLE"]
    BY <1>3 DEF NewReclaim, ghost
  <2>3. \A q \in Proc : loc[p].m \notin Owns(q)
    BY <2>1, <2>2 DEF OInv, Unowned
  <2>4. \A q \in Proc : Owns(q)' = Owns(q)
    BY <2>1, <2>2
  <2>5. \A q \in Proc : \A m \in Owns(q)' : flag'[m] = flag[m]
    BY <1>0, <2>2, <2>3, <2>4 DEF TypeOK
  <2> QED BY <2>1, <2>2, <2>4, <2>5, Keep
<1>11. ASSUME NEW p \in Proc, NewZero(p) PROVE SessionOwned' /\ Unowned'
  <2>1. /\ loc[p].at = "found" /\ loc'[p].at = "zeroed" /\ loc'[p].m = loc[p].m
        /\ \A q \in Proc : q # p => loc'[q] = loc[q]
    BY <1>0, <1>11, Others DEF NewZero, TypeOK
  <2>2. UNCHANGED <<held, stolen>> /\ flag' = [flag EXCEPT ![loc[p].m] = "ZERO"]
    BY <1>11 DEF NewZero, ghost
  <2>3. \A q \in Proc : loc[p].m \notin Owns(q)
    BY <2>1, <2>2 DEF OInv, Unowned
  <2>4. \A q \in Proc : Owns(q)' = Owns(q)
    BY <2>1, <2>2
  <2>5. \A q \in Proc : \A m \in Owns(q)' : flag'[m] = flag[m]
    BY <1>0, <2>2, <2>3, <2>4 DEF TypeOK
  <2> QED BY <2>1, <2>2, <2>4, <2>5, Keep
<1>12. ASSUME NEW p \in Proc, DeleteInfoMark(p) PROVE SessionOwned' /\ Unowned'
  <2>1. /\ loc[p].at = "info_zero" /\ loc'[p].at = "info_mark" /\ flag[loc[p].m] = "ZERO"
        /\ \A q \in Proc : q # p => loc'[q] = loc[q]
    BY <1>0, <1>12, Others DEF DeleteInfoMark, TypeOK, Marks
  <2>2. UNCHANGED <<held, stolen>> /\ flag' = [flag EXCEPT ![loc[p].m] = "IDLE"]
    BY <1>12 DEF DeleteInfoMark, ghost
  <2>3. \A q \in Proc : loc[p].m \notin Owns(q)
    BY <2>1, <2>2 DEF OInv, SessionOwned
  <2>4. \A q \in Proc : Owns(q)' = Owns(q)
    BY <2>1, <2>2
  <2>5. \A q \in Proc : \A m \in Owns(q)' : flag'[m] = flag[m]
    BY <1>0, <2>2, <2>3, <2>4 DEF TypeOK
  <2> QED BY <2>1, <2>2, <2>4, <2>5, Keep
<1>4. ASSUME NEW p \in Proc, NewRecount(p) \/ NewCount(p) PROVE SessionOwned' /\ Unowned'
  <2>1. /\ \/ loc[p].at = "recount" /\ loc'[p].at = "found"
           \/ loc[p].at = "taken" /\ loc'[p].at = "clean"
        /\ loc'[p].m = loc[p].m
        /\ \A q \in Proc : q # p => loc'[q] = loc[q]
    BY <1>0, <1>4, Others DEF NewRecount, NewCount, TypeOK
  <2>2. UNCHANGED <<flag, held, stolen>>
    BY <1>4 DEF NewRecount, NewCount, ghost
  <2> QED BY <2>1, <2>2, Keep
<1>5. ASSUME NEW p \in Proc, NewTake(p) PROVE SessionOwned' /\ Unowned'
  <2> DEFINE m == loc[p].m
  <2>1. /\ loc[p].at = "zeroed" /\ loc'[p].at = "taken" /\ loc'[p].m = m
        /\ \A q \in Proc : q # p => loc'[q] = loc[q]
    BY <1>0, <1>5, Others DEF NewTake, TypeOK
  <2>2. UNCHANGED <<held, stolen>> /\ flag' = [flag EXCEPT ![m] = "USED"]
    BY <1>5 DEF NewTake, ghost
  <2>3. m \in Slot /\ lock = p
    BY <1>0, <2>1 DEF Mutex, Marks, Inside, Session, Slot
  <2>4. \A q \in Proc : m \notin Owns(q)
    BY <2>1, <2>2 DEF OInv, Unowned
  <2>5. Owns(p)' = Owns(p) \cup {m} /\ \A q \in Proc : q # p => Owns(q)' = Owns(q)
    BY <2>1, <2>2
  <2>6. \A k \in Slot : flag'[k] = IF k = m THEN "USED" ELSE flag[k]
    BY <1>0, <2>2, <2>3 DEF TypeOK
  <2>7. \A q \in Proc : Owns(q) \subseteq Slot
    BY <1>0 DEF TypeOK, Marks, Inside, Session, Slot
  <2>8. SessionOwned'
    <3>1. \A q \in Proc : \A k \in Owns(q) :
            flag[k] = "USED" /\ k # m /\ \A r \in Proc \ {q} : k \notin Owns(r)
      BY <2>2, <2>4 DEF OInv, SessionOwned
    <3> HIDE DEF Owns, m
    <3> QED BY <2>3, <2>4, <2>5, <2>6, <2>7, <3>1 DEF SessionOwned
  <2>9. \A q \in Proc : loc'[q].at \notin Search
    BY <1>0, <2>1, <2>3 DEF Mutex, Inside
  <2> QED BY <2>8, <2>9 DEF Unowned
<1>6. ASSUME NEW p \in Proc, NewReturn(p) PROVE SessionOwned' /\ Unowned'
  <2>1. /\ loc[p].at = "clean" /\ loc'[p].at = "idle"
        /\ \A q \in Proc : q # p => loc'[q] = loc[q]
    BY <1>0, <1>6, Others DEF NewReturn, Idle
  <2>2. UNCHANGED <<flag, stolen>> /\ held' = [held EXCEPT ![p] = @ \cup {loc[p].m}]
    BY <1>6 DEF NewReturn, ghost
  <2>3. \A q \in Proc : Owns(q)' = Owns(q)
    BY <1>0, <2>1, <2>2 DEF TypeOK
  <2> QED BY <2>1, <2>2, <2>3, Keep
<1>7. ASSUME NEW p \in Proc, NEW m \in Session, OwnerStep(p, m) PROVE SessionOwned' /\ Unowned'
  <2>1. CASE CreateVars(p, m) \/ SaveLinkInfo(p, m)
    BY <2>1, Keep DEF CreateVars, SaveLinkInfo, ghost
  <2>2. CASE DeleteMark(p, m) \/ DeleteInfoZero(p, m)
    <3>1. /\ loc[p].at = "idle" /\ loc'[p].at \in {"idle", "del_mark", "info_zero"}
          /\ \A q \in Proc : q # p => loc'[q] = loc[q]
      BY <1>0, <2>2, Others DEF DeleteMark, DeleteInfoZero
    <3>2. /\ m \in held[p] /\ held' = [held EXCEPT ![p] = @ \ {m}]
          /\ stolen' = stolen
          /\ \/ flag' = flag \/ flag' = [flag EXCEPT ![m] = "IDLE"]
             \/ flag' = [flag EXCEPT ![m] = "ZERO"]
      BY <2>2 DEF DeleteMark, DeleteInfoZero, ghost
    <3>3. Owns(p)' = Owns(p) \ {m} /\ \A q \in Proc : q # p => Owns(q)' = Owns(q)
      BY <1>0, <3>1, <3>2 DEF TypeOK
    <3>4. \A q \in Proc : q # p => m \notin Owns(q)
      BY <3>2 DEF OInv, SessionOwned
    <3>5. \A q \in Proc : \A k \in Owns(q)' : flag'[k] = flag[k]
      <4>1. \A q \in Proc : Owns(q) \subseteq Slot
        BY <1>0 DEF TypeOK, Marks, Inside, Session, Slot
      <4> HIDE DEF Owns
      <4>2. \A q \in Proc : \A k \in Owns(q)' : k \in Slot /\ k # m
        BY <3>3, <3>4, <4>1
      <4> QED BY <1>0, <3>2, <4>2 DEF TypeOK
    <3> QED BY <3>1, <3>2, <3>3, <3>5, Keep
  <2> QED BY <1>7, <2>1, <2>2 DEF OwnerStep
<1>8. ASSUME NEW p \in Proc, DeleteCount(p) \/ DeleteInfoCount(p) PROVE SessionOwned' /\ Unowned'
  <2>1. /\ loc[p].at \in {"del_mark", "info_mark"} /\ loc'[p].at = "idle"
        /\ \A q \in Proc : q # p => loc'[q] = loc[q]
    BY <1>0, <1>8, Others DEF DeleteCount, DeleteInfoCount, Idle
  <2>2. UNCHANGED <<flag, held, stolen>>
    BY <1>8 DEF DeleteCount, DeleteInfoCount, ghost
  <2> QED BY <2>1, <2>2, Keep
<1>9. ASSUME NEW p \in Proc, Crash(p) PROVE SessionOwned' /\ Unowned'
  <2>1. loc'[p].at = "idle" /\ \A q \in Proc : q # p => loc'[q] = loc[q]
    BY <1>0, <1>9, Others DEF Crash, Idle
  <2>2. UNCHANGED <<flag, stolen>> /\ held' = [held EXCEPT ![p] = {}]
    BY <1>9 DEF Crash
  <2>3. \A q \in Proc : Owns(q)' \subseteq Owns(q)
    BY <1>0, <2>1, <2>2 DEF TypeOK
  <2> QED BY <2>1, <2>2, <2>3, Keep
<1>10. CASE (\E m \in Session : Age(m)) \/ UNCHANGED all
  BY <1>10, Keep DEF Age, all, ghost
<1> QED BY <1>1, <1>2, <1>3, <1>4, <1>5, <1>6, <1>7, <1>8, <1>9, <1>10, <1>11, <1>12
        DEF Next, NewStep, DeleteStep

LEMMA OwnInit == Init => OInv
BY InvInit DEF Init, OInv, SessionOwned, Unowned, Owns, Search, Idle

LEMMA OwnInvariant == Spec => []OInv
<1>1. OInv /\ [Next]_all => OInv'
  BY InvStep, OwnStep DEF OInv
<1> QED BY <1>1, OwnInit, PTL DEF Spec

\* A session has one owner from mtype_new to mtype_delete, unless it was
\* taken over after MTYPE_TIMEOUT: the scan reads its starting point without
\* the mutex, but what it finds is decided under it.
THEOREM OneOwner == Spec => []SessionOwned
<1>1. OInv => SessionOwned
  BY DEF OInv
<1> QED BY <1>1, OwnInvariant, PTL

-----------------------------------------------------------------------------
(* Variables *)

LEMMA VarsStep == OInv /\ VarsOwned /\ [Next]_all => VarsOwned'
<1> SUFFICES ASSUME OInv, VarsOwned, [Next]_all, ~stolen' PROVE VarsOwned'
  BY DEF VarsOwned
<1>0. TypeOK /\ Marks
  BY DEF OInv, IInv
<1>1. ASSUME UNCHANGED vars, stolen => stolen', \A q \in Proc : held'[q] \subseteq held[q]
      PROVE  VarsOwned'
  BY <1>1 DEF VarsOwned
<1>2. ASSUME NEW p \in Proc,
             NewCall(p) \/ NewFind(p) \/ NewNone(p) \/ NewReclaim(p) \/ NewRecount(p) \/ NewTake(p)
               \/ NewZero(p) \/ NewCount(p) \/ DeleteInfoMark(p) \/ DeleteInfoCount(p)
      PROVE  VarsOwned'
  <2>1. UNCHANGED <<vars, held>> /\ (stolen => stolen')
    <3>1. CASE NewFind(p)
      BY <3>1 DEF NewFind
    <3>2. CASE ~NewFind(p)
      BY <1>2, <3>2 DEF NewCall, NewNone, NewReclaim, NewRecount, NewTake, NewCount,
                        NewZero, DeleteInfoMark, DeleteInfoCount, ghost
    <3> QED BY <3>1, <3>2
  <2> QED BY <1>1, <2>1
<1>3. ASSUME NEW p \in Proc, NewReturn(p) PROVE VarsOwned'
  <2>1. /\ stolen' = stolen /\ vars' = [vars EXCEPT ![loc[p].m] = None]
        /\ held' = [held EXCEPT ![p] = @ \cup {loc[p].m}]
    BY <1>3 DEF NewReturn, ghost
  <2>2. loc[p].m \in Slot
    BY <1>0, <1>3 DEF NewReturn, Marks, Slot, Session
  <2>3. \A q \in Proc : held[q] \subseteq Slot
    BY <1>0 DEF TypeOK, Slot, Session
  <2>4. \A k \in Slot : vars'[k] = IF k = loc[p].m THEN None ELSE vars[k]
    BY <1>0, <2>1, <2>2 DEF TypeOK
  <2>5. \A q \in Proc : held'[q] = IF q = p THEN held[p] \cup {loc[p].m} ELSE held[q]
    BY <1>0, <2>1 DEF TypeOK
  <2> QED BY <2>1, <2>2, <2>3, <2>4, <2>5 DEF VarsOwned
<1>4. ASSUME NEW p \in Proc, NEW m \in Session, OwnerStep(p, m) PROVE VarsOwned'
  <2>1. CASE CreateVars(p, m)
    <3>1. /\ m \in held[p] /\ vars' = [vars EXCEPT ![m] = p] /\ UNCHANGED <<held, stolen>>
      BY <2>1 DEF CreateVars, ghost
    <3>2. \A q \in Proc : q # p => m \notin held[q]
      BY <3>1 DEF OInv, SessionOwned, Owns
    <3>3. \A k \in Slot : vars'[k] = IF k = m THEN p ELSE vars[k]
      BY <1>0, <3>1 DEF TypeOK
    <3>4. \A q \in Proc : held[q] \subseteq Slot
      BY <1>0 DEF TypeOK, Slot, Session
    <3> QED BY <3>1, <3>2, <3>3, <3>4 DEF VarsOwned
  <2>2. CASE SaveLinkInfo(p, m) \/ DeleteMark(p, m) \/ DeleteInfoZero(p, m)
    <3>1. /\ UNCHANGED <<vars, stolen>>
          /\ held' = held \/ held' = [held EXCEPT ![p] = @ \ {m}]
      BY <2>2 DEF SaveLinkInfo, DeleteMark, DeleteInfoZero, ghost
    <3>2. \A q \in Proc : held'[q] \subseteq held[q]
      BY <1>0, <3>1 DEF TypeOK
    <3> QED BY <1>1, <3>1, <3>2
  <2> QED BY <1>4, <2>1, <2>2 DEF OwnerStep
<1>5. ASSUME NEW p \in Proc, DeleteCount(p) PROVE VarsOwned'
  <2>1. UNCHANGED <<held, stolen>> /\ vars' = [vars EXCEPT ![loc[p].m] = None]
    BY <1>5 DEF DeleteCount, ghost
  <2>2. \A q \in Proc : held[q] \subseteq Slot
    BY <1>0 DEF TypeOK, Slot, Session
  <2>3. \A k \in Slot : vars'[k] \in {None, vars[k]}
    BY <1>0, <2>1 DEF TypeOK
  <2> QED BY <2>1, <2>2, <2>3 DEF VarsOwned
<1>6. ASSUME NEW p \in Proc, Crash(p) PROVE VarsOwned'
  <2>1. UNCHANGED <<vars, stolen>> /\ held' = [held EXCEPT ![p] = {}]
    BY <1>6 DEF Crash
  <2>2. \A q \in Proc : held'[q] \subseteq held[q]
    BY <1>0, <2>1 DEF TypeOK
  <2> QED BY <1>1, <2>1, <2>2
<1>7. CASE (\E m \in Session : Age(m)) \/ UNCHANGED all
  BY <1>1, <1>7 DEF Age, all, ghost
<1> QED BY <1>2, <1>3, <1>4, <1>5, <1>6, <1>7 DEF Next, NewStep, DeleteStep

\* A request never sees the variables of an earlier one in its slot: whatever
\* was left is destroyed before mtype_new returns, and until then they are
\* nobody's.
THEOREM VarsPrivate == Spec => []VarsOwned
<1>1. Init => VarsOwned
  BY DEF Init, VarsOwned
<1> QED BY <1>1, OwnInvariant, VarsStep, PTL DEF Spec

-----------------------------------------------------------------------------
(* The number of sessions *)

\* How far cur_cnt is from the marks, in the section that is under way.
Ahead == \E p \in Proc : loc[p].at \in {"recount", "del_mark", "info_zero", "info_mark"}
Behind == \E p \in Proc : loc[p].at = "taken"
Pending == IF Ahead THEN 1 ELSE IF Behind THEN -1 ELSE 0
Drift == cur_cnt - Cardinality(Used) - Pending
Counted == Drift \in -torn .. torn

\* A slot more or less in use.
LEMMA UsedFinite == IsFiniteSet(Used) /\ Cardinality(Used) \in Nat
<1>1. IsFiniteSet(Slot)
  BY FS_Interval DEF Slot
<1> QED BY <1>1, FS_Subset, FS_CardinalityType DEF Used

LEMMA MarkIdle ==
  ASSUME TypeOK, NEW m \in Session, flag[m] = "USED",
         NEW f \in {"IDLE", "ZERO"}, flag' = [flag EXCEPT ![m] = f]
  PROVE  Cardinality(Used)' = Cardinality(Used) - 1
<1>1. Used' = Used \ {m} /\ m \in Used
  BY DEF TypeOK, Used, Session, Slot
<1> QED BY <1>1, UsedFinite, FS_RemoveElement

LEMMA MarkUsed ==
  ASSUME TypeOK, NEW m \in Session, flag[m] = "ZERO", flag' = [flag EXCEPT ![m] = "USED"]
  PROVE  Cardinality(Used)' = Cardinality(Used) + 1
<1>1. Used' = Used \cup {m} /\ m \notin Used
  BY DEF TypeOK, Used, Session, Slot
<1> QED BY <1>1, UsedFinite, FS_AddElement

Weight(p) == IF loc[p].at \in {"recount", "del_mark", "info_zero", "info_mark"} THEN 1
             ELSE IF loc[p].at = "taken" THEN -1 ELSE 0

LEMMA PendingOf == IInv => /\ lock = None => Pending = 0
                           /\ \A p \in Proc : lock = p => Pending = Weight(p)
BY DEF IInv, Mutex, Inside, Pending, Ahead, Behind, Weight

\* Nobody enters or leaves a place between two updates.
LEMMA PendingSame ==
  ASSUME \A q \in Proc : /\ loc'[q].at \in {"recount", "del_mark", "info_zero", "info_mark"}
                             <=> loc[q].at \in {"recount", "del_mark", "info_zero", "info_mark"}
                         /\ loc'[q].at = "taken" <=> loc[q].at = "taken"
  PROVE  Pending' = Pending
BY DEF Pending, Ahead, Behind

LEMMA CountStep == IInv /\ Counted /\ [Next]_all => Counted'
<1> SUFFICES ASSUME IInv, Counted, [Next]_all PROVE Counted'
  OBVIOUS
<1> DEFINE C == Cardinality(Used)
<1>0. TypeOK /\ TypeOK' /\ Mutex /\ Marks /\ IInv'
  BY InvStep DEF IInv
<1>1. C \in Nat /\ C' \in Nat
  <2>1. (IsFiniteSet(Used) /\ Cardinality(Used) \in Nat)'
    BY UsedFinite, PTL
  <2> QED BY <2>1, UsedFinite
<1>2. /\ lock = None => Pending = 0
      /\ \A p \in Proc : lock = p => Pending = Weight(p)
  BY PendingOf
<1>3. /\ lock' = None => Pending' = 0
      /\ \A p \in Proc : lock' = p => Pending' = Weight(p)'
  <2>1. (IInv => /\ lock = None => Pending = 0
                 /\ \A p \in Proc : lock = p => Pending = Weight(p))'
    BY PendingOf, PTL
  <2> QED BY <1>0, <2>1
<1>4. /\ cur_cnt \in Int /\ cur_cnt' \in Int /\ torn \in Nat /\ torn' \in Nat
      /\ Pending \in Int /\ Pending' \in Int
  BY <1>0 DEF TypeOK, Pending
<1>5. Counted <=> cur_cnt - C - Pending \in -torn .. torn
  BY DEF Counted, Drift
<1>6. Counted' <=> cur_cnt' - C' - Pending' \in -torn' .. torn'
  BY DEF Counted, Drift
<1>7. ASSUME cur_cnt' - C' - Pending' = cur_cnt - C - Pending, torn' = torn PROVE Counted'
  BY <1>5, <1>6, <1>7
<1>8. ASSUME UNCHANGED <<flag, cur_cnt, torn>>, Pending' = Pending PROVE Counted'
  <2>1. C' = C
    BY <1>8 DEF Used
  <2> HIDE DEF C
  <2> QED BY <1>7, <1>8, <2>1
<1>9. ASSUME NEW p \in Proc, NewCall(p) \/ NewNone(p) \/ NewFind(p) \/ NewReturn(p) PROVE Counted'
  <2>1. UNCHANGED <<flag, cur_cnt, torn>>
    BY <1>9 DEF NewCall, NewNone, NewFind, NewReturn, ghost
  <2>2. /\ loc[p].at \in {"idle", "new", "clean"}
        /\ loc'[p].at \in {"idle", "new", "reclaim", "found"}
        /\ \A q \in Proc : q # p => loc'[q] = loc[q]
    BY <1>0, <1>9, Others, FindLoc DEF NewCall, NewNone, NewReturn, Idle
  <2>3. Pending' = Pending
    BY <2>2, PendingSame
  <2> QED BY <1>8, <2>1, <2>3
<1>10. ASSUME NEW p \in Proc, NewReclaim(p) PROVE Counted'
  <2>1. /\ loc[p].at = "reclaim" /\ loc'[p].at = "recount" /\ UNCHANGED <<lock, cur_cnt, torn>>
        /\ flag' = [flag EXCEPT ![loc[p].m] = "IDLE"]
    BY <1>0, <1>10, Others DEF NewReclaim, TypeOK, ghost
  <2>2. lock = p /\ loc[p].m \in Session /\ flag[loc[p].m] = "USED"
    BY <1>0, <2>1 DEF Mutex, Marks, Inside
  <2>3. C' = C - 1
    BY <1>0, <2>1, <2>2, MarkIdle
  <2>4. Pending = 0 /\ Pending' = 1
    BY <1>2, <1>3, <2>1, <2>2 DEF Weight
  <2> HIDE DEF C
  <2> QED BY <1>1, <1>4, <1>7, <2>1, <2>3, <2>4
<1>11. ASSUME NEW p \in Proc, NewRecount(p) PROVE Counted'
  <2>1. /\ loc[p].at = "recount" /\ loc'[p].at = "found" /\ UNCHANGED <<lock, flag, torn>>
        /\ cur_cnt' = cur_cnt - 1
    BY <1>0, <1>11, Others DEF NewRecount, TypeOK, ghost
  <2>2. lock = p
    BY <1>0, <2>1 DEF Mutex, Inside
  <2>3. C' = C
    BY <2>1 DEF Used
  <2>4. Pending = 1 /\ Pending' = 0
    BY <1>2, <1>3, <2>1, <2>2 DEF Weight
  <2> HIDE DEF C
  <2> QED BY <1>1, <1>4, <1>7, <2>1, <2>3, <2>4
<1>12. ASSUME NEW p \in Proc, NewTake(p) PROVE Counted'
  <2>1. /\ loc[p].at = "zeroed" /\ loc'[p].at = "taken" /\ UNCHANGED <<lock, cur_cnt, torn>>
        /\ flag' = [flag EXCEPT ![loc[p].m] = "USED"]
    BY <1>0, <1>12, Others DEF NewTake, TypeOK, ghost
  <2>2. lock = p /\ loc[p].m \in Session /\ flag[loc[p].m] = "ZERO"
    BY <1>0, <2>1 DEF Mutex, Marks, Inside
  <2>3. C' = C + 1
    BY <1>0, <2>1, <2>2, MarkUsed
  <2>4. Pending = 0 /\ Pending' = -1
    BY <1>2, <1>3, <2>1, <2>2 DEF Weight
  <2> HIDE DEF C
  <2> QED BY <1>1, <1>4, <1>7, <2>1, <2>3, <2>4
<1>18. ASSUME NEW p \in Proc, NewZero(p) \/ DeleteInfoMark(p) PROVE Counted'
  <2>1. /\ \/ loc[p].at = "found" /\ loc'[p].at = "zeroed"
           \/ loc[p].at = "info_zero" /\ loc'[p].at = "info_mark"
        /\ \A q \in Proc : q # p => loc'[q] = loc[q]
        /\ UNCHANGED <<cur_cnt, torn>>
    BY <1>0, <1>18, Others DEF NewZero, DeleteInfoMark, TypeOK, ghost
  <2>2. \E f \in {"IDLE", "ZERO"} : flag' = [flag EXCEPT ![loc[p].m] = f]
    BY <1>18 DEF NewZero, DeleteInfoMark
  <2>3. flag[loc[p].m] # "USED"
    BY <1>0, <2>1 DEF Marks
  <2>4. Used' = Used
    BY <1>0, <2>2, <2>3 DEF Used, TypeOK
  <2>5. Pending' = Pending
    BY <2>1, PendingSame
  <2>6. C' = C
    BY <2>4
  <2> HIDE DEF C
  <2> QED BY <1>7, <2>1, <2>5, <2>6
<1>13. ASSUME NEW p \in Proc, NewCount(p) PROVE Counted'
  <2>1. /\ loc[p].at = "taken" /\ lock = p /\ lock' = None /\ UNCHANGED <<flag, torn>>
        /\ cur_cnt' = cur_cnt + 1
    BY <1>13 DEF NewCount, Unlock, ghost
  <2>2. C' = C
    BY <2>1 DEF Used
  <2>3. Pending = -1 /\ Pending' = 0
    BY <1>2, <1>3, <2>1 DEF Weight
  <2> HIDE DEF C
  <2> QED BY <1>1, <1>4, <1>7, <2>1, <2>2, <2>3
<1>14. ASSUME NEW p \in Proc, NEW m \in Session, OwnerStep(p, m) PROVE Counted'
  <2>1. CASE CreateVars(p, m) \/ SaveLinkInfo(p, m) \/ (DeleteMark(p, m) /\ flag[m] # "USED")
    <3>1. UNCHANGED <<flag, cur_cnt, torn, loc>>
      BY <2>1 DEF CreateVars, SaveLinkInfo, DeleteMark, ghost
    <3> QED BY <1>8, <3>1, PendingSame
  <2>2. CASE (DeleteMark(p, m) /\ flag[m] = "USED") \/ DeleteInfoZero(p, m)
    <3>1. /\ loc'[p].at \in {"del_mark", "info_zero"} /\ lock = None /\ lock' = p
          /\ flag[m] = "USED" /\ \E f \in {"IDLE", "ZERO"} : flag' = [flag EXCEPT ![m] = f]
          /\ UNCHANGED <<cur_cnt, torn>>
      BY <1>0, <2>2, Others DEF DeleteMark, DeleteInfoZero, Lock, ghost
    <3>2. C' = C - 1
      BY <1>0, <3>1, MarkIdle
    <3>3. Pending = 0 /\ Pending' = 1
      BY <1>2, <1>3, <3>1 DEF Weight
    <3> HIDE DEF C
    <3> QED BY <1>1, <1>4, <1>7, <3>1, <3>2, <3>3
  <2> QED BY <1>14, <2>1, <2>2 DEF OwnerStep
<1>15. ASSUME NEW p \in Proc, DeleteCount(p) \/ DeleteInfoCount(p) PROVE Counted'
  <2>1. /\ loc[p].at \in {"del_mark", "info_mark"} /\ lock = p /\ lock' = None
        /\ UNCHANGED <<flag, torn>> /\ cur_cnt' = cur_cnt - 1
    BY <1>15 DEF DeleteCount, DeleteInfoCount, Unlock, ghost
  <2>2. C' = C
    BY <2>1 DEF Used
  <2>3. Pending = 1 /\ Pending' = 0
    BY <1>2, <1>3, <2>1 DEF Weight
  <2> HIDE DEF C
  <2> QED BY <1>1, <1>4, <1>7, <2>1, <2>2, <2>3
<1>16. ASSUME NEW p \in Proc, Crash(p) PROVE Counted'
  <2>1. /\ UNCHANGED <<flag, cur_cnt>>
        /\ torn' = IF loc[p].at \in {"recount", "taken", "del_mark", "info_zero", "info_mark"} THEN torn + 1 ELSE torn
        /\ lock' = IF lock = p THEN None ELSE lock
        /\ loc'[p].at = "idle" /\ \A q \in Proc : q # p => loc'[q] = loc[q]
    BY <1>0, <1>16, Others DEF Crash, Idle
  <2>2. CASE lock = p
    <3>1. Pending = Weight(p) /\ Pending' = 0
      BY <1>2, <1>3, <2>1, <2>2
    <3>2. Weight(p) \in {-1, 0, 1} /\ (Weight(p) # 0 => torn' = torn + 1)
      BY <2>1 DEF Weight
    <3>3. C' = C
      BY <2>1 DEF Used
    <3>4. torn' = torn \/ torn' = torn + 1
      BY <2>1
    <3> HIDE DEF C
    <3> QED BY <1>1, <1>4, <1>5, <1>6, <2>1, <3>1, <3>2, <3>3, <3>4
  <2>3. CASE lock # p
    <3>1. loc[p].at \notin Inside
      BY <1>0, <2>3 DEF Mutex
    <3>2. Pending' = Pending /\ torn' = torn
      BY <2>1, <3>1, PendingSame DEF Inside
    <3> QED BY <1>8, <2>1, <3>2
  <2> QED BY <2>2, <2>3
<1>17. CASE (\E m \in Session : Age(m)) \/ UNCHANGED all
  <2>1. UNCHANGED <<flag, cur_cnt, torn, loc>>
    BY <1>17 DEF Age, all, ghost
  <2> QED BY <1>8, <2>1, PendingSame
<1> QED BY <1>9, <1>10, <1>11, <1>12, <1>13, <1>14, <1>15, <1>16, <1>17, <1>18
        DEF Next, NewStep, DeleteStep

\* cur_cnt is the number of slots in use, but for one for each process that
\* died between the mark and the count of a section.
THEOREM CountClose == Spec => []CountDrift
<1>1. Init => Counted
  <2> SUFFICES ASSUME Init PROVE Counted
    OBVIOUS
  <2>1. Used = {} /\ Pending = 0 /\ cur_cnt = 0 /\ torn = 0
    BY DEF Init, Used, Slot, Pending, Ahead, Behind, Idle
  <2> QED BY <2>1, FS_EmptySet DEF Counted, Drift
<1>2. IInv /\ Counted => CountDrift
  <2> SUFFICES ASSUME IInv, Counted, lock = None
               PROVE  cur_cnt - Cardinality(Used) \in -torn .. torn
    BY DEF CountDrift
  <2>1. Pending = 0 /\ cur_cnt \in Int /\ Cardinality(Used) \in Nat
    BY PendingOf, UsedFinite DEF IInv, TypeOK
  <2> QED BY <2>1 DEF Counted, Drift
<1> QED BY <1>1, <1>2, InvInit, InvStep, CountStep, PTL DEF Spec

-----------------------------------------------------------------------------
(* Failures of mtype_new *)

\* A zeroed slot is about to be marked, or its process died before it was.
Wiped == \A m \in Slot : Broken(m) =>
           \/ wiped > 0
           \/ \E p \in Proc : loc[p].at \in {"zeroed", "info_zero"} /\ loc[p].m = m

LEMMA WipedStep == IInv /\ Wiped /\ [Next]_all => Wiped'
<1> SUFFICES ASSUME IInv, Wiped, [Next]_all, NEW m \in Slot, Broken(m)', ~(wiped' > 0)
             PROVE  \E p \in Proc : loc'[p].at \in {"zeroed", "info_zero"} /\ loc'[p].m = m
  BY DEF Wiped
<1> USE DEF Broken
<1>0. TypeOK /\ Mutex /\ Marks
  BY DEF IInv
<1>1. ASSUME NEW p \in Proc, NewZero(p)
      PROVE  \E q \in Proc : loc'[q].at \in {"zeroed", "info_zero"} /\ loc'[q].m = m
  <2>1. loc'[p].at = "zeroed" /\ loc'[p].m = loc[p].m /\ loc[p].at = "found" /\ wiped' = wiped
    BY <1>0, <1>1, Others DEF NewZero, TypeOK, ghost
  <2>2. \A k \in Slot : k # loc[p].m => flag'[k] = flag[k]
    BY <1>0, <1>1 DEF NewZero, TypeOK
  <2>3. \A q \in Proc : loc[q].at \notin {"zeroed", "info_zero"}
    BY <1>0, <2>1 DEF Mutex, Inside
  <2> QED BY <2>1, <2>2, <2>3 DEF Wiped
<1>2. ASSUME NEW p \in Proc, NEW k \in Session, DeleteInfoZero(p, k)
      PROVE  \E q \in Proc : loc'[q].at \in {"zeroed", "info_zero"} /\ loc'[q].m = m
  <2>1. loc'[p].at = "info_zero" /\ loc'[p].m = k /\ lock = None /\ wiped' = wiped
    BY <1>0, <1>2, Others DEF DeleteInfoZero, Lock, ghost
  <2>2. \A n \in Slot : n # k => flag'[n] = flag[n]
    BY <1>0, <1>2 DEF DeleteInfoZero, TypeOK
  <2>3. \A q \in Proc : loc[q].at \notin {"zeroed", "info_zero"}
    BY <1>0, <2>1 DEF Mutex, Inside, TypeOK
  <2> QED BY <2>1, <2>2, <2>3 DEF Wiped
<1>3. ASSUME NEW p \in Proc, NewTake(p) \/ DeleteInfoMark(p) PROVE FALSE
  <2>1. /\ loc[p].at \in {"zeroed", "info_zero"} /\ wiped' = wiped
        /\ \E f \in {"IDLE", "USED"} : flag' = [flag EXCEPT ![loc[p].m] = f]
    BY <1>3 DEF NewTake, DeleteInfoMark, ghost
  <2>2. lock = p /\ loc[p].m \in Slot
    BY <1>0, <2>1 DEF Mutex, Marks, Inside, Session, Slot
  <2>3. m # loc[p].m /\ flag[m] = "ZERO"
    BY <1>0, <2>1, <2>2 DEF TypeOK
  <2>4. PICK q \in Proc : loc[q].at \in {"zeroed", "info_zero"} /\ loc[q].m = m
    BY <2>1, <2>3 DEF Wiped
  <2>5. q = p
    BY <1>0, <2>2, <2>4 DEF Mutex, Inside
  <2> QED BY <2>3, <2>4, <2>5
\* The other steps zero no slot, and leave who is about to mark one in place.
<1>4. ASSUME \A k \in Slot : flag'[k] = "ZERO" => flag[k] = "ZERO",
             wiped' = wiped,
             \A q \in Proc : loc[q].at \in {"zeroed", "info_zero"} => loc'[q] = loc[q]
      PROVE  \E q \in Proc : loc'[q].at \in {"zeroed", "info_zero"} /\ loc'[q].m = m
  BY <1>4 DEF Wiped
<1>5. ASSUME NEW p \in Proc,
             NewCall(p) \/ NewFind(p) \/ NewNone(p) \/ NewReclaim(p) \/ NewRecount(p)
               \/ NewCount(p) \/ NewReturn(p) \/ DeleteCount(p) \/ DeleteInfoCount(p)
      PROVE  \E q \in Proc : loc'[q].at \in {"zeroed", "info_zero"} /\ loc'[q].m = m
  <2>1. loc[p].at \notin {"zeroed", "info_zero"} /\ wiped' = wiped /\ \E x : Goto(p, x)
    BY <1>5 DEF NewCall, NewFind, NewNone, NewReclaim, NewRecount, NewCount, NewReturn,
                DeleteCount, DeleteInfoCount, ghost
  <2>2. flag' = flag \/ flag' = [flag EXCEPT ![loc[p].m] = "IDLE"]
    BY <1>5 DEF NewCall, NewFind, NewNone, NewReclaim, NewRecount, NewCount, NewReturn,
                DeleteCount, DeleteInfoCount
  <2>3. \A k \in Slot : flag'[k] = "ZERO" => flag[k] = "ZERO"
    BY <1>0, <2>2 DEF TypeOK
  <2>4. \A q \in Proc : q # p => loc'[q] = loc[q]
    BY <1>0, <2>1, Others
  <2> QED BY <1>4, <2>1, <2>3, <2>4
<1>6. ASSUME NEW p \in Proc, NEW k \in Session,
             CreateVars(p, k) \/ SaveLinkInfo(p, k) \/ DeleteMark(p, k)
      PROVE  \E q \in Proc : loc'[q].at \in {"zeroed", "info_zero"} /\ loc'[q].m = m
  <2>1. loc[p].at = "idle" /\ wiped' = wiped /\ (loc' = loc \/ \E x : Goto(p, x))
    BY <1>6 DEF CreateVars, SaveLinkInfo, DeleteMark, ghost
  <2>2. flag' = flag \/ flag' = [flag EXCEPT ![k] = "IDLE"]
    BY <1>6 DEF CreateVars, SaveLinkInfo, DeleteMark
  <2>3. \A n \in Slot : flag'[n] = "ZERO" => flag[n] = "ZERO"
    BY <1>0, <2>2 DEF TypeOK
  <2>4. \A q \in Proc : q # p => loc'[q] = loc[q]
    BY <1>0, <2>1, Others
  <2> QED BY <1>4, <2>1, <2>3, <2>4
<1>7. ASSUME NEW p \in Proc, Crash(p)
      PROVE  \E q \in Proc : loc'[q].at \in {"zeroed", "info_zero"} /\ loc'[q].m = m
  <2>1. /\ flag' = flag /\ \A q \in Proc : q # p => loc'[q] = loc[q]
        /\ wiped' = IF loc[p].at \in {"zeroed", "info_zero"} THEN wiped + 1 ELSE wiped
    BY <1>0, <1>7, Others DEF Crash
  <2>2. loc[p].at \notin {"zeroed", "info_zero"} /\ wiped' = wiped
    BY <1>0, <2>1 DEF TypeOK
  <2> QED BY <1>4, <2>1, <2>2
<1>8. CASE (\E k \in Session : Age(k)) \/ UNCHANGED all
  BY <1>4, <1>8 DEF Age, all, ghost
<1> QED BY <1>1, <1>2, <1>3, <1>5, <1>6, <1>7, <1>8 DEF Next, NewStep, DeleteStep, OwnerStep

\* mtype_new fails only when every slot is in use and young, for the two parts
\* of the scan, from the starting point and from the beginning, are all slots;
\* or when it met a slot that was zeroed and not marked, and then a process
\* died between these two writes.
THEOREM Fails == Spec => FailsWhenFull
<1> DEFINE Full == \A p \in Proc : loc[p].at = "new" /\ loc'[p].at = "idle" /\ crashes' = crashes
                     => \/ \A m \in Session : flag[m] = "USED" /\ ~old[m]
                        \/ wiped > 0 /\ \E m \in Session : Broken(m)
<1>1. IInv /\ Wiped /\ [Next]_all => Full
  <2> SUFFICES ASSUME IInv, Wiped, [Next]_all, NEW p \in Proc,
                      loc[p].at = "new", loc'[p].at = "idle", crashes' = crashes
               PROVE  \/ \A m \in Session : flag[m] = "USED" /\ ~old[m]
                      \/ wiped > 0 /\ \E m \in Session : Broken(m)
    OBVIOUS
  <2>0. TypeOK
    BY DEF IInv
  <2>1. CASE NewNone(p)
    <3>0. loc[p].idx \in 0 .. MtypeMax - 1 /\ lock = None
      BY <2>0, <2>1 DEF NewNone, TypeOK
    <3>1. CASE Candidates(loc[p].idx) = {}
      <4>2. \A m \in loc[p].idx + 1 .. MtypeMax : ~Takeable(m) /\ ~Broken(m)
        BY <3>1 DEF Candidates
      <4>3. \A m \in 1 .. loc[p].idx : ~Takeable(m) /\ ~Broken(m)
        BY <3>1, <4>2 DEF Candidates
      <4>4. \A m \in Session : ~Takeable(m) /\ ~Broken(m)
        BY <3>0, <4>2, <4>3 DEF Session
      <4>5. \A m \in Session : flag[m] \in {"IDLE", "USED", "ZERO"} /\ old[m] \in BOOLEAN
        BY <2>0 DEF TypeOK, Session, Slot
      <4> QED BY <4>4, <4>5 DEF Takeable, Broken
    <3>2. CASE \E m \in Slot : First(m, loc[p].idx) /\ Broken(m)
      <4>1. PICK m \in Slot : Broken(m)
        BY <3>2
      <4>2. m \in Session
        BY <2>0, <4>1, FoundSession
      <4>3. \A q \in Proc : loc[q].at \notin {"zeroed", "info_zero"}
        BY <3>0 DEF IInv, Mutex, Inside
      <4>4. wiped > 0
        BY <4>1, <4>3 DEF Wiped
      <4> QED BY <4>1, <4>2, <4>4
    <3> QED BY <2>1, <3>1, <3>2 DEF NewNone
  <2>2. \A q \in Proc : q # p => ~(NewCall(q) \/ NewFind(q) \/ NewNone(q) \/ NewStep(q) \/ DeleteStep(q))
    <3> SUFFICES ASSUME NEW q \in Proc, q # p,
                        NewCall(q) \/ NewFind(q) \/ NewNone(q) \/ NewStep(q) \/ DeleteStep(q)
                 PROVE  FALSE
      OBVIOUS
    <3>1. \E r : Goto(q, r)
      BY DEF NewCall, NewFind, NewNone, NewStep, NewReclaim, NewRecount, NewTake, NewCount,
             NewZero, NewReturn, DeleteStep, DeleteCount, DeleteInfoMark, DeleteInfoCount
    <3>2. loc'[p] = loc[p]
      BY <2>0, <3>1, Others
    <3> QED BY <3>2
  <2>3. \A q \in Proc : ~Crash(q)
    BY <2>0 DEF Crash, TypeOK
  <2>4. ~(NewCall(p) \/ NewFind(p) \/ NewStep(p) \/ DeleteStep(p))
    <3>1. ~(NewCall(p) \/ NewStep(p) \/ DeleteStep(p))
      BY DEF NewCall, NewStep, NewReclaim, NewRecount, NewTake, NewCount, NewReturn,
             NewZero, DeleteStep, DeleteCount, DeleteInfoMark, DeleteInfoCount
    <3>2. ~NewFind(p)
      BY <2>0, FindLoc
    <3> QED BY <3>1, <3>2
  <2>5. \A q \in Proc : \A m \in Session : ~OwnerStep(q, m)
    <3> SUFFICES ASSUME NEW q \in Proc, NEW m \in Session, OwnerStep(q, m) PROVE FALSE
      OBVIOUS
    <3>1. loc[q].at = "idle" /\ (loc' = loc \/ \E r : Goto(q, r))
      BY DEF OwnerStep, CreateVars, SaveLinkInfo, DeleteMark, DeleteInfoZero
    <3>2. loc'[p] = loc[p]
      BY <2>0, <3>1, Others
    <3> QED BY <3>2
  <2>6. ~(\E m \in Session : Age(m)) /\ ~UNCHANGED all
    BY DEF Age, all
  <2> QED BY <2>1, <2>2, <2>3, <2>4, <2>5, <2>6 DEF Next
<1>2. Spec => [](IInv /\ Wiped)
  <2>1. Init => Wiped
    BY DEF Init, Wiped, Broken, Slot
  <2> QED BY <2>1, InvInit, InvStep, WipedStep, PTL DEF Spec
<1> QED BY <1>1, <1>2, PTL DEF Spec, FailsWhenFull
=============================================================================
