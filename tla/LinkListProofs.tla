--------------------------- MODULE LinkListProofs ---------------------------
(***************************************************************************)
(* The link table, for every number of slots, keys, sessions, receiving    *)
(* and sending processes.  A key is found by its link alone, so what       *)
(* counts is where the links are: each is in one slot at most (TypeOK), a  *)
(* slot that is not in use holds none, a slot holds only keys that were    *)
(* stored (Links), and a key that was answered is in none (Once).          *)
(*                                                                         *)
(* Between the look at a link and its deletion a timeout handler works on  *)
(* a slot, not on a link.  What it finds there is the link it has seen,    *)
(* nothing, or a link that another sender stored meanwhile (Working).      *)
(***************************************************************************)
EXTENDS LinkList, TLAPS, FiniteSetTheorems

Links == \A i \in Index : /\ slot[i].use = 0 => slot[i].link = 0
                          /\ slot[i].link \in {0} \cup Saved
Loaded == \A p \in Sender \cup Receiver : pc[p].at = "loaded" => pc[p].link \in Saved
\* Nothing has happened yet to keys that were not stored.
Fresh == \A n \in Link \ Saved : answered[n] = 0 /\ expired[n] = 0
Once == \A n \in Link : /\ answered[n] <= 1
                        /\ answered[n] > 0 => \A i \in Index : slot[i].link # n

IInv == TypeOK /\ Links /\ Loaded /\ Fresh /\ Once

USE ProcAssumption, CallAssumption, CntAssumption

Slots == [use : 0 .. 2, link : 0 .. MaxSave]
Places == [at : {"idle", "full", "seen", "marked", "raised", "loaded"},
           i : Index, link : 0 .. MaxSave]
Apart == \A i, j \in Index : i # j /\ slot[i].link # 0 => slot[i].link # slot[j].link

-----------------------------------------------------------------------------
(* The model's operators *)

LEMMA SavedIs ==
  ASSUME TypeOK
  PROVE  \E k \in 0 .. MaxSave : /\ Saved = 1 .. k /\ New = k + 1 /\ mt \in [1 .. k -> Mtypes]
                                 /\ Saved \subseteq Link /\ 0 \notin Saved /\ New \notin Saved
<1>1. PICK k \in 0 .. MaxSave : mt \in [1 .. k -> Mtypes]
  BY DEF TypeOK
<1>2. Saved = 1 .. k
  BY <1>1 DEF Saved
<1>3. New = k + 1
  <2>1. Cardinality(1 .. k) = k
    BY FS_Interval
  <2> QED BY <1>2, <2>1 DEF New
<1> QED BY <1>1, <1>2, <1>3 DEF Link

\* A key is stored: it is new, the others stay.
LEMMA Stored ==
  ASSUME TypeOK, NEW t \in Mtypes, Store(t)
  PROVE  /\ New \in Link \ Saved /\ Saved' = Saved \cup {New} /\ New # 0
         /\ \A n \in Saved : mt'[n] = mt[n]
         /\ \E k \in 0 .. MaxSave : mt' \in [1 .. k -> Mtypes]
<1>1. PICK k \in 0 .. MaxSave : /\ Saved = 1 .. k /\ New = k + 1 /\ mt \in [1 .. k -> Mtypes]
                                /\ New \notin Saved
  BY SavedIs
<1>2. /\ New <= MaxSave
      /\ mt' = [n \in 1 .. New |-> IF n = New THEN t ELSE mt[n]]
  BY DEF Store
<1>3. mt' \in [1 .. New -> Mtypes] /\ \A n \in Saved : mt'[n] = mt[n]
  BY <1>1, <1>2
<1>4. Saved' = 1 .. k + 1
  BY <1>1, <1>2 DEF Saved
<1> QED BY <1>1, <1>2, <1>3, <1>4 DEF Link

LEMMA CandidateIndex ==
  ASSUME TypeOK, NEW t, NEW i \in Candidates(t)
  PROVE  i \in Index /\ Fits(i, t)
<1>1. cur_pos \in 0 .. LinkCnt
  BY DEF TypeOK
<1> QED BY <1>1 DEF Candidates, Index

\* The search of lsn_save_linkinfo passes every slot, wherever it begins.
LEMMA CandidatesAll ==
  ASSUME TypeOK, NEW t, Candidates(t) = {}, NEW i \in Index
  PROVE  slot[i].use >= 1
<1>1. cur_pos \in 0 .. LinkCnt /\ slot[i].use \in 0 .. 2
  BY DEF TypeOK
<1>2. \A j \in cur_pos .. LinkCnt - 1 : ~Fits(j, t)
  BY DEF Candidates
<1>3. \A j \in 0 .. cur_pos - 1 : ~Fits(j, t)
  BY <1>2 DEF Candidates
<1>4. ~Fits(i, t)
  BY <1>1, <1>2, <1>3 DEF Index
<1> QED BY <1>1, <1>4 DEF Fits

\* A link is deleted from the one slot it is in.
LEMMA Deleted ==
  ASSUME TypeOK, NEW n, Delete(n)
  PROVE  \A i \in Index : \/ slot'[i] = slot[i] /\ (n # 0 /\ slot[i].use >= 1 => slot[i].link # n)
                          \/ slot'[i] = Empty /\ slot[i].link = n
<1> SUFFICES ASSUME NEW i \in Index, slot'[i] # Empty \/ slot[i].link # n
             PROVE  slot'[i] = slot[i] /\ (n # 0 /\ slot[i].use >= 1 => slot[i].link # n)
  BY DEF Delete, Found
<1>1. slot'[i] = IF i \in Found(n) THEN Empty ELSE slot[i]
  BY DEF Delete
<1>2. i \notin Found(n)
  BY <1>1 DEF Found
<1>3. ASSUME n # 0, slot[i].use >= 1, slot[i].link = n PROVE FALSE
  <2>1. \A j \in 0 .. i - 1 : j \in Index /\ j # i
    BY DEF Index
  <2>2. \A j \in 0 .. i - 1 : slot[j].link # n
    BY <1>3, <2>1 DEF TypeOK
  <2> QED BY <1>2, <1>3, <2>2 DEF Found
<1> QED BY <1>1, <1>2, <1>3

-----------------------------------------------------------------------------
(* Steps on the table.  In each the links that are in it afterwards were in *)
(* it before, or there is one new key.                                      *)

\* Slots keep their link or lose it.
Shrinks == \A i \in Index : /\ slot'[i] \in Slots
                            /\ slot'[i].use = 0 => slot'[i].link = 0
                            /\ slot'[i].link \in {0, slot[i].link}
\* Slot i gets the new key, the others stay.
Gains(i) == /\ i \in Index /\ slot'[i].use \in 1 .. 2 /\ slot'[i].link = New
            /\ \A j \in Index : slot'[j] \in Slots /\ (j # i => slot'[j] = slot[j])

LEMMA ShrinkKeeps ==
  ASSUME IInv, Shrinks, Saved' = Saved, slot' \in [Index -> Slots]
  PROVE  Apart' /\ Links'
BY DEF IInv, TypeOK, Links, Apart, Shrinks

LEMMA GainKeeps ==
  ASSUME IInv, NEW i, Gains(i), New \in Link \ Saved, New # 0, Saved' = Saved \cup {New}
  PROVE  Apart' /\ Links'
<1>1. \A j \in Index : j # i => slot'[j] = slot[j]
  BY DEF Gains
<1>2. \A j \in Index : slot[j].link \in {0} \cup Saved /\ (slot[j].use = 0 => slot[j].link = 0)
  BY DEF IInv, Links
<1>3. slot'[i].use \in 1 .. 2 /\ slot'[i].link = New /\ i \in Index
  BY DEF Gains
<1>4. \A j \in Index : slot[j].link # New
  BY <1>2
<1>5. Apart'
  BY <1>1, <1>3, <1>4 DEF IInv, TypeOK, Apart
<1>6. Links'
  BY <1>1, <1>2, <1>3 DEF Links
<1> QED BY <1>5, <1>6

\* TypeOK by its parts.
LEMMA Typed ==
  ASSUME slot \in [Index -> Slots], Apart, cur_pos \in 0 .. LinkCnt,
         \E k \in 0 .. MaxSave : mt \in [1 .. k -> Mtypes],
         old \subseteq Saved, ended \subseteq Saved, hit \subseteq Saved,
         pc \in [Sender \cup Receiver -> Places],
         answered \in [Link -> Nat], expired \in [Link -> Nat]
  PROVE  TypeOK
BY DEF TypeOK, Slots, Places, Apart

\* A step that stores nothing: old, ended, the counters and the places are
\* what is left to look at.
LEMMA InvShrink ==
  ASSUME IInv, Shrinks, slot' \in [Index -> Slots], UNCHANGED <<cur_pos, mt>>,
         old' \subseteq Saved, ended' \subseteq Saved, hit' \subseteq Saved',
         pc' \in [Sender \cup Receiver -> Places], Loaded',
         answered' \in [Link -> Nat], expired' \in [Link -> Nat], Fresh', Once'
  PROVE  IInv'
<1>1. Saved' = Saved
  BY DEF Saved
<1>2. Apart' /\ Links'
  BY <1>1, ShrinkKeeps
<1>3. cur_pos' \in 0 .. LinkCnt /\ \E k \in 0 .. MaxSave : mt' \in [1 .. k -> Mtypes]
  BY DEF IInv, TypeOK
<1>4. TypeOK'
  BY <1>1, <1>2, <1>3 DEF TypeOK, Slots, Places, Apart
<1> QED BY <1>2, <1>4 DEF IInv

\* A step that stores a key.
LEMMA InvGain ==
  ASSUME IInv, NEW t \in Mtypes, Store(t), NEW i, Gains(i), slot' \in [Index -> Slots],
         cur_pos' \in 0 .. LinkCnt, old' \subseteq Saved', ended' \subseteq Saved', hit' \subseteq Saved',
         UNCHANGED <<pc, answered, expired>>
  PROVE  IInv'
<1>1. TypeOK
  BY DEF IInv
<1>2. /\ New \in Link \ Saved /\ Saved' = Saved \cup {New} /\ New # 0
      /\ \E k \in 0 .. MaxSave : mt' \in [1 .. k -> Mtypes]
  BY <1>1, Stored
<1>3. Apart' /\ Links'
  BY <1>2, GainKeeps
<1>4. TypeOK'
  BY <1>1, <1>2, <1>3 DEF TypeOK, Slots, Places, Apart
<1>5. Loaded' /\ Fresh'
  BY <1>2 DEF IInv, Loaded, Fresh
<1>6. Once'
  <2>1. \A j \in Index : slot'[j].link \in {New, slot[j].link}
    BY DEF Gains
  <2>2. answered[New] = 0
    BY <1>2 DEF IInv, Fresh
  <2> QED BY <2>1, <2>2 DEF IInv, Once
<1> QED BY <1>3, <1>4, <1>5, <1>6 DEF IInv

LEMMA InvInit == Init => IInv
<1> SUFFICES ASSUME Init PROVE IInv
  OBVIOUS
<1>1. mt \in [1 .. 0 -> Mtypes] /\ Saved = {}
  BY DEF Init, Saved
<1>2. slot \in [Index -> Slots] /\ Apart /\ Links
  BY DEF Init, Empty, Slots, Apart, Links
<1>3. pc \in [Sender \cup Receiver -> Places] /\ Loaded
  BY DEF Init, Idle, Places, Index, Loaded
<1>4. answered \in [Link -> Nat] /\ expired \in [Link -> Nat] /\ Fresh /\ Once
  BY DEF Init, Fresh, Once
<1>5. cur_pos \in 0 .. LinkCnt /\ old = {} /\ ended = {} /\ hit = {} /\ 0 \in 0 .. MaxSave
  BY DEF Init
<1>6. TypeOK
  BY <1>1, <1>2, <1>3, <1>4, <1>5, Typed
<1> QED BY <1>2, <1>3, <1>4, <1>6 DEF IInv

\* What a process looked at stays its own.
LEMMA GotoPlace ==
  ASSUME TypeOK, NEW p \in Sender \cup Receiver, NEW r \in Places, Goto(p, r)
  PROVE  /\ pc' \in [Sender \cup Receiver -> Places] /\ pc'[p] = r
         /\ \A q \in Sender \cup Receiver : q # p => pc'[q] = pc[q]
BY DEF TypeOK, Places, Goto

LEMMA IdlePlace == Idle \in Places /\ [Idle EXCEPT !.at = "full"] \in Places
BY DEF Idle, Places, Index

\* Only stored links are hit.
LEMMA HitStep == TypeOK /\ [Next]_vars => hit' \subseteq Saved'
<1> SUFFICES ASSUME TypeOK, [Next]_vars PROVE hit' \subseteq Saved'
  OBVIOUS
<1>1. ASSUME NEW p \in Sender, NEW t \in Mtypes, Save(p, t) \/ Update(p, t) PROVE hit' \subseteq Saved'
  <2>1. Store(t) /\ (hit' = hit \/ hit' = hit \cup {New})
    BY <1>1 DEF Save, Update, StoredAt
  <2>2. Saved' = Saved \cup {New}
    BY <2>1, Stored
  <2> QED BY <2>1, <2>2 DEF TypeOK
<1>2. CASE UNCHANGED <<mt, hit>>
  BY <1>2 DEF TypeOK, Saved
<1>3. (\E p \in Sender, t \in Mtypes : Save(p, t) \/ Update(p, t)) \/ UNCHANGED <<mt, hit>>
  BY DEF Next, vars, SaveFull, SaveFailed, LinkNull, See, Mark, Raise, Drop, TimeoutStep, Load, Answer, Age
<1> QED BY <1>1, <1>2, <1>3

LEMMA InvStep == IInv /\ [Next]_vars => IInv'
<1> SUFFICES ASSUME IInv, [Next]_vars PROVE IInv'
  OBVIOUS
<1>0. /\ TypeOK /\ Loaded /\ Links /\ Fresh /\ Once /\ hit' \subseteq Saved'
      /\ slot \in [Index -> Slots] /\ pc \in [Sender \cup Receiver -> Places]
      /\ answered \in [Link -> Nat] /\ expired \in [Link -> Nat]
      /\ old \subseteq Saved /\ ended \subseteq Saved /\ Saved \subseteq Link
  BY SavedIs, HitStep DEF IInv, TypeOK, Slots, Places
<1>1. ASSUME NEW p \in Sender, NEW t \in Mtypes, Save(p, t) PROVE IInv'
  <2>1. PICK i \in Candidates(t) :
          /\ slot' = [slot EXCEPT ![i] = [use |-> 1, link |-> New]]
          /\ cur_pos' = i + 1
          /\ ended' = ended \cup ({slot[i].link} \ {0})
    BY <1>1 DEF Save
  <2>2. i \in Index
    BY <1>0, CandidateIndex
  <2>3. Store(t) /\ UNCHANGED <<old, pc, answered, expired>>
    BY <1>1 DEF Save
  <2>4. New \in Link \ Saved /\ Saved' = Saved \cup {New}
    BY <1>0, <2>3, Stored
  <2>5. slot' \in [Index -> Slots] /\ Gains(i)
    BY <1>0, <2>1, <2>2, <2>4 DEF Gains, Slots, Link
  <2>6. cur_pos' \in 0 .. LinkCnt
    BY <2>1, <2>2 DEF Index
  <2>7. ended' \subseteq Saved'
    BY <1>0, <2>1, <2>2, <2>4 DEF Links
  <2> QED BY <1>0, <2>3, <2>4, <2>5, <2>6, <2>7, InvGain
<1>2. ASSUME NEW p \in Sender, NEW t \in Mtypes, Update(p, t) PROVE IInv'
  <2>1. PICK i \in Index :
          /\ First(i, t)
          /\ slot' = [slot EXCEPT ![i].link = New]
          /\ old' = IF slot[i].link \in old THEN old \cup {New} ELSE old
          /\ ended' = ended \cup {slot[i].link}
    BY <1>2 DEF Update
  <2>2. Store(t) /\ UNCHANGED <<cur_pos, pc, answered, expired>>
    BY <1>2 DEF Update
  <2>3. New \in Link \ Saved /\ Saved' = Saved \cup {New}
    BY <1>0, <2>2, Stored
  <2>4. slot[i].use \in 1 .. 2 /\ slot[i].link \in Saved
    BY <1>0, <2>1 DEF First, Holds, Links, Slots
  <2>5. slot' \in [Index -> Slots] /\ Gains(i)
    BY <1>0, <2>1, <2>3, <2>4 DEF Gains, Slots, Link
  <2>6. cur_pos' \in 0 .. LinkCnt /\ ended' \subseteq Saved' /\ old' \subseteq Saved'
    BY <1>0, <2>1, <2>2, <2>3, <2>4 DEF TypeOK
  <2> QED BY <1>0, <2>2, <2>5, <2>6, InvGain
<1>3. ASSUME UNCHANGED slot PROVE Shrinks /\ slot' \in [Index -> Slots]
  BY <1>0, <1>3 DEF Shrinks, Links
<1>4. ASSUME NEW n, Delete(n) PROVE Shrinks /\ slot' \in [Index -> Slots]
  <2>1. \A i \in Index : slot'[i] = slot[i] \/ slot'[i] = Empty
    BY <1>0, <1>4, Deleted
  <2>2. Empty \in Slots /\ Empty.use = 0 /\ Empty.link = 0
    BY DEF Empty, Slots
  <2>3. slot' = [i \in Index |-> slot'[i]]
    BY <1>4 DEF Delete
  <2>4. \A i \in Index : slot'[i] \in Slots
    BY <1>0, <2>1, <2>2
  <2> QED BY <1>0, <2>1, <2>2, <2>3, <2>4 DEF Shrinks, Links
<1>18. \A n \in Link : n # 0
  BY DEF Link
<1>19. ASSUME Shrinks, NEW n \in Link, \A i \in Index : slot[i].link # n
       PROVE  \A i \in Index : slot'[i].link # n
  BY <1>18, <1>19 DEF Shrinks
\* Nothing but slots, places and ended changes.
<1>5. ASSUME Shrinks, slot' \in [Index -> Slots], UNCHANGED <<cur_pos, mt, old, answered, expired>>,
             ended' \subseteq Saved, pc' \in [Sender \cup Receiver -> Places], Loaded'
      PROVE  IInv'
  <2>1. Fresh'
    BY <1>0, <1>5 DEF Fresh, Saved
  <2>2. Once'
    BY <1>0, <1>5, <1>19 DEF Once
  <2> QED BY <1>0, <1>5, <2>1, <2>2, InvShrink
<1>6. ASSUME NEW p \in Sender \cup Receiver, NEW r \in Places, Goto(p, r), r.at = "loaded" => r.link \in Saved,
             UNCHANGED mt
      PROVE  pc' \in [Sender \cup Receiver -> Places] /\ Loaded'
  BY <1>0, <1>6, GotoPlace DEF Loaded, Saved
<1>7. ASSUME NEW p \in Sender, NEW t \in Mtypes, SaveFull(p, t) PROVE IInv'
  <2>1. /\ Goto(p, [Idle EXCEPT !.at = "full"])
        /\ UNCHANGED <<slot, cur_pos, mt, old, ended, answered, expired>>
    BY <1>7 DEF SaveFull
  <2>2. [Idle EXCEPT !.at = "full"].at = "full"
    BY DEF Idle
  <2>3. pc' \in [Sender \cup Receiver -> Places] /\ Loaded'
    BY <1>6, <2>1, <2>2, IdlePlace
  <2> QED BY <1>0, <1>3, <1>5, <2>1, <2>3
<1>8. ASSUME NEW p \in Sender, NEW t \in Mtypes, LinkNull(p, t) PROVE IInv'
  <2>1. PICK i \in Index :
          /\ First(i, t) /\ slot' = [slot EXCEPT ![i] = Empty]
          /\ ended' = ended \cup {slot[i].link}
    BY <1>8 DEF LinkNull
  <2>2. UNCHANGED <<cur_pos, mt, old, pc, answered, expired>>
    BY <1>8 DEF LinkNull
  <2>3. slot[i].link \in Saved
    BY <1>0, <2>1 DEF First, Holds, Links
  <2>4. Shrinks /\ slot' \in [Index -> Slots]
    BY <1>0, <2>1 DEF Shrinks, Links, Slots, Empty
  <2>5. Loaded'
    BY <1>0, <2>2 DEF Loaded, Saved
  <2> QED BY <1>0, <1>5, <2>1, <2>2, <2>3, <2>4, <2>5
<1>9. ASSUME NEW p \in Receiver, NEW n \in Saved, Load(p, n) PROVE IInv'
  <2>1. /\ Goto(p, [at |-> "loaded", i |-> 0, link |-> n])
        /\ UNCHANGED <<slot, cur_pos, mt, old, ended, answered, expired>>
    BY <1>9 DEF Load
  <2>2. [at |-> "loaded", i |-> 0, link |-> n] \in Places
    BY <1>0 DEF Places, Index, Link
  <2>3. pc' \in [Sender \cup Receiver -> Places] /\ Loaded'
    BY <1>6, <2>1, <2>2
  <2> QED BY <1>0, <1>3, <1>5, <2>1, <2>3
<1>10. ASSUME NEW p \in Receiver, Answer(p) PROVE IInv'
  <2> DEFINE n == pc[p].link
  <2>1. Goto(p, Idle) /\ UNCHANGED <<cur_pos, mt, old, expired>> /\ n \in Saved
    BY <1>0, <1>10 DEF Answer, Loaded
  <2>2. pc' \in [Sender \cup Receiver -> Places] /\ Loaded'
    BY <1>6, <2>1, IdlePlace DEF Idle
  <2>3. CASE Found(n) = {}
    BY <1>0, <1>3, <1>5, <1>10, <2>1, <2>2, <2>3 DEF Answer
  <2>4. CASE Found(n) # {}
    <3>1. Delete(n) /\ answered' = [answered EXCEPT ![n] = @ + 1] /\ ended' = ended \cup {n}
      BY <1>10, <2>4 DEF Answer
    <3>2. Shrinks /\ slot' \in [Index -> Slots]
      BY <1>4, <3>1
    <3>3. n \in Link /\ n # 0
      BY <1>0, <1>18, <2>1
    <3>4. answered[n] = 0
      BY <1>0, <2>4, <3>3 DEF Found, Once
    <3>5. \A k \in Link : answered'[k] = IF k = n THEN 1 ELSE answered[k]
      BY <1>0, <3>1, <3>3, <3>4
    <3>6. answered' \in [Link -> Nat]
      BY <1>0, <3>1, <3>3
    <3>7. \A i \in Index : slot'[i].link # n
      BY <1>0, <3>1, <3>3, Deleted DEF Links, Empty, Slots
    <3> HIDE DEF n
    <3>8. Fresh'
      BY <1>0, <2>1, <3>5 DEF Fresh, Saved
    <3>9. Once'
      BY <1>0, <1>19, <3>2, <3>3, <3>5, <3>7 DEF Once
    <3> QED BY <1>0, <2>1, <2>2, <3>1, <3>2, <3>6, <3>8, <3>9, InvShrink
  <2> QED BY <2>3, <2>4
<1>11. ASSUME NEW n \in Link, Age(n) PROVE IInv'
  <2>1. /\ old' \subseteq Saved /\ UNCHANGED <<slot, cur_pos, mt, pc, ended, answered, expired>>
    BY <1>0, <1>11 DEF Age
  <2>2. Loaded' /\ Fresh' /\ Once'
    BY <1>0, <2>1 DEF Loaded, Fresh, Once, Saved
  <2> QED BY <1>0, <1>3, <2>1, <2>2, InvShrink
<1>12. ASSUME NEW p \in Sender, NEW i \in Index, See(p, i) PROVE IInv'
  <2>1. /\ Goto(p, [at |-> "seen", i |-> i, link |-> slot[i].link])
        /\ UNCHANGED <<slot, cur_pos, mt, old, ended, answered, expired>>
    BY <1>12 DEF See
  <2>2. [at |-> "seen", i |-> i, link |-> slot[i].link] \in Places
    BY <1>0 DEF Places, Slots
  <2>3. pc' \in [Sender \cup Receiver -> Places] /\ Loaded'
    BY <1>6, <2>1, <2>2
  <2> QED BY <1>0, <1>3, <1>5, <2>1, <2>3
<1>13. ASSUME NEW p \in Sender, Mark(p) PROVE IInv'
  <2>1. /\ slot' = [slot EXCEPT ![pc[p].i].use = 2]
        /\ Goto(p, [pc[p] EXCEPT !.at = "marked"])
        /\ UNCHANGED <<cur_pos, mt, old, ended, answered, expired>>
    BY <1>13 DEF Mark
  <2>2. pc[p] \in Places
    BY <1>0
  <2>3. [pc[p] EXCEPT !.at = "marked"] \in Places /\ [pc[p] EXCEPT !.at = "marked"].at = "marked"
    BY <2>2 DEF Places
  <2>4. pc' \in [Sender \cup Receiver -> Places] /\ Loaded'
    BY <1>6, <2>1, <2>3
  <2>5. slot' \in [Index -> Slots]
    <3>1. \A i \in Index : [slot[i] EXCEPT !.use = 2] \in Slots
      BY <1>0 DEF Slots
    <3> QED BY <1>0, <2>1, <3>1
  <2>6. \A i \in Index : slot'[i] = slot[i] \/ (slot'[i].use = 2 /\ slot'[i].link = slot[i].link)
    BY <1>0, <2>1 DEF Slots
  <2>7. Shrinks
    BY <1>0, <2>5, <2>6 DEF Shrinks, Links
  <2> QED BY <1>0, <1>5, <2>1, <2>4, <2>5, <2>7
<1>14. ASSUME NEW p \in Sender, Raise(p) PROVE IInv'
  <2> DEFINE n == slot[pc[p].i].link
  <2>1. UNCHANGED <<slot, cur_pos, mt, old, ended, answered>>
    BY <1>14 DEF Raise
  <2>2. CASE Goto(p, Idle) /\ UNCHANGED expired
    <3>1. pc' \in [Sender \cup Receiver -> Places] /\ Loaded'
      BY <1>6, <2>1, <2>2, IdlePlace DEF Idle
    <3> QED BY <1>0, <1>3, <1>5, <2>1, <2>2, <3>1
  <2>3. CASE n # 0 /\ expired' = [expired EXCEPT ![n] = @ + 1] /\ Goto(p, [pc[p] EXCEPT !.at = "raised"])
    <3>1. pc[p] \in Places
      BY <1>0
    <3>2. [pc[p] EXCEPT !.at = "raised"] \in Places /\ [pc[p] EXCEPT !.at = "raised"].at = "raised"
      BY <3>1 DEF Places
    <3>3. pc' \in [Sender \cup Receiver -> Places] /\ Loaded'
      BY <1>6, <2>1, <2>3, <3>2
    <3>4. n \in Saved
      BY <1>0, <2>3, <3>1 DEF Links, Places
    <3>5. expired' \in [Link -> Nat] /\ \A k \in Link \ Saved : expired'[k] = expired[k]
      BY <1>0, <2>3, <3>4
    <3>6. Fresh' /\ Once'
      BY <1>0, <2>1, <3>5 DEF Fresh, Once, Saved
    <3> QED BY <1>0, <1>3, <2>1, <3>3, <3>5, <3>6, InvShrink
  <2> QED BY <1>14, <2>2, <2>3 DEF Raise
<1>15. ASSUME NEW p \in Sender, Drop(p) PROVE IInv'
  <2>1. /\ Delete(slot[pc[p].i].link) /\ Goto(p, Idle)
        /\ UNCHANGED <<cur_pos, mt, old, ended, answered, expired>>
    BY <1>15 DEF Drop
  <2>2. pc' \in [Sender \cup Receiver -> Places] /\ Loaded'
    BY <1>6, <2>1, IdlePlace DEF Idle
  <2>3. Shrinks /\ slot' \in [Index -> Slots]
    BY <1>4, <2>1
  <2> QED BY <1>0, <1>5, <2>1, <2>2, <2>3
<1>16. CASE UNCHANGED vars
  <2>1. UNCHANGED <<slot, cur_pos, mt, old, pc, ended, answered, expired>>
    BY <1>16 DEF vars
  <2>2. Loaded'
    BY <1>0, <2>1 DEF Loaded, Saved
  <2> QED BY <1>0, <1>3, <1>5, <2>1, <2>2
<1>17. ASSUME NEW p \in Sender, SaveFailed(p) PROVE IInv'
  <2>1. /\ Goto(p, Idle) /\ UNCHANGED <<slot, cur_pos, mt, old, ended, answered, expired>>
    BY <1>17 DEF SaveFailed
  <2>2. pc' \in [Sender \cup Receiver -> Places] /\ Loaded'
    BY <1>6, <2>1, IdlePlace DEF Idle
  <2> QED BY <1>0, <1>3, <1>5, <2>1, <2>2
<1> QED BY <1>1, <1>2, <1>7, <1>8, <1>9, <1>10, <1>11, <1>12, <1>13, <1>14, <1>15, <1>16, <1>17
        DEF Next, TimeoutStep

LEMMA Invariance == Spec => []IInv
BY InvInit, InvStep, PTL DEF Spec

\* Slots, keys and processes keep their ranges, and no link is in two slots:
\* the deletion finds it wherever it looks first.
THEOREM TypeCorrect == Spec => []TypeOK
<1>1. IInv => TypeOK
  BY DEF IInv
<1> QED BY <1>1, Invariance, PTL

\* Of several answers one is passed on (lsn_deal_recv_work_la): the receivers
\* find the link without the lock, and only who deletes it goes on.
THEOREM PassedOnce == Spec => []AnsweredOnce
<1>1. IInv => AnsweredOnce
  BY DEF IInv, Once, AnsweredOnce
<1> QED BY <1>1, Invariance, PTL

\* lsn_save_linkinfo fails only when every slot is taken: its search goes on
\* from the beginning of the table.
THEOREM Fails == Spec => FullWhenFails
<1> DEFINE Full == \A p \in Sender : pc[p].at # "full" /\ pc'[p].at = "full"
                                     => \A i \in Index : slot[i].use >= 1
<1>1. IInv /\ [Next]_vars => Full
  <2> SUFFICES ASSUME IInv, [Next]_vars, NEW p \in Sender, pc[p].at # "full", pc'[p].at = "full"
               PROVE  \A i \in Index : slot[i].use >= 1
    OBVIOUS
  <2>0. TypeOK
    BY DEF IInv
  <2>1. ASSUME NEW q \in Sender \cup Receiver, NEW r, Goto(q, r) PROVE q = p /\ r.at = "full"
    BY <2>0, <2>1 DEF TypeOK, Goto
  <2>2. ASSUME NEW q \in Sender, NEW t \in Mtypes, SaveFull(q, t) PROVE Candidates(t) = {}
    BY <2>2 DEF SaveFull
  <2>3. ASSUME NEW q \in Sender, NEW t \in Mtypes, Save(q, t) \/ Update(q, t) \/ LinkNull(q, t) PROVE FALSE
    BY <2>3 DEF Save, Update, LinkNull
  <2>4. ASSUME NEW q \in Sender, NEW i \in Index, See(q, i) PROVE FALSE
    BY <2>1, <2>4 DEF See
  <2>5. ASSUME NEW q \in Sender, TimeoutStep(q) PROVE FALSE
    <3>1. pc[q] \in Places
      BY <2>0 DEF TypeOK, Places
    <3>2. /\ [pc[q] EXCEPT !.at = "marked"].at = "marked"
          /\ [pc[q] EXCEPT !.at = "raised"].at = "raised"
          /\ Idle.at = "idle"
      BY <3>1 DEF Places, Idle
    <3>3. CASE Mark(q)
      BY <2>1, <3>2, <3>3 DEF Mark
    <3>4. CASE Raise(q)
      BY <2>1, <3>2, <3>4 DEF Raise
    <3>5. CASE Drop(q) \/ SaveFailed(q)
      BY <2>1, <3>2, <3>5 DEF Drop, SaveFailed
    <3> QED BY <2>5, <3>3, <3>4, <3>5 DEF TimeoutStep
  <2>6. ASSUME NEW q \in Receiver, (\E n \in Saved : Load(q, n)) \/ Answer(q) PROVE FALSE
    <3>1. ASSUME NEW n \in Saved, Load(q, n) PROVE FALSE
      BY <2>1, <3>1 DEF Load
    <3>2. CASE Answer(q)
      BY <2>1, <3>2 DEF Answer, Idle
    <3> QED BY <2>6, <3>1, <3>2
  <2>7. ASSUME NEW n \in Link, Age(n) PROVE FALSE
    BY <2>7 DEF Age
  <2>8. ~UNCHANGED vars
    BY DEF vars
  <2>9. PICK q \in Sender, t \in Mtypes : SaveFull(q, t)
    <3>1. Next
      BY <2>8
    <3>2. \E q \in Sender : (\E t \in Mtypes : SaveFull(q, t)) \/ (\E i \in Index : See(q, i)) \/ TimeoutStep(q)
      BY <2>3, <2>6, <2>7, <3>1 DEF Next
    <3> QED BY <2>4, <2>5, <3>2
  <2> QED BY <2>0, <2>2, <2>9, CandidatesAll
<1> QED BY <1>1, Invariance, PTL DEF Spec, FullWhenFails

-----------------------------------------------------------------------------
(* Timeouts *)

\* The slot a timeout handler is at work on holds the link it has seen, has been
\* emptied, or holds a link that was stored there meanwhile; at the end the
\* error has been raised.
Works(at, n) == at \in {"seen", "marked", "raised"} /\ n # 0 /\ n \notin hit
                  => /\ n \in old /\ mt[n] \in Calls
                     /\ at = "raised" => expired[n] > 0
Working == \A p \in Sender : Works(pc[p].at, slot[pc[p].i].link)
TInv == IInv /\ Working /\ NoneLost /\ OnlyOld

\* Steps that only empty slots, and record what was in them; a receiver's,
\* or of the sender between two timeouts.
LEMMA TimeShrink ==
  ASSUME TInv, IInv', Shrinks, UNCHANGED <<mt, expired, hit>>, old \subseteq old', ended \subseteq ended',
         \A i \in Index : slot'[i].link # slot[i].link => slot[i].link \in ended',
         \A p \in Sender : \/ pc'[p] = pc[p]
                           \/ pc'[p].at \notin {"seen", "marked", "raised"}
  PROVE  TInv'
<1>1. Saved' = Saved /\ Saved \subseteq Link /\ 0 \notin Saved
  BY SavedIs DEF TInv, IInv, Saved
<1>2. /\ \A i \in Index : slot'[i].link \in {0, slot[i].link} /\ (slot'[i].use = 0 => slot'[i].link = 0)
      /\ \A i \in Index : slot'[i].use \in 0 .. 2
  BY DEF Shrinks, Slots
<1>3. \A p \in Sender : pc[p].i \in Index
  BY DEF TInv, IInv, TypeOK
<1>4. Working'
  BY <1>2, <1>3 DEF TInv, Working, Works
<1>5. NoneLost'
  <2> SUFFICES ASSUME NEW n \in Saved \ hit, ~(n \in ended'), ~(expired[n] > 0) PROVE Present(n)'
    BY <1>1 DEF NoneLost
  <2>1. PICK i \in Index : slot[i].use >= 1 /\ slot[i].link = n
    BY DEF TInv, NoneLost, Present
  <2>2. slot'[i].link = n /\ n # 0
    BY <1>1, <2>1
  <2>3. slot'[i].use >= 1
    BY <1>2, <2>2
  <2> QED BY <2>2, <2>3 DEF Present
<1>6. OnlyOld'
  BY <1>1 DEF TInv, OnlyOld
<1> QED BY <1>4, <1>5, <1>6 DEF TInv

\* A sender that stores a key is between two timeouts, and the only sender.
LEMMA TimeGain ==
  ASSUME TInv, IInv', NEW p \in Sender, pc[p].at = "idle", NEW t \in Mtypes, Store(t),
         NEW i \in Index, Gains(i), StoredAt(i), UNCHANGED <<pc, expired>>, old \subseteq old',
         ended \cup ({slot[i].link} \ {0}) \subseteq ended'
  PROVE  TInv'
<1>1. /\ New \in Link \ Saved /\ Saved' = Saved \cup {New} /\ \A n \in Saved : mt'[n] = mt[n]
      /\ 0 \notin Saved
  BY Stored, SavedIs DEF TInv, IInv
<1>2. Working'
  <2> SUFFICES ASSUME NEW q \in Sender, pc[q].at \in {"seen", "marked", "raised"},
                      slot'[pc[q].i].link # 0, slot'[pc[q].i].link \notin hit'
               PROVE  LET n == slot'[pc[q].i].link
                      IN  /\ n \in old' /\ mt'[n] \in Calls
                          /\ pc[q].at = "raised" => expired[n] > 0
    BY DEF Working, Works
  <2>1. pc[q].i \in Index
    BY DEF TInv, IInv, TypeOK
  <2>2. hit \subseteq hit'
    BY DEF StoredAt
  <2>3. pc[q].i # i
    BY DEF StoredAt, AtWork, Gains
  <2>4. slot'[pc[q].i].link = slot[pc[q].i].link
    BY <2>1, <2>3 DEF Gains
  <2>5. slot[pc[q].i].link \in Saved
    BY <2>1, <2>4 DEF TInv, IInv, Links
  <2> QED BY <1>1, <2>2, <2>4, <2>5 DEF TInv, Working, Works
<1>3. NoneLost'
  <2> SUFFICES ASSUME NEW n \in Saved' \ hit', ~(n \in ended'), ~(expired[n] > 0) PROVE Present(n)'
    BY DEF NoneLost
  <2>0. hit \subseteq hit'
    BY DEF StoredAt
  <2>1. CASE n = New
    BY <2>1 DEF Gains, Present
  <2>2. CASE n \in Saved
    <3>1. PICK j \in Index : slot[j].use >= 1 /\ slot[j].link = n
      BY <2>0, <2>2 DEF TInv, NoneLost, Present
    <3>2. j # i
      BY <1>1, <2>2, <3>1
    <3> QED BY <3>1, <3>2 DEF Gains, Present
  <2> QED BY <1>1, <2>1, <2>2
<1>4. OnlyOld'
  <2>1. expired[New] = 0
    BY <1>1 DEF TInv, IInv, Fresh
  <2>2. hit \subseteq hit'
    BY DEF StoredAt
  <2>3. \A n \in Saved \ hit : expired[n] > 0 => n \in old /\ mt[n] \in Calls
    BY DEF TInv, OnlyOld
  <2> QED BY <1>1, <2>1, <2>2, <2>3 DEF OnlyOld
<1> QED BY <1>2, <1>3, <1>4 DEF TInv

LEMMA TimeStep == TInv /\ [Next]_vars => TInv'
<1> SUFFICES ASSUME TInv, [Next]_vars PROVE TInv'
  OBVIOUS
<1>0. /\ IInv /\ IInv' /\ TypeOK /\ Links /\ pc \in [Sender \cup Receiver -> Places]
      /\ slot \in [Index -> Slots] /\ expired \in [Link -> Nat]
  BY InvStep DEF TInv, IInv, TypeOK, Places, Slots
<1>1. ASSUME NEW p \in Sender, NEW t \in Mtypes, Save(p, t) PROVE TInv'
  <2>1. PICK i \in Candidates(t) :
          /\ slot' = [slot EXCEPT ![i] = [use |-> 1, link |-> New]]
          /\ ended' = ended \cup ({slot[i].link} \ {0})
          /\ StoredAt(i)
    BY <1>1 DEF Save
  <2>2. /\ i \in Index /\ pc[p].at = "idle" /\ Store(t) /\ UNCHANGED <<old, pc, expired>>
    BY <1>0, <1>1, CandidateIndex DEF Save
  <2>3. Gains(i)
    <3>1. New \in Link
      BY <1>0, <2>2, Stored
    <3> QED BY <1>0, <2>1, <2>2, <3>1 DEF Gains, Slots, Link
  <2> QED BY <1>0, <2>1, <2>2, <2>3, TimeGain
<1>2. ASSUME NEW p \in Sender, NEW t \in Mtypes, Update(p, t) PROVE TInv'
  <2>1. PICK i \in Index :
          /\ First(i, t)
          /\ slot' = [slot EXCEPT ![i].link = New]
          /\ old' = IF slot[i].link \in old THEN old \cup {New} ELSE old
          /\ ended' = ended \cup {slot[i].link}
          /\ StoredAt(i)
    BY <1>2 DEF Update
  <2>2. /\ pc[p].at = "idle" /\ Store(t) /\ UNCHANGED <<pc, expired>>
    BY <1>2 DEF Update
  <2>3. Gains(i)
    <3>1. New \in Link
      BY <1>0, <2>2, Stored
    <3>2. slot[i].use \in 1 .. 2
      BY <1>0, <2>1 DEF First, Holds, Slots
    <3> QED BY <1>0, <2>1, <3>1, <3>2 DEF Gains, Slots, Link
  <2> QED BY <1>0, <2>1, <2>2, <2>3, TimeGain
<1>3. ASSUME NEW p \in Sender, NEW t \in Mtypes, LinkNull(p, t) PROVE TInv'
  <2>1. PICK i \in Index :
          slot' = [slot EXCEPT ![i] = Empty] /\ ended' = ended \cup {slot[i].link}
    BY <1>3 DEF LinkNull
  <2>2. UNCHANGED <<mt, old, pc, expired, hit>>
    BY <1>3 DEF LinkNull
  <2>3. \A j \in Index : slot'[j] = IF j = i THEN Empty ELSE slot[j]
    BY <1>0, <2>1
  <2>4. Shrinks
    BY <1>0, <2>3 DEF Shrinks, Links, Slots, Empty
  <2>5. \A j \in Index : slot'[j].link # slot[j].link => slot[j].link \in ended'
    BY <2>1, <2>3
  <2> QED BY <1>0, <2>1, <2>2, <2>4, <2>5, TimeShrink
<1>4. ASSUME UNCHANGED <<slot, mt, ended, expired, hit>>, old \subseteq old',
             \A q \in Sender : pc'[q] = pc[q] \/ pc'[q].at \notin {"seen", "marked", "raised"}
      PROVE  TInv'
  <2>1. Shrinks
    BY <1>0, <1>4 DEF Shrinks, Links
  <2> QED BY <1>0, <1>4, <2>1, TimeShrink
<1>5. ASSUME NEW p \in Sender \cup Receiver, NEW r \in Places, Goto(p, r)
      PROVE  pc'[p] = r /\ \A q \in Sender \cup Receiver : q # p => pc'[q] = pc[q]
  BY <1>0, <1>5, GotoPlace
<1>6. Idle \in Places /\ Idle.at = "idle"
  BY IdlePlace DEF Idle
<1>7. ASSUME NEW p \in Sender, (\E t \in Mtypes : SaveFull(p, t)) \/ SaveFailed(p) PROVE TInv'
  <2>1. /\ Goto(p, Idle) \/ Goto(p, [Idle EXCEPT !.at = "full"])
        /\ UNCHANGED <<slot, mt, old, ended, expired, hit>>
    BY <1>7 DEF SaveFull, SaveFailed
  <2>2. [Idle EXCEPT !.at = "full"] \in Places /\ [Idle EXCEPT !.at = "full"].at = "full"
    BY IdlePlace DEF Idle
  <2>3. \A q \in Sender : pc'[q] = pc[q] \/ pc'[q].at \notin {"seen", "marked", "raised"}
    BY <1>5, <1>6, <2>1, <2>2
  <2> QED BY <1>4, <2>1, <2>3
<1>8. ASSUME NEW p \in Receiver, NEW n \in Saved, Load(p, n) PROVE TInv'
  <2>1. \A q \in Sender : pc'[q] = pc[q]
    BY <1>0, <1>8 DEF Load, Goto
  <2>2. UNCHANGED <<slot, mt, old, ended, expired, hit>>
    BY <1>8 DEF Load
  <2> QED BY <1>4, <2>1, <2>2
<1>9. ASSUME NEW p \in Receiver, Answer(p) PROVE TInv'
  <2> DEFINE n == pc[p].link
  <2>1. UNCHANGED <<mt, old, expired, hit>> /\ \A q \in Sender : pc'[q] = pc[q]
    BY <1>0, <1>9 DEF Answer, Goto
  <2>2. CASE Found(n) = {}
    BY <1>4, <1>9, <2>1, <2>2 DEF Answer
  <2>3. CASE Found(n) # {}
    <3>1. Delete(n) /\ ended' = ended \cup {n}
      BY <1>9, <2>3 DEF Answer
    <3>2. \A i \in Index : slot'[i] = slot[i] \/ (slot'[i] = Empty /\ slot[i].link = n)
      BY <1>0, <3>1, Deleted
    <3> HIDE DEF n
    <3>3. Shrinks
      BY <1>0, <3>2 DEF Shrinks, Links, Slots, Empty
    <3>4. \A i \in Index : slot'[i].link # slot[i].link => slot[i].link \in ended'
      BY <3>1, <3>2
    <3> QED BY <1>0, <2>1, <3>1, <3>3, <3>4, TimeShrink
  <2> QED BY <2>2, <2>3
<1>10. ASSUME NEW n \in Link, Age(n) PROVE TInv'
  BY <1>4, <1>10 DEF Age
<1>11. CASE UNCHANGED vars
  BY <1>4, <1>11 DEF vars
\* The timeout handler: p is the sender.
<1>12. ASSUME NEW p \in Sender, NEW i \in Index, See(p, i) PROVE TInv'
  <2>1. /\ Goto(p, [at |-> "seen", i |-> i, link |-> slot[i].link])
        /\ UNCHANGED <<slot, mt, old, ended, expired, hit>>
        /\ slot[i].link \in old /\ mt[slot[i].link] \in Calls
    BY <1>12 DEF See
  <2>2. [at |-> "seen", i |-> i, link |-> slot[i].link] \in Places
    BY <1>0 DEF Places, Slots
  <2>3. pc'[p].at = "seen" /\ pc'[p].i = i
    BY <1>5, <2>1, <2>2
  <2>4. Working'
    <3>1. \A q \in Sender : q # p => pc'[q] = pc[q]
      BY <1>5, <2>1, <2>2
    <3>2. slot' = slot /\ mt' = mt /\ old' = old /\ hit' = hit /\ expired' = expired
      BY <2>1
    <3>3. ASSUME NEW q \in Sender PROVE Works(pc[q].at, slot[pc[q].i].link)'
      <4>1. CASE q = p
        BY <2>1, <2>3, <3>2, <4>1 DEF Works
      <4>2. CASE q # p
        <5>1. Works(pc[q].at, slot[pc[q].i].link)
          BY DEF TInv, Working
        <5> QED BY <3>1, <3>2, <4>2, <5>1 DEF Works
      <4> QED BY <4>1, <4>2
    <3> QED BY <3>3 DEF Working
  <2> QED BY <1>0, <2>1, <2>4 DEF TInv, NoneLost, OnlyOld, Present, Saved
<1>13. ASSUME NEW p \in Sender, Mark(p) PROVE TInv'
  <2>1. /\ pc[p].at = "seen" /\ pc[p].i \in Index /\ pc[p] \in Places
        /\ slot' = [slot EXCEPT ![pc[p].i].use = 2]
        /\ Goto(p, [pc[p] EXCEPT !.at = "marked"])
        /\ UNCHANGED <<mt, old, ended, expired, hit>>
    BY <1>0, <1>13 DEF Mark, Places
  <2>2. [pc[p] EXCEPT !.at = "marked"] \in Places
    BY <2>1 DEF Places
  <2>3. pc'[p].at = "marked" /\ pc'[p].i = pc[p].i
    BY <1>5, <2>1, <2>2 DEF Places
  <2>4. \A j \in Index : slot'[j].link = slot[j].link /\ (slot[j].use >= 1 => slot'[j].use >= 1)
    BY <1>0, <2>1 DEF Slots
  <2>5. Working'
    <3>1. \A q \in Sender : /\ pc'[q].i = pc[q].i /\ pc[q].i \in Index
                            /\ pc'[q].at = pc[q].at \/ (pc'[q].at = "marked" /\ pc[q].at = "seen")
      BY <1>0, <1>5, <2>1, <2>2, <2>3 DEF Places
    <3>2. ASSUME NEW q \in Sender PROVE Works(pc[q].at, slot[pc[q].i].link)'
      <4>1. Works(pc[q].at, slot[pc[q].i].link)
        BY DEF TInv, Working
      <4>2. slot'[pc'[q].i].link = slot[pc[q].i].link
        BY <2>4, <3>1
      <4> QED BY <2>1, <3>1, <4>1, <4>2 DEF Works
    <3> QED BY <3>2 DEF Working
  <2> QED BY <1>0, <2>1, <2>4, <2>5 DEF TInv, NoneLost, OnlyOld, Present, Saved
<1>14. ASSUME NEW p \in Sender, Raise(p) PROVE TInv'
  <2> DEFINE n == slot[pc[p].i].link
  <2>1. pc[p].at = "marked" /\ UNCHANGED <<slot, mt, old, ended, hit>> /\ pc[p] \in Places
    BY <1>0, <1>14 DEF Raise
  <2>2. CASE Goto(p, Idle) /\ UNCHANGED expired
    BY <1>4, <1>5, <1>6, <2>1, <2>2
  <2>3. CASE n # 0 /\ expired' = [expired EXCEPT ![n] = @ + 1] /\ Goto(p, [pc[p] EXCEPT !.at = "raised"])
    <3>1. [pc[p] EXCEPT !.at = "raised"] \in Places
      BY <2>1 DEF Places
    <3>2. pc'[p].at = "raised" /\ pc'[p].i = pc[p].i
      BY <1>5, <2>1, <2>3, <3>1 DEF Places
    <3>3. n \in Saved /\ n \in Link
      BY <1>0, <2>1, <2>3, SavedIs DEF Links, Places
    <3>4. n \notin hit => n \in old /\ mt[n] \in Calls
      BY <2>1, <2>3 DEF TInv, Working, Works
    <3>5. /\ expired'[n] > 0
          /\ \A k \in Link : expired[k] > 0 => expired'[k] > 0
          /\ \A k \in Link : k # n => expired'[k] = expired[k]
      BY <1>0, <2>3, <3>3
    <3>6. Saved' = Saved /\ Saved \subseteq Link
      BY <1>0, <2>1, SavedIs DEF Saved
    <3> HIDE DEF n
    <3>7. slot'[pc'[p].i].link = n
      BY <2>1, <3>2 DEF n
    <3>8. Working'
      <4>1. \A q \in Sender : q # p => pc'[q] = pc[q]
        BY <1>5, <2>1, <2>3, <3>1
      <4>2. \A q \in Sender : slot[pc[q].i].link \in {0} \cup Link
        BY <1>0 DEF Places, Slots, Link
      <4> SUFFICES ASSUME NEW q \in Sender, pc'[q].at \in {"seen", "marked", "raised"},
                          slot[pc'[q].i].link # 0, slot[pc'[q].i].link \notin hit
                   PROVE  LET k == slot[pc'[q].i].link
                          IN  /\ k \in old /\ mt[k] \in Calls
                              /\ pc'[q].at = "raised" => expired'[k] > 0
        BY <2>1 DEF Working, Works
      <4>3. CASE q = p
        BY <2>1, <3>4, <3>5, <3>7, <4>3
      <4>4. CASE q # p
        BY <3>5, <4>1, <4>2, <4>4 DEF TInv, Working, Works
      <4> QED BY <4>3, <4>4
    <3>9. NoneLost'
      BY <2>1, <3>5, <3>6 DEF TInv, NoneLost, Present
    <3>10. OnlyOld'
      BY <2>1, <3>4, <3>5, <3>6 DEF TInv, OnlyOld
    <3> QED BY <1>0, <3>8, <3>9, <3>10 DEF TInv
  <2> QED BY <1>14, <2>2, <2>3 DEF Raise
<1>15. ASSUME NEW p \in Sender, Drop(p) PROVE TInv'
  <2> DEFINE n == slot[pc[p].i].link
  <2>1. pc[p].at = "raised" /\ Delete(n) /\ Goto(p, Idle) /\ UNCHANGED <<mt, old, ended, expired, hit>>
    BY <1>15 DEF Drop
  <2>2. n # 0 /\ n \notin hit => expired[n] > 0
    BY <2>1 DEF TInv, Working, Works
  <2>3. \A i \in Index : slot'[i] = slot[i] \/ (slot'[i] = Empty /\ slot[i].link = n)
    BY <1>0, <2>1, Deleted
  <2>4. Working'
    <3>1. pc'[p].at = "idle" /\ \A q \in Sender : q # p => pc'[q] = pc[q] /\ pc[q].i \in Index
      BY <1>0, <1>5, <1>6, <2>1 DEF Places
    <3>2. \A i \in Index : slot'[i].link = slot[i].link \/ slot'[i].link = 0
      BY <2>3 DEF Empty
    <3> QED BY <2>1, <3>1, <3>2 DEF TInv, Working, Works
  <2>5. Saved' = Saved /\ 0 \notin Saved
    BY <1>0, <2>1, SavedIs DEF Saved
  <2> HIDE DEF n
  <2>6. NoneLost'
    <3> SUFFICES ASSUME NEW k \in Saved \ hit, k \notin ended, ~(expired[k] > 0) PROVE Present(k)'
      BY <2>1, <2>5 DEF NoneLost
    <3>1. PICK i \in Index : slot[i].use >= 1 /\ slot[i].link = k
      BY DEF TInv, NoneLost, Present
    <3>2. slot'[i] = slot[i]
      BY <2>2, <2>3, <2>5, <3>1
    <3> QED BY <3>1, <3>2 DEF Present
  <2>7. OnlyOld'
    BY <2>1, <2>5 DEF TInv, OnlyOld
  <2> QED BY <1>0, <2>4, <2>6, <2>7 DEF TInv
<1> QED BY <1>1, <1>2, <1>3, <1>7, <1>8, <1>9, <1>10, <1>11, <1>12, <1>13, <1>14, <1>15
        DEF Next, TimeoutStep

LEMMA TimeInit == Init => TInv
BY InvInit DEF Init, TInv, Working, Works, NoneLost, OnlyOld, Idle, Saved

LEMMA TimeInvariance == Spec => []TInv
BY TimeInit, TimeStep, PTL DEF Spec

\* However many processes send, no link gets lost that was stored in a slot no
\* timeout handler was at work on: what a handler deletes from its slot is the
\* link the error was raised for (lsn_deal_send_timeout_la).
THEOREM Kept == Spec => []NoneLost
<1>1. TInv => NoneLost
  BY DEF TInv
<1> QED BY <1>1, TimeInvariance, PTL

\* However many timers work on the table without its lock, the error goes to
\* calls past their timeout and to links stored where one was at work
\* (lsn_deal_send_timeout_la, 971 to 1018).
THEOREM OldOnly == Spec => []OnlyOld
<1>1. TInv => OnlyOld
  BY DEF TInv
<1> QED BY <1>1, TimeInvariance, PTL
=============================================================================
