-------------------------- MODULE MtypeLimitProofs --------------------------
(***************************************************************************)
(* The admission counter of a product, for every limit and any number of   *)
(* processes and sessions.                                                 *)
(*                                                                         *)
(* What the counter stands for are the Units: the requests that wait       *)
(* (Waiting), the processes in the middle of one that is counted and not   *)
(* yet subtracted (Busies), and the sessions that dead processes left and  *)
(* that will be subtracted when they are taken over (Left).  Units is      *)
(* above the counter by no more than what was subtracted twice or after a  *)
(* death, and by one for each meeting at the counter that has done its     *)
(* harm; of those who are at the counter now all but one may still do it   *)
(* (Pending).  The same holds of the value each of them has loaded and     *)
(* will store, and who has compared finds room for one more.               *)
(***************************************************************************)
EXTENDS MtypeLimit, TLAPS, FiniteSetTheorems

\* In the middle of a request that is counted, or of a slot's reclaim.
Busy(p) == \/ st[p].at \in {"lsn", "set", "reclaim"}
           \/ st[p].at \in {"del", "free"} /\ st[p].own
Busies == {p \in Proc : Busy(p)}

\* Somebody who was counted has the session m, or has subtracted it already.
Covers(p, m) == \/ m \in mine[p]
                \/ st[p].m = m /\ (Busy(p) \/ st[p].at \in {"mark", "zero"})
Left == {m \in named \cap used : \A p \in Proc : ~Covers(p, m)}

Units == Cardinality(Waiting) + Cardinality(Busies) + Cardinality(Left)

AtCounter == {p \in Proc : st[p].at \in Window}
Pending == IF AtCounter = {} THEN 0 ELSE Cardinality(AtCounter) - 1
Spare == torn + twice + met - Pending

Finite == IsFiniteSet(Waiting) /\ IsFiniteSet(Busies) /\ IsFiniteSet(Left) /\ IsFiniteSet(AtCounter)
Room(p) == /\ st[p].at \in {"store", "free", "reclaim"} => Units <= st[p].tmp + Spare
           /\ st[p].at \in {"inc", "store"} => Units + 1 <= Limit + Spare
Count == /\ Units <= use + Spare
         /\ Units <= Limit + Spare
         /\ \A p \in Proc : Room(p)
PlacedAt(p) == /\ st[p].at # "idle" => st[p].m \in Session
               /\ st[p].own => st[p].at \in {"del", "free", "mark"}
Placed == \A p \in Proc : PlacedAt(p)

IInv == TypeOK /\ Placed /\ Finite /\ Count

USE NoneAssumption, LimitAssumption, BoundAssumption

-----------------------------------------------------------------------------
(* The record of a process *)

State == [at : At, m : Session \cup {None}, tmp : Int, own : BOOLEAN, more : BOOLEAN]

\* p is in a new place, the others where they were.
Moved(p) == st' \in [Proc -> State] /\ \A q \in Proc : q # p => st'[q] = st[q]

LEMMA PlaceSet ==
  ASSUME TypeOK, NEW p \in Proc, NEW s \in State, st' = [st EXCEPT ![p] = s]
  PROVE  Moved(p) /\ st'[p] = s
BY DEF TypeOK, State, Moved

LEMMA PlaceFields ==
  ASSUME NEW at \in At, NEW m \in Session \cup {None}, NEW tmp \in Int,
         NEW own \in BOOLEAN, NEW more \in BOOLEAN
  PROVE  /\ Place(at, m, tmp, own, more) \in State
         /\ Place(at, m, tmp, own, more).at = at /\ Place(at, m, tmp, own, more).m = m
         /\ Place(at, m, tmp, own, more).tmp = tmp /\ Place(at, m, tmp, own, more).own = own
         /\ Place(at, m, tmp, own, more).more = more
BY DEF Place, State

LEMMA PlaceGo ==
  ASSUME TypeOK, NEW p \in Proc, NEW at \in At, NEW m \in Session \cup {None}, NEW tmp \in Int,
         NEW own \in BOOLEAN, NEW more \in BOOLEAN,
         st' = [st EXCEPT ![p] = Place(at, m, tmp, own, more)]
  PROVE  /\ Moved(p) /\ st'[p].at = at /\ st'[p].m = m
         /\ st'[p].tmp = tmp /\ st'[p].own = own
<1> DEFINE s == Place(at, m, tmp, own, more)
<1>1. s \in State /\ s.at = at /\ s.m = m /\ s.tmp = tmp /\ s.own = own
  BY PlaceFields
<1>2. st' = [st EXCEPT ![p] = s]
  OBVIOUS
<1> HIDE DEF s
<1>3. Moved(p) /\ st'[p] = s
  BY <1>1, <1>2, PlaceSet
<1> QED BY <1>1, <1>3

LEMMA IdleFields == Idle \in State /\ Idle.at = "idle" /\ Idle.own = FALSE /\ Idle.more = FALSE
BY DEF Idle, Place, State, At

LEMMA AgainFields ==
  ASSUME NEW m \in Session
  PROVE  LET t == Place("del", m, 0, FALSE, FALSE)
         IN  t \in State /\ t.at = "del" /\ t.m = m /\ t.own = FALSE
BY DEF Place, State, At

\* A step that only goes to another place.
LEMMA GotoSet ==
  ASSUME TypeOK, NEW p \in Proc, NEW at \in At, Goto(p, at)
  PROVE  /\ Moved(p) /\ st'[p].at = at /\ st'[p].m = st[p].m
         /\ st'[p].tmp = st[p].tmp /\ st'[p].own = st[p].own
<1> DEFINE s == Place(at, st[p].m, st[p].tmp, st[p].own, st[p].more)
<1>1. st[p] \in State
  BY DEF TypeOK, State
<1>2. [st[p] EXCEPT !.at = at] = s
  BY <1>1 DEF State, Place
<1>3. /\ s \in State /\ s.at = at /\ s.m = st[p].m /\ s.tmp = st[p].tmp /\ s.own = st[p].own
  <2>1. /\ st[p].m \in Session \cup {None} /\ st[p].tmp \in Int /\ st[p].own \in BOOLEAN
        /\ st[p].more \in BOOLEAN
    BY <1>1 DEF State
  <2> QED BY <2>1, PlaceFields
<1>4. st' = [st EXCEPT ![p] = s]
  BY <1>2 DEF Goto
<1> HIDE DEF s
<1>5. Moved(p) /\ st'[p] = s
  BY <1>3, <1>4, PlaceSet
<1> QED BY <1>3, <1>5

\* A step that also loads the counter.
LEMMA LoadSet ==
  ASSUME TypeOK, NEW p \in Proc, NEW at \in At, Load(p, at)
  PROVE  /\ Moved(p) /\ st'[p].at = at /\ st'[p].m = st[p].m
         /\ st'[p].tmp = use /\ st'[p].own = st[p].own
<1> DEFINE s == Place(at, st[p].m, use, st[p].own, st[p].more)
           v == Place(at, st[p].m, st[p].tmp, st[p].own, st[p].more)
<1>1. st[p] \in State /\ use \in Int
  BY DEF TypeOK, State
<1>2. [st EXCEPT ![p].at = at, ![p].tmp = use] = [st EXCEPT ![p] = s]
  <2>1. [st[p] EXCEPT !.at = at] = v
    BY <1>1 DEF State, Place
  <2>2. [v EXCEPT !.tmp = use] = s
    BY DEF Place
  <2>3. [st EXCEPT ![p].at = at] = [st EXCEPT ![p] = v]
    BY <2>1
  <2> HIDE DEF v
  <2>4. [[st EXCEPT ![p] = v] EXCEPT ![p].tmp = use] = [st EXCEPT ![p] = [v EXCEPT !.tmp = use]]
    BY DEF TypeOK
  <2> QED BY <2>2, <2>3, <2>4
<1>3. /\ s \in State /\ s.at = at /\ s.m = st[p].m /\ s.tmp = use /\ s.own = st[p].own
  <2>1. /\ st[p].m \in Session \cup {None} /\ st[p].own \in BOOLEAN /\ st[p].more \in BOOLEAN
    BY <1>1 DEF State
  <2> QED BY <1>1, <2>1, PlaceFields
<1>4. st' = [st EXCEPT ![p] = s]
  BY <1>2 DEF Load
<1> HIDE DEF s
<1>5. Moved(p) /\ st'[p] = s
  BY <1>3, <1>4, PlaceSet
<1> QED BY <1>3, <1>5

-----------------------------------------------------------------------------
(* Cardinalities *)

LEMMA Less ==
  ASSUME NEW S, IsFiniteSet(S), NEW T, T \subseteq S
  PROVE  /\ IsFiniteSet(T) /\ Cardinality(T) \in Nat /\ Cardinality(S) \in Nat
         /\ Cardinality(T) <= Cardinality(S)
BY FS_Subset, FS_CardinalityType

LEMMA LessOne ==
  ASSUME NEW S, IsFiniteSet(S), NEW x \in S, NEW T, T \subseteq S \ {x}
  PROVE  /\ IsFiniteSet(T) /\ Cardinality(T) \in Nat /\ Cardinality(S) \in Nat
         /\ Cardinality(T) <= Cardinality(S) - 1
<1>1. IsFiniteSet(S \ {x}) /\ Cardinality(S \ {x}) = Cardinality(S) - 1
  BY FS_RemoveElement
<1>2. /\ IsFiniteSet(T) /\ Cardinality(T) \in Nat /\ Cardinality(T) <= Cardinality(S \ {x})
  BY <1>1, Less
<1> QED BY <1>1, <1>2, FS_CardinalityType

LEMMA OneMore ==
  ASSUME NEW S, IsFiniteSet(S), NEW x, NEW T, T \subseteq S \cup {x}
  PROVE  /\ IsFiniteSet(T) /\ Cardinality(T) \in Nat /\ Cardinality(S) \in Nat
         /\ Cardinality(T) <= Cardinality(S) + 1
<1>1. /\ IsFiniteSet(S \cup {x}) /\ Cardinality(S) \in Nat
      /\ Cardinality(S \cup {x}) = IF x \in S THEN Cardinality(S) ELSE Cardinality(S) + 1
  BY FS_AddElement, FS_CardinalityType
<1>2. /\ IsFiniteSet(T) /\ Cardinality(T) \in Nat /\ Cardinality(T) <= Cardinality(S \cup {x})
  BY <1>1, Less
<1> QED BY <1>1, <1>2

-----------------------------------------------------------------------------
(* The parts of the invariant in a step *)

\* Numbers of the invariant.
Numeric == /\ Cardinality(Waiting) \in Nat /\ Cardinality(Busies) \in Nat /\ Cardinality(Left) \in Nat
           /\ Units \in Nat /\ Spare \in Int /\ use \in Int /\ Pending \in Nat
           /\ torn \in Nat /\ twice \in Nat /\ met \in Nat
LEMMA Numbers == TypeOK /\ Finite => Numeric
<1> SUFFICES ASSUME TypeOK, Finite PROVE Numeric
  OBVIOUS
<1>1. /\ Cardinality(Waiting) \in Nat /\ Cardinality(Busies) \in Nat /\ Cardinality(Left) \in Nat
      /\ Cardinality(AtCounter) \in Nat
  BY FS_CardinalityType DEF Finite
<1>2. AtCounter # {} => Cardinality(AtCounter) # 0
  BY FS_EmptySet DEF Finite
<1>3. Pending \in Nat
  BY <1>1, <1>2 DEF Pending
<1> QED BY <1>1, <1>3 DEF TypeOK, Units, Spare, Numeric

LEMMA NumbersNext == TypeOK' /\ Finite' => Numeric'
BY Numbers, PTL

\* What is to be shown of a step of p: the numbers for the counter and for p,
\* and that nothing gets worse for the others at the counter.
LEMMA Shift ==
  ASSUME NEW u \in Int, NEW s \in Int, NEW v \in Int, NEW t \in Int, v - t <= u - s, NEW x \in Int
  PROVE  (u <= x + s => v <= x + t) /\ (u + 1 <= x + s => v + 1 <= x + t)
OBVIOUS

LEMMA ShiftBy ==
  ASSUME NEW u \in Int, NEW s \in Int, NEW v \in Int, NEW t \in Int, NEW d \in Int, NEW e \in Int,
         v <= u + d + e, t = s + e + 1, d <= 1
  PROVE  v - t <= u - s
OBVIOUS

LEMMA ShiftUp ==
  ASSUME NEW u \in Int, NEW s \in Int, NEW v \in Int, NEW t \in Int, NEW e \in Int, v <= u + e, t >= s + e
  PROVE  v - t <= u - s
OBVIOUS

LEMMA Chain ==
  ASSUME NEW c \in Int, NEW u \in Int, NEW l \in Int, NEW s \in Int, NEW r \in Int,
         c <= u, u <= l + s, s <= r
  PROVE  c <= l + r
OBVIOUS

Others(p) == \E q \in Proc \ {p} : st[q].at \in Window
LEMMA Enough ==
  ASSUME IInv, NEW p \in Proc, Moved(p), TypeOK', Finite', PlacedAt(p)',
         Units' <= use' + Spare', Units' <= Limit + Spare', Room(p)',
         Others(p) => Units' - Spare' <= Units - Spare
  PROVE  IInv'
<1>1. Placed'
  BY DEF IInv, Placed, PlacedAt, Moved
<1>2. \A q \in Proc : Room(q)'
  <2> SUFFICES ASSUME NEW q \in Proc, q # p PROVE Room(q)'
    OBVIOUS
  <2>1. st'[q] = st[q] /\ Room(q) /\ st[q].tmp \in Int
    BY DEF Moved, IInv, Count, TypeOK
  <2>2. CASE st[q].at \in Window
    <3>1. Units' - Spare' <= Units - Spare
      BY <2>2 DEF Others
    <3>2. Units \in Int /\ Spare \in Int /\ Units' \in Int /\ Spare' \in Int
      BY Numbers, NumbersNext DEF IInv, Numeric
    <3>3. st[q].at \in {"store", "free", "reclaim"} => Units' <= st[q].tmp + Spare'
      <4>1. Units <= st[q].tmp + Spare => Units' <= st[q].tmp + Spare'
        BY <2>1, <3>1, <3>2, Shift
      <4> QED BY <2>1, <4>1 DEF Room
    <3>4. st[q].at \in {"inc", "store"} => Units' + 1 <= Limit + Spare'
      <4>1. Units + 1 <= Limit + Spare => Units' + 1 <= Limit + Spare'
        <5>1. Limit \in Int
          OBVIOUS
        <5> QED BY <3>1, <3>2, <5>1, Shift
      <4> QED BY <2>1, <4>1 DEF Room
    <3> QED BY <2>1, <3>3, <3>4 DEF Room
  <2>3. CASE st[q].at \notin Window
    BY <2>1, <2>3 DEF Room, Window
  <2> QED BY <2>2, <2>3
<1> QED BY <1>1, <1>2 DEF IInv, Count

\* p stays at the counter, or away from it.
LEMMA SpareSame ==
  ASSUME IInv, NEW p \in Proc, Moved(p), st'[p].at \in Window <=> st[p].at \in Window,
         met' = met, torn' \in Nat, twice' \in Nat
  PROVE  /\ IsFiniteSet(AtCounter')
         /\ Spare' = Spare + (torn' + twice') - (torn + twice)
<1>1. AtCounter' = AtCounter
  BY DEF AtCounter, Moved
<1>2. Pending' = Pending
  BY <1>1 DEF Pending
<1>3. Pending \in Nat /\ torn \in Nat /\ twice \in Nat /\ met \in Nat
  BY Numbers DEF IInv, Numeric
<1> QED BY <1>1, <1>2, <1>3 DEF Spare, IInv, Finite

\* p comes to the counter: if others are there it is counted.
LEMMA SpareEnter ==
  ASSUME IInv, NEW p \in Proc, Moved(p), st'[p].at \in Window, st[p].at \notin Window,
         Meet(p), UNCHANGED <<torn, twice>>
  PROVE  IsFiniteSet(AtCounter') /\ Spare' = Spare
<1>1. AtCounter' = AtCounter \cup {p} /\ p \notin AtCounter
  BY DEF AtCounter, Moved
<1>2. /\ IsFiniteSet(AtCounter') /\ Cardinality(AtCounter) \in Nat
      /\ Cardinality(AtCounter') = Cardinality(AtCounter) + 1
  BY <1>1, FS_AddElement, FS_CardinalityType DEF IInv, Finite
<1>3. AtCounter # {} <=> Others(p)
  BY <1>1 DEF AtCounter, Others
<1>4. torn \in Nat /\ twice \in Nat /\ met \in Nat
  BY Numbers DEF IInv, Numeric
<1>5. CASE AtCounter = {}
  <2>1. Cardinality(AtCounter) = 0 /\ met' = met
    BY <1>3, <1>5, FS_EmptySet DEF Meet, Others
  <2>2. Pending = 0 /\ Pending' = 0
    BY <1>1, <1>2, <1>5, <2>1 DEF Pending
  <2> QED BY <1>2, <1>4, <2>1, <2>2 DEF Spare
<1>6. CASE AtCounter # {}
  <2>1. met' = met + 1
    BY <1>3, <1>6 DEF Meet, Others
  <2>2. Pending = Cardinality(AtCounter) - 1 /\ Pending' = Cardinality(AtCounter)
    BY <1>1, <1>2, <1>6 DEF Pending
  <2> QED BY <1>2, <1>4, <2>1, <2>2 DEF Spare
<1> QED BY <1>5, <1>6

\* p leaves the counter: for the others one of the meetings is over.
LEMMA SpareLeave ==
  ASSUME IInv, NEW p \in Proc, Moved(p), st'[p].at \notin Window, st[p].at \in Window,
         met' = met, torn' \in Nat, twice' \in Nat
  PROVE  /\ IsFiniteSet(AtCounter')
         /\ Spare' = Spare + (torn' + twice') - (torn + twice) + (IF Others(p) THEN 1 ELSE 0)
<1>1. AtCounter' = AtCounter \ {p} /\ p \in AtCounter
  BY DEF AtCounter, Moved
<1>2. /\ IsFiniteSet(AtCounter') /\ Cardinality(AtCounter) \in Nat
      /\ Cardinality(AtCounter') = Cardinality(AtCounter) - 1
  BY <1>1, FS_RemoveElement, FS_CardinalityType DEF IInv, Finite
<1>3. AtCounter' # {} <=> Others(p)
  BY <1>1 DEF AtCounter, Others
<1>4. torn \in Nat /\ twice \in Nat /\ met \in Nat
  BY Numbers DEF IInv, Numeric
<1>5. Pending = Cardinality(AtCounter) - 1
  BY <1>1 DEF Pending
<1>6. CASE Others(p)
  <2>1. Pending' = Cardinality(AtCounter) - 2
    BY <1>2, <1>3, <1>6 DEF Pending
  <2> QED BY <1>2, <1>4, <1>5, <1>6, <2>1 DEF Spare
<1>7. CASE ~Others(p)
  <2>1. Cardinality(AtCounter') = 0 /\ Pending' = 0
    BY <1>3, <1>7, FS_EmptySet DEF Pending
  <2> QED BY <1>2, <1>4, <1>5, <1>7, <2>1 DEF Spare
<1> QED BY <1>6, <1>7

\* The sessions of the dead: none more if p covers what it covered.
LEMMA LeftSame ==
  ASSUME NEW p \in Proc, Moved(p), \A q \in Proc : q # p => mine'[q] = mine[q],
         NEW N, \A k \in named' \cap used' :
                   /\ k \in N => Covers(p, k)'
                   /\ k \notin N => k \in named \cap used /\ (Covers(p, k) => Covers(p, k)')
  PROVE  Left' \subseteq Left \ N
<1> SUFFICES ASSUME NEW k \in Left' PROVE k \in Left \ N
  OBVIOUS
<1>1. k \in named' \cap used' /\ \A q \in Proc : ~Covers(q, k)'
  BY DEF Left
<1>2. \A q \in Proc : q # p => ~Covers(q, k)
  BY <1>1 DEF Covers, Busy, Moved
<1> QED BY <1>1, <1>2 DEF Left

LEMMA LeftDown ==
  ASSUME NEW p \in Proc, Moved(p), \A q \in Proc : q # p => mine'[q] = mine[q],
         \A k \in named' \cap used' : Covers(p, k)' \/ (k \in named \cap used /\ ~Covers(p, k))
  PROVE  Left' \subseteq Left
<1> SUFFICES ASSUME NEW k \in Left' PROVE k \in Left
  OBVIOUS
<1>1. k \in named' \cap used' /\ \A q \in Proc : ~Covers(q, k)'
  BY DEF Left
<1>2. \A q \in Proc : q # p => ~Covers(q, k)
  BY <1>1 DEF Covers, Busy, Moved
<1> QED BY <1>1, <1>2 DEF Left

\* p is busy before and after, or neither.
LEMMA BusySame ==
  ASSUME NEW p \in Proc, Moved(p) PROVE  /\ (Busy(p)' => Busy(p)) => Busies' \subseteq Busies
                                         /\ ~Busy(p)' => Busies' \subseteq Busies \ {p}
                                         /\ Busies' \subseteq Busies \cup {p}
<1>1. \A q \in Proc : q # p => (Busy(q)' <=> Busy(q))
  BY DEF Busy, Moved
<1> QED BY <1>1 DEF Busies

\* TypeOK without st, which Moved gives.
Rest == /\ use \in Int
        /\ used \subseteq Session /\ named \subseteq Session /\ late \subseteq Session
        /\ mine \in [Proc -> SUBSET Session]
        /\ met \in 0 .. MaxMeet /\ torn \in Nat /\ twice \in Nat
        /\ again \in 0 .. MaxAgain /\ crashes \in 0 .. MaxCrash
LEMMA TypeParts == TypeOK <=> Rest /\ st \in [Proc -> State]
BY DEF TypeOK, Rest, State

\* A step away from the counter by which Units does not grow more than Spare,
\* or by which p comes to the counter and finds what it needs.
LEMMA Calm ==
  ASSUME IInv, NEW p \in Proc, Moved(p), Rest', use' = use, PlacedAt(p)', Room(p)',
         Finite', Units' - Spare' <= Units - Spare
  PROVE  IInv'
<1>1. TypeOK'
  BY TypeParts DEF Rest, Moved, TypeOK, State
<1>2. /\ Units \in Int /\ Spare \in Int /\ Units' \in Int /\ Spare' \in Int /\ use \in Int
      /\ Limit \in Int
  BY <1>1, Numbers, NumbersNext DEF IInv, Numeric
<1>3. Units <= use + Spare /\ Units <= Limit + Spare
  BY DEF IInv, Count
<1>4. Units' <= use' + Spare'
  BY <1>2, <1>3, Shift
<1>5. Units' <= Limit + Spare'
  BY <1>2, <1>3, Shift
<1> QED BY <1>1, <1>4, <1>5, Enough

\* Such a step without deaths: Units does not grow and Spare stays.
LEMMA Still ==
  ASSUME IInv, NEW p \in Proc, Moved(p), Rest', use' = use, PlacedAt(p)',
         UNCHANGED <<torn, twice>>,
         \/ (st'[p].at \in Window <=> st[p].at \in Window) /\ met' = met
         \/ st'[p].at \in Window /\ st[p].at \notin Window /\ Meet(p),
         /\ st'[p].at \in {"store", "free", "reclaim"} => st'[p].tmp = use
         /\ st'[p].at = "inc" => use < Limit
         /\ st'[p].at = "store" => st[p].at = "inc",
         /\ IsFiniteSet(Waiting') /\ IsFiniteSet(Busies') /\ IsFiniteSet(Left')
         /\ Units' <= Units
  PROVE  IInv'
<1>1. TypeOK' /\ TypeOK /\ Finite /\ Count
  BY TypeParts DEF Rest, Moved, TypeOK, State, IInv
<1>2. Numeric
  BY <1>1, Numbers
<1>3. IsFiniteSet(AtCounter') /\ Spare' = Spare
  <2>1. CASE (st'[p].at \in Window <=> st[p].at \in Window) /\ met' = met
    <3>1. torn' \in Nat /\ twice' \in Nat
      BY DEF Rest
    <3>2. IsFiniteSet(AtCounter') /\ Spare' = Spare + (torn' + twice') - (torn + twice)
      BY <2>1, <3>1, SpareSame
    <3> QED BY <1>2, <3>2 DEF Numeric
  <2>2. CASE st'[p].at \in Window /\ st[p].at \notin Window /\ Meet(p)
    BY <2>2, SpareEnter
  <2> QED BY <2>1, <2>2
<1>4. Finite'
  BY <1>3 DEF Finite
<1>5. Numeric'
  BY <1>1, <1>4, NumbersNext
<1>i. Units \in Int /\ Spare \in Int /\ Units' \in Int /\ Spare' \in Int /\ use \in Int
  BY <1>2, <1>5 DEF Numeric
<1>6. Units' - Spare' <= Units - Spare
  BY <1>i, <1>3
<1>7. Units <= use + Spare
  BY <1>1 DEF Count
<1>8. Room(p)'
  <2>1. ASSUME st'[p].at \in {"store", "free", "reclaim"} PROVE Units' <= st'[p].tmp + Spare'
    BY <1>2, <1>3, <1>5, <1>7, <2>1 DEF Numeric
  <2>2. ASSUME st'[p].at \in {"inc", "store"} PROVE Units' + 1 <= Limit + Spare'
    <3>1. Units + 1 <= Limit + Spare
      <4>1. CASE st'[p].at = "inc"
        BY <1>2, <1>7, <4>1 DEF Numeric
      <4>2. CASE st'[p].at = "store"
        BY <1>1, <4>2 DEF Count, Room
      <4> QED BY <2>2, <4>1, <4>2
    <3> QED BY <1>i, <1>6, <3>1, Shift
  <2> QED BY <2>1, <2>2 DEF Room
<1> QED BY <1>4, <1>6, <1>8, Calm

-----------------------------------------------------------------------------
(* The steps *)

\* Nobody comes to wait or to be busy, and no session is left.
LEMMA Quiet ==
  ASSUME IInv, NEW p \in Proc, Moved(p), mine' = mine,
         Busy(p)' => Busy(p), Left' \subseteq Left
  PROVE  /\ IsFiniteSet(Waiting') /\ IsFiniteSet(Busies') /\ IsFiniteSet(Left')
         /\ Units' <= Units
<1>1. Waiting' = Waiting
  BY DEF Waiting
<1>2. Busies' \subseteq Busies
  BY BusySame
<1>3. /\ IsFiniteSet(Waiting) /\ IsFiniteSet(Busies) /\ IsFiniteSet(Left)
  BY DEF IInv, Finite
<1>4. /\ IsFiniteSet(Busies') /\ Cardinality(Busies') <= Cardinality(Busies)
      /\ Cardinality(Busies) \in Nat /\ Cardinality(Busies') \in Nat
  BY <1>2, <1>3, Less
<1>5. /\ IsFiniteSet(Left') /\ Cardinality(Left') <= Cardinality(Left)
      /\ Cardinality(Left) \in Nat /\ Cardinality(Left') \in Nat
  BY <1>3, Less
<1>6. Cardinality(Waiting) \in Nat /\ Cardinality(Waiting') = Cardinality(Waiting)
  BY <1>1, <1>3, FS_CardinalityType
<1> QED BY <1>1, <1>3, <1>4, <1>5, <1>6 DEF Units

LEMMA StepNew ==
  ASSUME IInv, NEW p \in Proc, NEW m \in Session, New(p, m) PROVE IInv'
<1>0. TypeOK /\ Rest
  BY TypeParts DEF IInv
<1>1. /\ st[p].at = "idle" /\ m \notin used /\ used' = used \cup {m} /\ named' = named \ {m}
      /\ UNCHANGED <<use, mine, late, ghost>>
      /\ st' = [st EXCEPT ![p] = Place("check", m, 0, FALSE, FALSE)]
  BY DEF New
<1>2. /\ Moved(p) /\ st'[p].at = "check" /\ st'[p].m = m /\ st'[p].own = FALSE
  <2>1. "check" \in At /\ m \in Session \cup {None} /\ 0 \in Int /\ FALSE \in BOOLEAN
    BY DEF At
  <2> QED BY <1>0, <1>1, <2>1, PlaceGo
<1>3. Rest'
  BY <1>0, <1>1 DEF Rest, ghost
<1>4. Left' \subseteq Left
  <2>1. Left' \subseteq Left \ {}
    BY <1>1, <1>2, LeftSame DEF Covers, Busy
  <2> QED BY <2>1
<1>5. ~Busy(p)'
  BY <1>2 DEF Busy
<1> QED BY <1>1, <1>2, <1>3, <1>4, <1>5, Quiet, Still DEF ghost, Window, PlacedAt

LEMMA StepReclaim ==
  ASSUME IInv, NEW p \in Proc, NEW m \in Session, NewReclaim(p, m) PROVE IInv'
<1>0. TypeOK /\ Rest
  BY TypeParts DEF IInv
<1> DEFINE at == IF m \in named THEN "reclaim" ELSE "zero"
<1>1. /\ st[p].at = "idle" /\ m \in used /\ \A q \in Proc : m \notin Held(q)
      /\ IF m \in named THEN Meet(p) ELSE met' = met
      /\ UNCHANGED <<use, used, named, mine, late, torn, twice, again, crashes>>
      /\ st' = [st EXCEPT ![p] = Place(at, m, use, FALSE, FALSE)]
  BY DEF NewReclaim
<1>2. /\ Moved(p) /\ st'[p].at = at /\ st'[p].m = m /\ st'[p].tmp = use /\ st'[p].own = FALSE
  <2>1. at \in At
    BY DEF At
  <2> HIDE DEF at
  <2>2. use \in Int
    BY <1>0 DEF Rest
  <2> QED BY <1>0, <1>1, <2>1, <2>2, PlaceGo
<1>3. Rest'
  BY <1>0, <1>1 DEF Rest, Meet
<1>4. CASE m \in named
  <2>1. Left' \subseteq Left \ {m}
    BY <1>1, <1>2, <1>4, LeftSame DEF Covers, Busy
  <2>2. m \in Left
    BY <1>1, <1>4 DEF Left, Covers, Held
  <2>3. Busies' \subseteq Busies \cup {p}
    BY <1>2, BusySame
  <2>4. /\ IsFiniteSet(Waiting) /\ IsFiniteSet(Busies) /\ IsFiniteSet(Left)
    BY DEF IInv, Finite
  <2>5. /\ IsFiniteSet(Left') /\ Cardinality(Left') <= Cardinality(Left) - 1
        /\ Cardinality(Left) \in Nat /\ Cardinality(Left') \in Nat
    BY <2>1, <2>2, <2>4, LessOne
  <2>6. /\ IsFiniteSet(Busies') /\ Cardinality(Busies') <= Cardinality(Busies) + 1
        /\ Cardinality(Busies) \in Nat /\ Cardinality(Busies') \in Nat
    BY <2>3, <2>4, OneMore
  <2>7. Waiting' = Waiting /\ Cardinality(Waiting) \in Nat /\ Cardinality(Waiting') = Cardinality(Waiting)
    BY <1>1, <2>4, FS_CardinalityType DEF Waiting
  <2>8. Units' <= Units
    BY <2>5, <2>6, <2>7 DEF Units
  <2>9. st'[p].at = "reclaim" /\ Meet(p)
    BY <1>1, <1>2, <1>4
  <2> QED BY <1>1, <1>2, <1>3, <2>4, <2>5, <2>6, <2>7, <2>8, <2>9, Still DEF Window, PlacedAt
<1>5. CASE m \notin named
  <2>1. Left' \subseteq Left
    <3>1. \A k \in named' \cap used' : Covers(p, k)' \/ (k \in named \cap used /\ ~Covers(p, k))
      BY <1>1 DEF Covers, Busy
    <3>2. \A q \in Proc : q # p => mine'[q] = mine[q]
      BY <1>1
    <3> QED BY <1>2, <3>1, <3>2, LeftDown
  <2>2. st'[p].at = "zero" /\ ~Busy(p)'
    BY <1>2, <1>5 DEF Busy
  <2> QED BY <1>1, <1>2, <1>3, <1>5, <2>1, <2>2, Quiet, Still DEF Window, PlacedAt
<1> QED BY <1>4, <1>5

LEMMA StepZero == ASSUME IInv, NEW p \in Proc, NewZero(p) PROVE IInv'
<1>0. TypeOK /\ Rest /\ PlacedAt(p)
  BY TypeParts DEF IInv, Placed
<1>1. /\ st[p].at = "zero" /\ Goto(p, "check") /\ named' = named \ {st[p].m}
      /\ UNCHANGED <<use, used, mine, late, ghost>>
  BY DEF NewZero
<1>2. /\ Moved(p) /\ st'[p].at = "check" /\ st'[p].m = st[p].m /\ st'[p].own = st[p].own
  BY <1>0, <1>1, GotoSet DEF At
<1>3. Rest'
  BY <1>0, <1>1 DEF Rest, ghost
<1>4. Left' \subseteq Left
  <2>1. Left' \subseteq Left \ {}
    BY <1>1, <1>2, LeftSame DEF Covers, Busy
  <2> QED BY <2>1
<1>6. ~Busy(p)' /\ PlacedAt(p)'
  BY <1>0, <1>1, <1>2 DEF Busy, PlacedAt
<1> QED BY <1>1, <1>2, <1>3, <1>4, <1>6, Quiet, Still DEF ghost, Window

LEMMA StepCheck == ASSUME IInv, NEW p \in Proc, Check(p) PROVE IInv'
<1>0. TypeOK /\ Rest /\ PlacedAt(p)
  BY TypeParts DEF IInv, Placed
<1> DEFINE at == IF use >= Limit THEN "del" ELSE "inc"
<1>1. /\ st[p].at = "check" /\ Goto(p, at) /\ IF use < Limit THEN Meet(p) ELSE met' = met
      /\ UNCHANGED <<use, used, named, mine, late, torn, twice, again, crashes>>
  BY DEF Check
<1>a. at \in At /\ ((at = "inc" /\ use < Limit) \/ (at = "del" /\ ~(use < Limit)))
  BY <1>0 DEF Rest, At
<1> HIDE DEF at
<1>2. /\ Moved(p) /\ st'[p].at = at /\ st'[p].m = st[p].m /\ st'[p].own = st[p].own
  BY <1>0, <1>1, <1>a, GotoSet
<1>3. Rest'
  BY <1>0, <1>1 DEF Rest, Meet
<1>4. Left' \subseteq Left
  BY <1>1, <1>2, LeftDown DEF Covers, Busy
<1>5. ~Busy(p)' /\ PlacedAt(p)'
  BY <1>0, <1>1, <1>2, <1>a DEF Busy, PlacedAt
<1>6. /\ IsFiniteSet(Waiting') /\ IsFiniteSet(Busies') /\ IsFiniteSet(Left')
      /\ Units' <= Units
  BY <1>1, <1>2, <1>4, <1>5, Quiet
<1> QED BY <1>1, <1>2, <1>3, <1>5, <1>6, <1>a, Still DEF Window

LEMMA StepIncLoad == ASSUME IInv, NEW p \in Proc, IncLoad(p) PROVE IInv'
<1>0. TypeOK /\ Rest /\ PlacedAt(p)
  BY TypeParts DEF IInv, Placed
<1>1. /\ st[p].at = "inc" /\ Load(p, "store") /\ UNCHANGED <<use, used, named, mine, late, ghost>>
  BY DEF IncLoad
<1>2. /\ Moved(p) /\ st'[p].at = "store" /\ st'[p].m = st[p].m /\ st'[p].tmp = use /\ st'[p].own = st[p].own
  BY <1>0, <1>1, LoadSet DEF At
<1>3. Rest'
  BY <1>0, <1>1 DEF Rest, ghost
<1>4. Left' \subseteq Left
  BY <1>1, <1>2, LeftDown DEF Covers, Busy
<1>5. ~Busy(p)' /\ PlacedAt(p)'
  BY <1>0, <1>1, <1>2 DEF Busy, PlacedAt
<1> QED BY <1>1, <1>2, <1>3, <1>4, <1>5, Quiet, Still DEF ghost, Window

LEMMA StepLsnOk == ASSUME IInv, NEW p \in Proc, LsnOk(p) PROVE IInv'
<1>0. TypeOK /\ Rest /\ PlacedAt(p)
  BY TypeParts DEF IInv, Placed
<1>1. /\ st[p].at = "lsn" /\ Goto(p, "set") /\ UNCHANGED <<use, used, named, mine, late, ghost>>
  BY DEF LsnOk
<1>2. /\ Moved(p) /\ st'[p].at = "set" /\ st'[p].m = st[p].m /\ st'[p].own = st[p].own
  BY <1>0, <1>1, GotoSet DEF At
<1>3. Rest'
  BY <1>0, <1>1 DEF Rest, ghost
<1>4. Left' \subseteq Left
  BY <1>1, <1>2, LeftDown DEF Covers, Busy
<1>5. Busy(p) /\ PlacedAt(p)'
  BY <1>0, <1>1, <1>2 DEF Busy, PlacedAt
<1> QED BY <1>1, <1>2, <1>3, <1>4, <1>5, Quiet, Still DEF ghost, Window

\* A step that goes to the deletion of the own session.
LEMMA OwnSet ==
  ASSUME TypeOK, NEW p \in Proc, st' = [st EXCEPT ![p].at = "del", ![p].own = TRUE]
  PROVE  Moved(p) /\ st'[p].at = "del" /\ st'[p].m = st[p].m /\ st'[p].own = TRUE
<1> DEFINE v == [st[p] EXCEPT !.at = "del"]
           s == [v EXCEPT !.own = TRUE]
<1>1. st[p] \in State /\ "del" \in At
  BY DEF TypeOK, State, At
<1>2. v \in State /\ v.at = "del" /\ v.m = st[p].m
  BY <1>1 DEF State
<1>3. st' = [st EXCEPT ![p] = s]
  BY DEF TypeOK
<1> HIDE DEF v
<1>4. s \in State /\ s.at = v.at /\ s.m = v.m /\ s.own = TRUE
  BY <1>2 DEF State
<1> HIDE DEF s
<1>5. Moved(p) /\ st'[p] = s
  BY <1>3, <1>4, PlaceSet
<1> QED BY <1>2, <1>4, <1>5

LEMMA StepFails == ASSUME IInv, NEW p \in Proc, RequestFails(p) PROVE IInv'
<1>0. TypeOK /\ Rest /\ PlacedAt(p)
  BY TypeParts DEF IInv, Placed
<1>1. /\ st[p].at = "set" /\ UNCHANGED <<use, used, named, mine, late, ghost>>
      /\ st' = [st EXCEPT ![p].at = "del", ![p].own = TRUE]
  BY DEF RequestFails
<1>2. /\ Moved(p) /\ st'[p].at = "del" /\ st'[p].m = st[p].m /\ st'[p].own = TRUE
  BY <1>0, <1>1, OwnSet
<1>3. Rest'
  BY <1>0, <1>1 DEF Rest, ghost
<1>4. Left' \subseteq Left
  BY <1>1, <1>2, LeftDown DEF Covers, Busy
<1>5. Busy(p) /\ PlacedAt(p)'
  BY <1>0, <1>1, <1>2 DEF Busy, PlacedAt
<1> QED BY <1>1, <1>2, <1>3, <1>4, <1>5, Quiet, Still DEF ghost, Window

LEMMA StepLate ==
  ASSUME IInv, NEW p \in Proc, NEW m \in Session, LateAnswer(p, m) PROVE IInv'
<1>0. TypeOK /\ Rest
  BY TypeParts DEF IInv
<1>1. /\ st[p].at = "idle" /\ again < MaxAgain /\ again' = again + 1 /\ late' = late \ {m}
      /\ UNCHANGED <<use, used, named, mine, met, torn, twice, crashes>>
      /\ st' = [st EXCEPT ![p] = Place("del", m, 0, FALSE, FALSE)]
  BY DEF LateAnswer, Deleting
<1>2. /\ Moved(p) /\ st'[p].at = "del" /\ st'[p].m = m /\ st'[p].own = FALSE
  <2>1. "del" \in At /\ m \in Session \cup {None} /\ 0 \in Int /\ FALSE \in BOOLEAN
    BY DEF At
  <2> QED BY <1>0, <1>1, <2>1, PlaceGo
<1>3. Rest'
  BY <1>0, <1>1 DEF Rest
<1>4. Left' \subseteq Left
  BY <1>1, <1>2, LeftDown DEF Covers, Busy
<1>5. ~Busy(p)' /\ PlacedAt(p)'
  BY <1>2 DEF Busy, PlacedAt
<1> QED BY <1>1, <1>2, <1>3, <1>4, <1>5, Quiet, Still DEF Window

LEMMA StepFreeLoad == ASSUME IInv, NEW p \in Proc, FreeLoad(p) PROVE IInv'
<1>0. TypeOK /\ Rest /\ PlacedAt(p)
  BY TypeParts DEF IInv, Placed
<1>1. st[p].at = "del" /\ UNCHANGED <<use, used, named, mine, late, torn, twice, again, crashes>>
  BY DEF FreeLoad
<1>2. CASE st[p].m \in named
  <2>1. Load(p, "free") /\ Meet(p)
    BY <1>2 DEF FreeLoad
  <2>2. /\ Moved(p) /\ st'[p].at = "free" /\ st'[p].m = st[p].m /\ st'[p].tmp = use /\ st'[p].own = st[p].own
    BY <1>0, <2>1, LoadSet DEF At
  <2>3. Rest'
    BY <1>0, <1>1, <2>1 DEF Rest, Meet
  <2>4. Left' \subseteq Left
    BY <1>1, <2>2, LeftDown DEF Covers, Busy
  <2>5. (Busy(p)' => Busy(p)) /\ PlacedAt(p)'
    BY <1>0, <1>1, <2>2 DEF Busy, PlacedAt
  <2>6. /\ IsFiniteSet(Waiting') /\ IsFiniteSet(Busies') /\ IsFiniteSet(Left')
        /\ Units' <= Units
    BY <1>1, <2>2, <2>4, <2>5, Quiet
  <2> QED BY <1>1, <2>1, <2>2, <2>3, <2>5, <2>6, Still DEF Window
<1>3. CASE st[p].m \notin named
  <2>1. Goto(p, "mark") /\ met' = met
    BY <1>3 DEF FreeLoad
  <2>2. /\ Moved(p) /\ st'[p].at = "mark" /\ st'[p].m = st[p].m /\ st'[p].own = st[p].own
    BY <1>0, <2>1, GotoSet DEF At
  <2>3. Rest'
    BY <1>0, <1>1, <2>1 DEF Rest
  <2>4. Left' \subseteq Left
    BY <1>1, <2>2, LeftDown DEF Covers, Busy
  <2>5. ~Busy(p)' /\ PlacedAt(p)'
    BY <1>0, <1>1, <2>2 DEF Busy, PlacedAt
  <2> QED BY <1>1, <2>1, <2>2, <2>3, <2>4, <2>5, Quiet, Still DEF Window
<1> QED BY <1>2, <1>3

LEMMA StepMark == ASSUME IInv, NEW p \in Proc, Mark(p) PROVE IInv'
<1>0. TypeOK /\ Rest /\ PlacedAt(p)
  BY TypeParts DEF IInv, Placed
<1> DEFINE s == AfterMark(p)
<1>1. /\ st[p].at = "mark" /\ used' = used \ {st[p].m} /\ UNCHANGED <<use, named, mine, late, ghost>>
      /\ st' = [st EXCEPT ![p] = s]
  BY DEF Mark
<1>2. /\ s \in State /\ s.own = FALSE
      /\ s.at = "idle" \/ (s.at = "del" /\ s.m \in Session)
  <2>1. CASE st[p].more
    <3>1. s = Place("del", st[p].m, 0, FALSE, FALSE)
      BY <2>1 DEF AfterMark
    <3>2. "del" \in At /\ st[p].m \in Session /\ 0 \in Int /\ FALSE \in BOOLEAN
      BY <1>0, <1>1 DEF At, PlacedAt
    <3> DEFINE t == Place("del", st[p].m, 0, FALSE, FALSE)
    <3>4. t \in State /\ t.own = FALSE /\ t.at = "del" /\ t.m = st[p].m
      BY <3>2, AgainFields
    <3> HIDE DEF s, t
    <3>5. s = t
      BY <3>1 DEF t
    <3> QED BY <3>2, <3>4, <3>5
  <2>2. CASE ~st[p].more
    BY <2>2, IdleFields DEF AfterMark
  <2> QED BY <2>1, <2>2
<1> HIDE DEF s
<1>3. Moved(p) /\ st'[p] = s
  BY <1>0, <1>1, <1>2, PlaceSet
<1>4. Rest'
  BY <1>0, <1>1 DEF Rest, ghost
<1>5. Left' \subseteq Left
  BY <1>1, <1>3, LeftDown DEF Covers, Busy
<1>6. ~Busy(p)' /\ PlacedAt(p)'
  BY <1>2, <1>3 DEF Busy, PlacedAt
<1> QED BY <1>1, <1>2, <1>3, <1>4, <1>5, <1>6, Quiet, Still DEF ghost, Window

-----------------------------------------------------------------------------
(* The steps that store the counter *)

\* p leaves the counter with the value n.  Units has grown by no more than n
\* is above what p had loaded and what is now spare.
LEMMA Store ==
  ASSUME IInv, NEW p \in Proc, Moved(p), Rest', PlacedAt(p)', mine' = mine, met' = met,
         st[p].at \in Window, st'[p].at \notin Window,
         NEW d \in Int, NEW e \in Int, use' = st[p].tmp + d,
         st[p].at \in {"store", "free", "reclaim"},
         torn' + twice' = torn + twice + e,
         \/ d = 1 /\ e = 0 /\ st[p].at = "store" /\ Busies' \subseteq Busies \cup {p}
         \/ d = -1 /\ e = 0 /\ p \in Busies /\ Busies' \subseteq Busies \ {p}
         \/ d = -1 /\ e = 1 /\ Busies' \subseteq Busies,
         Left' \subseteq Left
  PROVE  IInv'
<1>1. TypeOK' /\ TypeOK /\ Finite /\ Count
  BY TypeParts DEF Rest, Moved, TypeOK, State, IInv
<1>2. Numeric /\ st[p].tmp \in Int
  BY <1>1, Numbers DEF TypeOK
<1>3. torn' \in Nat /\ twice' \in Nat
  BY DEF Rest
<1>4. /\ IsFiniteSet(AtCounter')
      /\ Spare' = Spare + (torn' + twice') - (torn + twice) + (IF Others(p) THEN 1 ELSE 0)
  BY <1>3, SpareLeave
<1>5. /\ IsFiniteSet(Waiting) /\ IsFiniteSet(Busies) /\ IsFiniteSet(Left)
  BY <1>1 DEF Finite
<1>6. /\ IsFiniteSet(Left') /\ Cardinality(Left') <= Cardinality(Left)
      /\ Cardinality(Left) \in Nat /\ Cardinality(Left') \in Nat
  BY <1>5, Less
<1>7. /\ Waiting' = Waiting /\ Cardinality(Waiting) \in Nat /\ Cardinality(Waiting') = Cardinality(Waiting)
  BY <1>5, FS_CardinalityType DEF Waiting
<1>8. /\ IsFiniteSet(Busies') /\ Cardinality(Busies) \in Nat /\ Cardinality(Busies') \in Nat
      /\ Cardinality(Busies') <= Cardinality(Busies) + d + e
  <2>1. CASE d = 1 /\ e = 0 /\ Busies' \subseteq Busies \cup {p}
    BY <1>5, <2>1, OneMore
  <2>2. CASE d = -1 /\ e = 0 /\ p \in Busies /\ Busies' \subseteq Busies \ {p}
    BY <1>5, <2>2, LessOne
  <2>3. CASE d = -1 /\ e = 1 /\ Busies' \subseteq Busies
    BY <1>5, <2>3, Less
  <2> QED BY <2>1, <2>2, <2>3
<1>9. Finite'
  BY <1>4, <1>5, <1>6, <1>7, <1>8 DEF Finite
<1>10. Units' <= Units + d + e
  BY <1>6, <1>7, <1>8 DEF Units
<1>11. /\ Units \in Int /\ Spare \in Int /\ Units' \in Int /\ Spare' \in Int /\ Limit \in Int
  BY <1>1, <1>2, <1>9, NumbersNext DEF Numeric
<1>12. /\ Spare' >= Spare + e /\ (Others(p) => Spare' = Spare + e + 1)
  <2>1. torn \in Int /\ twice \in Int /\ torn' \in Int /\ twice' \in Int
    BY <1>2, <1>3 DEF Numeric
  <2> QED BY <1>4, <1>11, <2>1
<1>13. Units <= st[p].tmp + Spare /\ Units <= Limit + Spare /\ (d = 1 => Units + 1 <= Limit + Spare)
  BY <1>1 DEF Count, Room
<1>14. Units' <= use' + Spare'
  BY <1>2, <1>10, <1>11, <1>12, <1>13
<1>15. Units' <= Limit + Spare'
  BY <1>10, <1>11, <1>12, <1>13
<1>16. Others(p) => Units' - Spare' <= Units - Spare
  <2>1. d <= 1
    OBVIOUS
  <2> QED BY <1>10, <1>11, <1>12, <2>1, ShiftBy
<1>17. Room(p)'
  BY DEF Room, Window
<1> QED BY <1>1, <1>9, <1>14, <1>15, <1>16, <1>17, Enough

LEMMA StepIncStore == ASSUME IInv, NEW p \in Proc, IncStore(p) PROVE IInv'
<1>0. TypeOK /\ Rest /\ PlacedAt(p) /\ st[p].tmp \in Int
  BY TypeParts DEF IInv, Placed, TypeOK
<1>1. /\ st[p].at = "store" /\ Goto(p, "lsn") /\ use' = st[p].tmp + 1
      /\ UNCHANGED <<used, named, mine, late, ghost>>
  BY DEF IncStore
<1>2. /\ Moved(p) /\ st'[p].at = "lsn" /\ st'[p].m = st[p].m /\ st'[p].own = st[p].own
  BY <1>0, <1>1, GotoSet DEF At
<1>3. Rest'
  BY <1>0, <1>1 DEF Rest, ghost
<1>4. Left' \subseteq Left
  BY <1>1, <1>2, LeftDown DEF Covers, Busy
<1>5. PlacedAt(p)' /\ Busies' \subseteq Busies \cup {p}
  BY <1>0, <1>1, <1>2, BusySame DEF PlacedAt
<1>6. torn' + twice' = torn + twice + 0 /\ mine' = mine /\ met' = met
  BY <1>0, <1>1 DEF Rest, ghost
<1>7. st[p].at \in Window /\ st'[p].at \notin Window /\ 0 \in Int /\ 1 \in Int
  BY <1>1, <1>2 DEF Window
<1> QED BY <1>1, <1>2, <1>3, <1>4, <1>5, <1>6, <1>7, Store

LEMMA StepReclaimStore == ASSUME IInv, NEW p \in Proc, NewReclaimStore(p) PROVE IInv'
<1>0. TypeOK /\ Rest /\ PlacedAt(p) /\ st[p].tmp \in Int
  BY TypeParts DEF IInv, Placed, TypeOK
<1>1. /\ st[p].at = "reclaim" /\ Goto(p, "zero") /\ use' = st[p].tmp - 1
      /\ UNCHANGED <<used, named, mine, late, ghost>>
  BY DEF NewReclaimStore
<1>2. /\ Moved(p) /\ st'[p].at = "zero" /\ st'[p].m = st[p].m /\ st'[p].own = st[p].own
  BY <1>0, <1>1, GotoSet DEF At
<1>3. Rest'
  BY <1>0, <1>1 DEF Rest, ghost
<1>4. Left' \subseteq Left
  BY <1>1, <1>2, LeftDown DEF Covers, Busy
<1>5. PlacedAt(p)' /\ ~Busy(p)' /\ p \in Busies
  BY <1>0, <1>1, <1>2 DEF PlacedAt, Busy, Busies
<1>6. torn' + twice' = torn + twice + 0 /\ mine' = mine /\ met' = met
  BY <1>0, <1>1 DEF Rest, ghost
<1>7. /\ st[p].at \in Window /\ st'[p].at \notin Window /\ 0 \in Int /\ -1 \in Int
      /\ Busies' \subseteq Busies \ {p} /\ use' = st[p].tmp + (-1)
  BY <1>0, <1>1, <1>2, <1>5, BusySame DEF Window
<1> QED BY <1>1, <1>2, <1>3, <1>4, <1>5, <1>6, <1>7, Store

LEMMA StepFreeStore == ASSUME IInv, NEW p \in Proc, FreeStore(p) PROVE IInv'
<1>0. TypeOK /\ Rest /\ PlacedAt(p) /\ st[p].tmp \in Int
  BY TypeParts DEF IInv, Placed, TypeOK
<1>1. /\ st[p].at = "free" /\ Goto(p, "mark") /\ use' = st[p].tmp - 1
      /\ twice' = IF st[p].own THEN twice ELSE twice + 1
      /\ UNCHANGED <<used, named, mine, late, met, torn, again, crashes>>
  BY DEF FreeStore
<1>2. /\ Moved(p) /\ st'[p].at = "mark" /\ st'[p].m = st[p].m /\ st'[p].own = st[p].own
  BY <1>0, <1>1, GotoSet DEF At
<1>3. Rest'
  BY <1>0, <1>1 DEF Rest
<1>4. Left' \subseteq Left
  BY <1>1, <1>2, LeftDown DEF Covers, Busy
<1>5. PlacedAt(p)' /\ ~Busy(p)' /\ Busies' \subseteq Busies \ {p}
  BY <1>0, <1>1, <1>2, BusySame DEF PlacedAt, Busy
<1>6. /\ st[p].at \in Window /\ st'[p].at \notin Window /\ 0 \in Int /\ 1 \in Int /\ -1 \in Int
      /\ use' = st[p].tmp + (-1) /\ Busies' \subseteq Busies
  BY <1>0, <1>1, <1>2, <1>5 DEF Window
<1>7. CASE st[p].own
  <2>1. torn' + twice' = torn + twice + 0 /\ p \in Busies
    BY <1>0, <1>1, <1>7 DEF Rest, Busies, Busy
  <2> QED BY <1>1, <1>2, <1>3, <1>4, <1>5, <1>6, <2>1, Store
<1>8. CASE ~st[p].own
  <2>1. torn' + twice' = torn + twice + 1
    BY <1>0, <1>1, <1>8 DEF Rest
  <2> QED BY <1>1, <1>2, <1>3, <1>4, <1>5, <1>6, <2>1, Store
<1> QED BY <1>7, <1>8

-----------------------------------------------------------------------------
(* The steps that change who waits *)

LEMMA StepSetInfo == ASSUME IInv, NEW p \in Proc, SetInfo(p) PROVE IInv'
<1>0. TypeOK /\ Rest /\ PlacedAt(p)
  BY TypeParts DEF IInv, Placed
<1> DEFINE m == st[p].m
<1>1. /\ st[p].at = "set" /\ named' = named \cup {m} /\ mine' = [mine EXCEPT ![p] = @ \cup {m}]
      /\ late' = (IF m \in mine[p] THEN late \cup {m} ELSE late)
      /\ st' = [st EXCEPT ![p] = Idle] /\ UNCHANGED <<use, used, ghost>>
  BY DEF SetInfo
<1>2. m \in Session
  BY <1>0, <1>1 DEF PlacedAt
<1> HIDE DEF m
<1>3. Moved(p) /\ st'[p] = Idle
  BY <1>0, <1>1, IdleFields, PlaceSet
<1>4. /\ mine' \in [Proc -> SUBSET Session] /\ mine'[p] = mine[p] \cup {m}
      /\ \A q \in Proc : q # p => mine'[q] = mine[q]
  BY <1>0, <1>1, <1>2 DEF Rest
<1>5. Rest'
  BY <1>0, <1>1, <1>2, <1>4 DEF Rest, ghost
<1>6. Left' \subseteq Left
  <2>1. \A k \in named' \cap used' : Covers(p, k)' \/ (k \in named \cap used /\ ~Covers(p, k))
    BY <1>1, <1>4 DEF Covers, m
  <2> QED BY <1>3, <1>4, <2>1, LeftDown
<1>7. Waiting' \subseteq Waiting \cup {<<p, m>>}
  <2> SUFFICES ASSUME NEW w \in Waiting', w \notin Waiting PROVE w = <<p, m>>
    OBVIOUS
  <2>1. w \in Proc \X Session /\ w[2] \in mine'[w[1]] /\ w[2] \notin mine[w[1]]
    BY DEF Waiting
  <2>2. w[1] = p /\ w[2] = m
    BY <1>4, <2>1
  <2> QED BY <2>1, <2>2
<1>8. ~Busy(p)' /\ p \in Busies /\ PlacedAt(p)'
  BY <1>1, <1>3, IdleFields DEF Busy, Busies, PlacedAt
<1>9. Busies' \subseteq Busies \ {p}
  BY <1>3, <1>8, BusySame
<1>10. /\ IsFiniteSet(Waiting) /\ IsFiniteSet(Busies) /\ IsFiniteSet(Left)
  BY DEF IInv, Finite
<1>11. /\ IsFiniteSet(Waiting') /\ Cardinality(Waiting') <= Cardinality(Waiting) + 1
       /\ Cardinality(Waiting) \in Nat /\ Cardinality(Waiting') \in Nat
  BY <1>7, <1>10, OneMore
<1>12. /\ IsFiniteSet(Busies') /\ Cardinality(Busies') <= Cardinality(Busies) - 1
       /\ Cardinality(Busies) \in Nat /\ Cardinality(Busies') \in Nat
  BY <1>8, <1>9, <1>10, LessOne
<1>13. /\ IsFiniteSet(Left') /\ Cardinality(Left') <= Cardinality(Left)
       /\ Cardinality(Left) \in Nat /\ Cardinality(Left') \in Nat
  BY <1>6, <1>10, Less
<1>14. Units' <= Units
  BY <1>11, <1>12, <1>13 DEF Units
<1> QED BY <1>1, <1>3, <1>5, <1>8, <1>11, <1>12, <1>13, <1>14, IdleFields, Still DEF ghost, Window

\* A session that waits is about to be deleted.
LEMMA Ending ==
  ASSUME IInv, NEW p \in Proc, NEW m \in Session, st[p].at = "idle", m \in mine[p], Rest',
         mine' = [mine EXCEPT ![p] = @ \ {m}], NEW more \in BOOLEAN, Deleting(p, m, TRUE, more),
         UNCHANGED <<use, used, named, met, torn, twice>>
  PROVE  IInv'
<1>0. TypeOK /\ Rest
  BY TypeParts DEF IInv
<1>1. st' = [st EXCEPT ![p] = Place("del", m, 0, TRUE, more)]
  BY DEF Deleting
<1>2. /\ Moved(p) /\ st'[p].at = "del" /\ st'[p].m = m /\ st'[p].own = TRUE
  <2>1. "del" \in At /\ m \in Session \cup {None} /\ 0 \in Int /\ TRUE \in BOOLEAN
    BY DEF At
  <2> QED BY <1>0, <1>1, <2>1, PlaceGo
<1>3. /\ mine'[p] = mine[p] \ {m} /\ \A q \in Proc : q # p => mine'[q] = mine[q]
  BY <1>0 DEF Rest
<1>4. Left' \subseteq Left
  <2>1. \A k \in named' \cap used' : Covers(p, k)' \/ (k \in named \cap used /\ ~Covers(p, k))
    BY <1>2, <1>3 DEF Covers, Busy
  <2> QED BY <1>2, <1>3, <2>1, LeftDown
<1>5. Waiting' \subseteq Waiting \ {<<p, m>>} /\ <<p, m>> \in Waiting
  BY <1>3 DEF Waiting
<1>6. PlacedAt(p)' /\ Busies' \subseteq Busies \cup {p}
  BY <1>2, BusySame DEF PlacedAt
<1>7. /\ IsFiniteSet(Waiting) /\ IsFiniteSet(Busies) /\ IsFiniteSet(Left)
  BY DEF IInv, Finite
<1>8. /\ IsFiniteSet(Waiting') /\ Cardinality(Waiting') <= Cardinality(Waiting) - 1
      /\ Cardinality(Waiting) \in Nat /\ Cardinality(Waiting') \in Nat
  BY <1>5, <1>7, LessOne
<1>9. /\ IsFiniteSet(Busies') /\ Cardinality(Busies') <= Cardinality(Busies) + 1
      /\ Cardinality(Busies) \in Nat /\ Cardinality(Busies') \in Nat
  BY <1>6, <1>7, OneMore
<1>10. /\ IsFiniteSet(Left') /\ Cardinality(Left') <= Cardinality(Left)
       /\ Cardinality(Left) \in Nat /\ Cardinality(Left') \in Nat
  BY <1>4, <1>7, Less
<1>11. Units' <= Units
  BY <1>8, <1>9, <1>10 DEF Units
<1> QED BY <1>2, <1>6, <1>8, <1>9, <1>10, <1>11, Still DEF Window

LEMMA StepDelete ==
  ASSUME IInv, NEW p \in Proc, NEW m \in Session, Delete(p, m) \/ Timeout(p, m) \/ LinkNull(p, m)
  PROVE  IInv'
<1>0. Rest
  BY TypeParts DEF IInv
<1>1. CASE Delete(p, m)
  <2>1. Rest'
    BY <1>0, <1>1 DEF Rest, Delete, ghost
  <2> QED BY <1>1, <2>1, Ending DEF Delete, ghost
<1>2. CASE Timeout(p, m)
  <2>1. Rest'
    BY <1>0, <1>2 DEF Rest, Timeout, ghost
  <2> QED BY <1>2, <2>1, Ending DEF Timeout, ghost
<1>3. CASE LinkNull(p, m)
  <2>1. Rest'
    BY <1>0, <1>3 DEF Rest, LinkNull
  <2> QED BY <1>3, <2>1, Ending DEF LinkNull
<1> QED BY <1>1, <1>2, <1>3

-----------------------------------------------------------------------------
(* A death: those that waited are left for others to subtract, one by one *)

LEMMA WaitingLess ==
  ASSUME NEW p \in Proc, TypeOK, IsFiniteSet(Waiting), mine' = [mine EXCEPT ![p] = {}]
  PROVE  /\ IsFiniteSet(mine[p]) /\ IsFiniteSet(Waiting')
         /\ Cardinality(mine[p]) \in Nat /\ Cardinality(Waiting) \in Nat /\ Cardinality(Waiting') \in Nat
         /\ Cardinality(Waiting') + Cardinality(mine[p]) <= Cardinality(Waiting)
<1> DEFINE G == {p} \X mine[p]
           f == [m \in mine[p] |-> <<p, m>>]
<1>1. mine \in [Proc -> SUBSET Session]
  BY DEF TypeOK
<1>2. G \subseteq Waiting
  BY <1>1 DEF Waiting
<1>3. IsFiniteSet(G) /\ Cardinality(G) \in Nat
  BY <1>2, Less
<1>4. f \in Injection(mine[p], G)
  <2>1. f \in [mine[p] -> G] /\ \A a, b \in mine[p] : f[a] = f[b] => a = b
    OBVIOUS
  <2> QED BY <2>1 DEF Injection, IsInjective
<1>5. IsFiniteSet(mine[p]) /\ Cardinality(mine[p]) <= Cardinality(G)
  BY <1>3, <1>4, FS_Injection
<1>6. Waiting' \subseteq Waiting \ G
  <2> SUFFICES ASSUME NEW w \in Waiting' PROVE w \in Waiting /\ w \notin G
    OBVIOUS
  <2>1. w \in Proc \X Session /\ w[2] \in mine'[w[1]]
    BY DEF Waiting
  <2>2. w[1] # p /\ w[2] \in mine[w[1]]
    BY <1>1, <2>1
  <2> QED BY <2>1, <2>2 DEF Waiting
<1>7. IsFiniteSet(Waiting \ G) /\ Cardinality(Waiting \ G) = Cardinality(Waiting) - Cardinality(Waiting \cap G)
  BY FS_Difference
<1>8. Waiting \cap G = G
  BY <1>2
<1> HIDE DEF G, f
<1>9. /\ IsFiniteSet(Waiting') /\ Cardinality(Waiting') \in Nat /\ Cardinality(Waiting \ G) \in Nat
      /\ Cardinality(Waiting') <= Cardinality(Waiting \ G)
  BY <1>6, <1>7, Less
<1>10. Cardinality(mine[p]) \in Nat /\ Cardinality(Waiting) \in Nat
  BY <1>5, FS_CardinalityType
<1>11. Cardinality(Waiting \ G) = Cardinality(Waiting) - Cardinality(G)
  BY <1>7, <1>8
<1> QED BY <1>3, <1>5, <1>9, <1>10, <1>11

\* What p covered is left, its session too if it was not yet subtracted or
\* subtracted and not closed.
LEMMA LeftGrows ==
  ASSUME NEW p \in Proc, Moved(p), \A q \in Proc : q # p => mine'[q] = mine[q], UNCHANGED <<named, used>>
  PROVE  /\ Left' \subseteq (Left \cup mine[p]) \cup {st[p].m}
         /\ ~(Busy(p) \/ (st[p].at \in {"mark", "zero"} /\ st[p].m \in named \cap used))
               => Left' \subseteq Left \cup mine[p]
<1>1. \A k \in Left' : k \in named \cap used /\ \A q \in Proc : q # p => ~Covers(q, k)
  BY DEF Left, Covers, Busy, Moved
<1>2. \A k \in Left' : k \in Left \/ Covers(p, k)
  BY <1>1 DEF Left
<1> QED BY <1>1, <1>2 DEF Covers

LEMMA StepDie == ASSUME IInv, NEW p \in Proc, Die(p) PROVE IInv'
<1>0. TypeOK /\ Rest /\ Finite
  BY TypeParts DEF IInv
<1> DEFINE gone == st[p].at \in {"mark", "zero"} /\ st[p].m \in named \cap used
<1>1. /\ crashes < MaxCrash /\ crashes' = crashes + 1 /\ torn' = (IF gone THEN torn + 1 ELSE torn)
      /\ late' = late \cup mine[p] /\ mine' = [mine EXCEPT ![p] = {}]
      /\ st' = [st EXCEPT ![p] = Idle] /\ UNCHANGED <<use, used, named, met, twice, again>>
  BY DEF Die
<1>2. Moved(p) /\ st'[p] = Idle /\ st'[p].at = "idle" /\ st'[p].own = FALSE
  BY <1>0, <1>1, IdleFields, PlaceSet
<1>3. /\ mine' \in [Proc -> SUBSET Session] /\ \A q \in Proc : q # p => mine'[q] = mine[q]
      /\ mine[p] \subseteq Session
  BY <1>0, <1>1 DEF Rest
<1> HIDE DEF gone
<1>4. Rest'
  BY <1>0, <1>1, <1>3 DEF Rest
<1>5. /\ IsFiniteSet(mine[p]) /\ IsFiniteSet(Waiting')
      /\ Cardinality(mine[p]) \in Nat /\ Cardinality(Waiting) \in Nat /\ Cardinality(Waiting') \in Nat
      /\ Cardinality(Waiting') + Cardinality(mine[p]) <= Cardinality(Waiting)
  BY <1>0, <1>1, WaitingLess DEF Finite
<1> DEFINE L == Left \cup mine[p]
<1>6. /\ IsFiniteSet(L) /\ Cardinality(L) \in Nat /\ Cardinality(Left) \in Nat
      /\ Cardinality(L) <= Cardinality(Left) + Cardinality(mine[p])
  <2>1. /\ IsFiniteSet(L) /\ Cardinality(L) = Cardinality(Left) + Cardinality(mine[p]) - Cardinality(Left \cap mine[p])
    BY <1>0, <1>5, FS_Union DEF Finite
  <2>2. IsFiniteSet(Left \cap mine[p]) /\ Cardinality(Left \cap mine[p]) \in Nat
    BY <1>0, FS_Intersection, FS_CardinalityType DEF Finite
  <2>3. Cardinality(L) \in Nat /\ Cardinality(Left) \in Nat
    BY <1>0, <2>1, FS_CardinalityType DEF Finite
  <2> QED BY <1>5, <2>1, <2>2, <2>3
<1>7. /\ Left' \subseteq L \cup {st[p].m}
      /\ ~(Busy(p) \/ gone) => Left' \subseteq L
  BY <1>1, <1>2, <1>3, LeftGrows DEF gone
<1> HIDE DEF L
<1>8. ~Busy(p)' /\ PlacedAt(p)'
  BY <1>2 DEF Busy, PlacedAt
<1>9. Busies' \subseteq Busies \ {p} /\ Busies' \subseteq Busies
  BY <1>2, <1>8, BusySame
<1>10. gone => ~Busy(p)
  BY DEF gone, Busy
<1>11. /\ IsFiniteSet(Left') /\ IsFiniteSet(Busies') /\ Cardinality(Left') \in Nat
       /\ Cardinality(Busies') \in Nat /\ Cardinality(Busies) \in Nat
       /\ Cardinality(Left') + Cardinality(Busies') <= Cardinality(L) + Cardinality(Busies) + (IF gone THEN 1 ELSE 0)
  <2>1. IsFiniteSet(Busies)
    BY <1>0 DEF Finite
  <2>2. CASE Busy(p)
    <3>1. p \in Busies
      BY <2>2 DEF Busies
    <3>2. /\ IsFiniteSet(Busies') /\ Cardinality(Busies') \in Nat /\ Cardinality(Busies) \in Nat
          /\ Cardinality(Busies') <= Cardinality(Busies) - 1
      BY <1>9, <2>1, <3>1, LessOne
    <3>3. /\ IsFiniteSet(Left') /\ Cardinality(Left') \in Nat /\ Cardinality(Left') <= Cardinality(L) + 1
      BY <1>6, <1>7, OneMore
    <3> QED BY <1>6, <1>10, <2>2, <3>2, <3>3
  <2>3. CASE ~Busy(p)
    <3>1. /\ IsFiniteSet(Busies') /\ Cardinality(Busies') \in Nat /\ Cardinality(Busies) \in Nat
          /\ Cardinality(Busies') <= Cardinality(Busies)
      BY <1>9, <2>1, Less
    <3>2. CASE gone
      <4>1. /\ IsFiniteSet(Left') /\ Cardinality(Left') \in Nat /\ Cardinality(Left') <= Cardinality(L) + 1
        BY <1>6, <1>7, OneMore
      <4> QED BY <1>6, <3>1, <3>2, <4>1
    <3>3. CASE ~gone
      <4>1. /\ IsFiniteSet(Left') /\ Cardinality(Left') \in Nat /\ Cardinality(Left') <= Cardinality(L)
        BY <1>6, <1>7, <2>3, <3>3, Less
      <4> QED BY <1>6, <3>1, <3>3, <4>1
    <3> QED BY <3>2, <3>3
  <2> QED BY <2>2, <2>3
<1>12. torn' \in Nat /\ twice' \in Nat /\ twice' = twice /\ torn' = torn + (IF gone THEN 1 ELSE 0)
  BY <1>0, <1>1, <1>4 DEF Rest
<1>13. IsFiniteSet(AtCounter') /\ Spare' >= Spare + (IF gone THEN 1 ELSE 0)
  <2>1. torn \in Nat /\ twice \in Nat /\ Spare \in Int
    BY <1>0, Numbers DEF Numeric
  <2>2. st'[p].at \notin Window
    BY <1>2 DEF Window
  <2>3. CASE st[p].at \in Window
    <3>1. /\ IsFiniteSet(AtCounter')
          /\ Spare' = Spare + (torn' + twice') - (torn + twice) + (IF Others(p) THEN 1 ELSE 0)
      BY <1>1, <1>2, <1>12, <2>2, <2>3, SpareLeave
    <3> QED BY <1>12, <2>1, <3>1
  <2>4. CASE st[p].at \notin Window
    <3>1. /\ IsFiniteSet(AtCounter')
          /\ Spare' = Spare + (torn' + twice') - (torn + twice)
      BY <1>1, <1>2, <1>12, <2>2, <2>4, SpareSame
    <3> QED BY <1>12, <2>1, <3>1
  <2> QED BY <2>3, <2>4
<1>14. Finite'
  BY <1>5, <1>11, <1>13 DEF Finite
<1>15. TypeOK'
  BY <1>2, <1>4, TypeParts DEF Rest, Moved, TypeOK, State
<1>16. Units \in Int /\ Spare \in Int /\ Units' \in Int /\ Spare' \in Int
  BY <1>0, <1>14, <1>15, Numbers, NumbersNext DEF Numeric
<1>17. Units' <= Units + (IF gone THEN 1 ELSE 0)
  BY <1>5, <1>6, <1>11 DEF Units
<1>18. Units' - Spare' <= Units - Spare
  <2>1. (IF gone THEN 1 ELSE 0) \in Int
    OBVIOUS
  <2> QED BY <1>13, <1>16, <1>17, <2>1, ShiftUp
<1>19. Room(p)'
  BY <1>2 DEF Room
<1> QED BY <1>1, <1>2, <1>4, <1>8, <1>14, <1>18, <1>19, Calm

-----------------------------------------------------------------------------
LEMMA InvInit == Init => IInv
<1> SUFFICES ASSUME Init PROVE IInv
  OBVIOUS
<1>1. \A p \in Proc : st[p] = Idle /\ mine[p] = {}
  BY DEF Init
<1>2. TypeOK
  <2>1. Rest
    BY DEF Init, Rest
  <2>2. st \in [Proc -> State]
    BY IdleFields DEF Init
  <2> QED BY <2>1, <2>2, TypeParts
<1>3. Waiting = {} /\ Busies = {} /\ Left = {} /\ AtCounter = {}
  BY <1>1, IdleFields DEF Init, Waiting, Busies, Busy, Left, AtCounter, Window
<1>4. Placed
  BY <1>1, IdleFields DEF Placed, PlacedAt
<1>5. Finite /\ Units = 0 /\ Spare = 0
  BY <1>3, FS_EmptySet DEF Init, Finite, Units, Spare, Pending
<1>6. Count
  BY <1>1, <1>5, IdleFields DEF Init, Count, Room
<1> QED BY <1>2, <1>4, <1>5, <1>6 DEF IInv

LEMMA InvStep == IInv /\ [Next]_vars => IInv'
<1> SUFFICES ASSUME IInv, [Next]_vars PROVE IInv'
  OBVIOUS
<1>1. ASSUME NEW p \in Proc, NEW m \in Session,
             \/ New(p, m) \/ NewReclaim(p, m) \/ Delete(p, m)
             \/ Timeout(p, m) \/ LateAnswer(p, m) \/ LinkNull(p, m)
      PROVE  IInv'
  BY <1>1, StepNew, StepReclaim, StepDelete, StepLate
<1>2. ASSUME NEW p \in Proc,
             \/ NewReclaimStore(p) \/ NewZero(p)
             \/ Check(p) \/ IncLoad(p) \/ IncStore(p) \/ LsnOk(p) \/ LsnFull(p)
             \/ RequestFails(p) \/ SetInfo(p)
             \/ FreeLoad(p) \/ FreeStore(p) \/ Mark(p) \/ Crash(p)
      PROVE  IInv'
  BY <1>2, StepReclaimStore, StepZero, StepCheck, StepIncLoad, StepIncStore, StepLsnOk, StepFails,
     StepSetInfo, StepFreeLoad, StepFreeStore, StepMark, StepDie DEF LsnFull, Crash
<1>3. CASE UNCHANGED vars
  <2>1. TypeOK' /\ Placed'
    BY <1>3 DEF IInv, TypeOK, Placed, PlacedAt, vars, ghost
  <2>2. Waiting' = Waiting /\ Busies' = Busies /\ Left' = Left /\ AtCounter' = AtCounter
    BY <1>3 DEF vars, Waiting, Busies, Busy, Left, Covers, AtCounter
  <2>3. Finite' /\ Units' = Units /\ Spare' = Spare
    BY <1>3, <2>2 DEF IInv, Finite, Units, Spare, Pending, vars, ghost
  <2>4. Count'
    BY <1>3, <2>3 DEF IInv, Count, Room, vars
  <2> QED BY <2>1, <2>3, <2>4 DEF IInv
<1> QED BY <1>1, <1>2, <1>3 DEF Next

LEMMA Counted == IInv => LimitHolds
<1> SUFFICES ASSUME IInv PROVE LimitHolds
  OBVIOUS
<1>1. Numeric
  BY Numbers DEF IInv
<1>2. Going \subseteq Busies
  BY DEF Going, Busies, Busy
<1>3. Cardinality(Going) \in Nat /\ Cardinality(Going) <= Cardinality(Busies)
  BY <1>2, Less DEF IInv, Finite
<1>4. Units <= Limit + Spare
  BY DEF IInv, Count
<1>5. Cardinality(Waiting) + Cardinality(Going) <= Units
  BY <1>1, <1>3 DEF Units, Numeric
<1>6. Spare <= torn + twice + met
  BY <1>1 DEF Spare, Numeric
<1>7. Limit \in Int /\ Units \in Int /\ Spare \in Int /\ torn + twice + met \in Int
  BY <1>1 DEF Numeric
<1>8. Cardinality(Waiting) + Cardinality(Going) \in Int
  BY <1>1, <1>3 DEF Numeric
<1>9. Cardinality(Waiting) + Cardinality(Going) <= Limit + (torn + twice + met)
  BY <1>4, <1>5, <1>6, <1>7, <1>8, Chain
<1>10. Limit + (torn + twice + met) = Limit + torn + twice + met
  BY <1>1 DEF Numeric
<1> QED BY <1>9, <1>10 DEF LimitHolds

\* No more requests of a product are under way than its limit, for any number
\* of processes of the listener, of sessions and of deaths, but for what is
\* subtracted after a death or twice and for meetings at the counter, which
\* mtype_limit_check and mtype_limit_free do not lock.
THEOREM Limited == Spec => []LimitHolds
BY InvInit, InvStep, Counted, PTL DEF Spec
=============================================================================
