---------------------------- MODULE SeqsBusiness ----------------------------
(***************************************************************************)
(* The business numbers of core/seqs.c.  seqs_new_business_no draws a      *)
(* number from a unit in shared memory as every other number is drawn,     *)
(* under the unit's lock, and then corrects the unit, under its lock a     *)
(* second time, for the step that was asked for.  What the first section   *)
(* returned is not looked at.  A service may die anywhere in the call: the *)
(* kernel gives its locks back, the number it had drawn is nobody's.       *)
(*                                                                         *)
(* One unit with base_increment 1, and steps of at least 1: a negative one *)
(* is as 1, with 0 a number is seen and not taken.  The reader lock of the *)
(* head, held all through the call, keeps a change of date out and nobody  *)
(* else; it is left out together with the change of date (see Seqs).  What *)
(* Seqs has too carries Bsn in its name (the source's own: bsn).           *)
(***************************************************************************)
EXTENDS Integers, FiniteSets

CONSTANTS BsnProc,     \* services that ask for numbers
          Steps,       \* the steps they ask for
          Base,        \* u->base
          BsnEjfnoMax, \* u->ejfno_max
          Cycles,      \* what u->cycle may be: TRUE is SEQ_CYCLE_ENABLE (units of
                       \* swconfig.xml), FALSE SEQ_CYCLE_DISABLE (the others)
          MaxLap,      \* bound: how often the unit starts again
          MaxCall,     \* bound: calls that draw past ejfno_max
          BsnMaxDeath  \* bound: services that die in a call

ASSUME StepAssumption == Steps \subseteq Nat \ {0}
ASSUME UnitAssumption == Base \in Nat /\ BsnEjfnoMax \in Nat /\ Base <= BsnEjfnoMax
ASSUME CycleAssumption == Cycles \subseteq BOOLEAN
ASSUME BsnBoundAssumption == MaxLap \in Nat /\ MaxCall \in Nat /\ BsnMaxDeath \in Nat

VARIABLES trn_base,    \* u->trn_base
          cycle,       \* u->cycle
          call,        \* where a process is: its number and step
          lap,         \* how often the unit has started again
          served,      \* the calls that returned 0
          lost,        \* the calls whose service died with a number, and what they took
          again,       \* a number of the unit was returned twice in a lap
          torn,        \* a service died with base_increment taken back, and not alone
          refused,     \* draws past ejfno_max
          deaths       \* services that died in a call

bsnVars == <<trn_base, cycle, call, lap, served, lost, again, torn, refused, deaths>>

\* A call: its number, the lap it is of, the step, and whether somebody else was
\* between the two sections while it was.
Call == [lap : Nat, no : Int, step : Steps, how : {"alone", "joined"}]
BsnIdle == [at |-> "idle", lap |-> 0, no |-> 0, step |-> 0, how |-> "joined"]
Between == {p \in BsnProc : call[p].at = "drawn"}
\* The numbers a call is for.
Numbers(g) == g.no .. g.no + g.step - 1
\* Numbers the unit has; others are drawn from a unit that is used up.
Valid(g) == g.no <= BsnEjfnoMax

CallType == call \in [BsnProc -> [at : {"idle", "draw", "drawn"}, lap : Nat, no : Int,
                                  step : Steps \cup {0}, how : {"alone", "joined"}]]
CallsOK == \A p \in BsnProc :
             /\ call[p].at # "idle" => call[p].step \in Steps
             /\ call[p].at = "drawn" => call[p].lap <= lap /\ (cycle => Valid(call[p]))
UnitOK == /\ trn_base \in Int /\ cycle \in Cycles
          /\ lap \in 0 .. MaxLap /\ refused \in 0 .. MaxCall /\ deaths \in 0 .. BsnMaxDeath
\* Calls that are over, with their number or without.
Past == served \cup lost
PastOK == /\ served \subseteq Call /\ lost \subseteq [lap : Nat, no : Int, step : Steps \cup {1},
                                                      how : {"alone", "joined"}]
          /\ \A g \in Past : g.lap <= lap
BsnTypeOK == /\ CallType /\ CallsOK /\ UnitOK /\ PastOK
             /\ again \in BOOLEAN /\ torn \in BOOLEAN

-----------------------------------------------------------------------------
BsnInit == /\ trn_base = Base /\ cycle \in Cycles /\ lap = 0 /\ served = {} /\ lost = {}
           /\ again = FALSE /\ torn = FALSE /\ refused = 0 /\ deaths = 0
           /\ call = [p \in BsnProc |-> BsnIdle]

BsnGoto(p, r) == call' = [call EXCEPT ![p] = r]

\* p has its number, and whoever is between the sections is not alone.
Take(p) ==
    call' = [q \in BsnProc |->
               IF q = p THEN [at |-> "drawn", lap |-> lap, no |-> trn_base, step |-> call[p].step,
                              how |-> IF Between = {} THEN "alone" ELSE "joined"]
               ELSE IF q \in Between THEN [call[q] EXCEPT !.how = "joined"]
               ELSE call[q]]

NewBusinessNo(p, k) ==
    /\ call[p].at = "idle"
    /\ BsnGoto(p, [at |-> "draw", lap |-> 0, no |-> 0, step |-> k, how |-> "joined"])
    /\ UNCHANGED <<cycle, trn_base, lap, served, lost, again, torn, refused, deaths>>

\* Mutant: the limit is noticed one number late.
DrawPast(p) ==
    /\ call[p].at = "draw" /\ trn_base <= BsnEjfnoMax + 1
    /\ trn_base' = trn_base + 1
    /\ Take(p)
    /\ UNCHANGED <<cycle, lap, served, lost, again, torn, refused, deaths>>

\* get_no_from_unit: the number is the current one ...
BsnDraw(p) ==
    /\ call[p].at = "draw" /\ trn_base <= BsnEjfnoMax
    /\ trn_base' = trn_base + 1
    /\ Take(p)
    /\ UNCHANGED <<cycle, lap, served, lost, again, torn, refused, deaths>>

\* ... past the end the unit starts again and the call is repeated, or ...
BsnWrap(p) ==
    /\ call[p].at = "draw" /\ trn_base > BsnEjfnoMax /\ cycle /\ lap < MaxLap
    /\ trn_base' = Base /\ lap' = lap + 1
    /\ UNCHANGED <<cycle, call, served, lost, again, torn, refused, deaths>>

\* ... -1 is returned, with the number past the end in the buffer.
DrawRefused(p) ==
    /\ call[p].at = "draw" /\ trn_base > BsnEjfnoMax /\ ~cycle
    /\ refused < MaxCall /\ refused' = refused + 1
    /\ Take(p)
    /\ UNCHANGED <<cycle, trn_base, lap, served, lost, again, torn, deaths>>

\* What p took from the unit, k numbers.
Took(p, k) == [lap |-> call[p].lap, no |-> call[p].no, step |-> k, how |-> call[p].how]

\* The call returns 0 with its number.
Return(p) ==
    /\ served' = served \cup {Took(p, call[p].step)}
    /\ again' = (again \/ (/\ Valid(call[p])
                           /\ \E g \in served : g.lap = call[p].lap /\ g.no = call[p].no))
    /\ BsnGoto(p, BsnIdle)

\* Mutant: the unit is set to what follows the number drawn.
AdjustStale(p) ==
    /\ call[p].at = "drawn"
    /\ trn_base' = call[p].no + call[p].step
    /\ Return(p)
    /\ UNCHANGED <<cycle, lap, lost, torn, refused, deaths>>

\* Mutant: base_increment is not taken back.
AdjustTwice(p) ==
    /\ call[p].at = "drawn"
    /\ trn_base' = trn_base + call[p].step
    /\ Return(p)
    /\ UNCHANGED <<cycle, lap, lost, torn, refused, deaths>>

\* Mutant: the step is not added.
AdjustNot(p) ==
    /\ call[p].at = "drawn"
    /\ Return(p)
    /\ UNCHANGED <<trn_base, cycle, lap, lost, torn, refused, deaths>>

\* The second section: base_increment is taken back and step added.
Adjust(p) ==
    /\ call[p].at = "drawn"
    /\ trn_base' = trn_base - 1 + call[p].step
    /\ Return(p)
    /\ UNCHANGED <<cycle, lap, lost, torn, refused, deaths>>

\* p dies before it has drawn, or with its number: before the second section or
\* after it.
BsnDie(p) ==
    /\ deaths < BsnMaxDeath /\ deaths' = deaths + 1
    /\ \/ call[p].at = "draw" /\ UNCHANGED <<trn_base, lost>>
       \/ /\ call[p].at = "drawn"
          /\ \E k \in {1, call[p].step} : /\ trn_base' = trn_base - 1 + k
                                          /\ lost' = lost \cup {Took(p, k)}
    /\ BsnGoto(p, BsnIdle)
    /\ UNCHANGED <<cycle, lap, served, again, torn, refused>>

\* It dies in the second section, with base_increment taken back and step not
\* added.  The unit gives its last number again: the one p had drawn, unless
\* somebody else was between the sections, the unit has started again since, or
\* p's was past the end.
DieRestored(p) ==
    /\ call[p].at = "drawn"
    /\ deaths < BsnMaxDeath /\ deaths' = deaths + 1
    /\ trn_base' = trn_base - 1
    /\ torn' = (torn \/ ~(call[p].how = "alone" /\ call[p].lap = lap /\ Valid(call[p])))
    /\ BsnGoto(p, BsnIdle)
    /\ UNCHANGED <<cycle, lap, served, lost, again, refused>>

\* seqs_set_bsn_flow: numbers of a later lap, unless it is out of range.
SetBsnFlow(n) ==
    /\ lap < MaxLap /\ n <= BsnEjfnoMax /\ n # trn_base
    /\ trn_base' = n /\ lap' = lap + 1
    /\ UNCHANGED <<cycle, call, served, lost, again, torn, refused, deaths>>

BsnNext == \/ \E p \in BsnProc : \/ \E k \in Steps : NewBusinessNo(p, k)
                                 \/ BsnDraw(p) \/ BsnWrap(p) \/ DrawRefused(p) \/ Adjust(p)
                                 \/ BsnDie(p) \/ DieRestored(p)
           \/ \E n \in Base .. BsnEjfnoMax : SetBsnFlow(n)

BsnSpec == BsnInit /\ [][BsnNext]_bsnVars
-----------------------------------------------------------------------------
\* No number is given out twice before the unit starts again, although it is
\* drawn in one section and paid for in another (seqs.c: 449 and 454), and
\* although services die in between.  (One that dies between 453 and 454, when it
\* is not alone between the sections, leaves the unit one number too low.)
NumbersUnique == again => torn

\* When nobody is between the two sections and single numbers were asked for,
\* those given out since the unit started (or was set) are all those below the
\* current one, but for the numbers that services had drawn when they died
\* (seqs.c: 449 to 462).
NoneSkipped == ~torn /\ Between = {} /\ (\A g \in Past : g.step = 1) =>
                 LET of(S) == {g.no : g \in {h \in S : h.lap = lap /\ Valid(h)}}
                 IN  /\ \E first \in Base .. BsnEjfnoMax : of(served) \cup of(lost) = first .. trn_base - 1
                     /\ of(served) \cap of(lost) = {}

\* "step: 申请的业务水流个数" (seqs.c:478): who asks for step numbers and is not
\* joined between the two sections gets as many, and nobody else any of them.
\* (Two that are between the sections at once do share numbers, and a service
\* that dies between 453 and 454 may leave a number of somebody else's.)
RangesApart == ~torn => \A g, h \in served :
    g.how = "alone" /\ g # h /\ g.lap = h.lap /\ Valid(g) /\ Valid(h) => Numbers(g) \cap Numbers(h) = {}
=============================================================================
