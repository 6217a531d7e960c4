----------------------------- MODULE SeqsProofs -----------------------------
(***************************************************************************)
(* A request's number and date are given out once outside the windows that *)
(* Seqs names, for every number of listeners, every limit of the unit and  *)
(* every TRACE_INC.                                                        *)
(*                                                                         *)
(* As long as no window has opened, the numbers of the system date that    *)
(* were given out or drawn are below trn_base (Below) and distinct         *)
(* (Apart), and while the date is being changed the new date has none      *)
(* (Changing).  What carries this over a crash is a claim on the file: the *)
(* numbers of the date it holds are less than fresh above the base it      *)
(* holds (Saved), and a restart skips fresh or opens a window.             *)
(***************************************************************************)
EXTENDS Seqs, SeqsBusiness, TLAPS

Memory == [base : Nat \ {0}, date : Date, vfs : Day, lock : BOOLEAN]
File == [mem : Memory, flag : {1, 2}]
Place == {"idle", "drawn", "open", "write", "update", "check", "change", "reset", "flag", "halt"}
Op == {"none", "pol", "date", "lock", "save", "stop"}
State == [at : Place, op : Op, no : Nat, date : {0} \cup Date]

\* TypeOK, with the whole of mem and file, and the agents: who changes the
\* date has a date, and nobody is under way when the switch is not up.
Rest == /\ mem \in Memory /\ (file # None => file \in File)
        /\ head \in Agent \cup {None} /\ day \in Day /\ up \in {"up", "stopped", "crashed"}
        /\ draws \in 0 .. MaxDraw /\ downs \in 0 .. MaxDown /\ cmds \in 0 .. MaxAdm
        /\ fresh \in 0 .. TRACE_INC + 1 /\ seen \subseteq Date /\ given \subseteq Nat \X Date
        /\ window \subseteq {"wrap", "again", "late", "clear", "blind", "split", "set"}
Agents == /\ pc \in [Agent -> State]
          /\ \A a \in Agent : pc[a].at = "reset" <=> head = a
          /\ \A a \in Agent : pc[a].at \in {"check", "change", "reset"} => pc[a].date \in Date
          /\ up # "up" => \A a \in Agent : pc[a].at = "idle"
Typed == Rest /\ Agents

\* Every date in use is among the dates seen.
Known == /\ mem.date \in seen
         /\ file # None => file.mem.date \in seen
         /\ \A g \in given : g[2] \in seen
         /\ \A a \in Agent : pc[a].at = "drawn" => pc[a].date \in seen \cup {0}

\* The number an agent has drawn will go with the present date.
Now(a) == pc[a].at = "drawn" /\ pc[a].date = mem.date
Below == /\ \A g \in given : g[2] = mem.date => g[1] < mem.base
         /\ \A a \in Agent : Now(a) => pc[a].no < mem.base
Apart == /\ \A a \in Agent : Now(a) => <<pc[a].no, mem.date>> \notin given
         /\ \A a, b \in Agent : Now(a) /\ Now(b) /\ a # b => pc[a].no # pc[b].no
Changing == head # None => /\ \A g \in given : g[2] # mem.date
                           /\ \A a \in Agent : ~Now(a)
                           /\ file # None => file.mem.date # mem.date
Saved == file # None /\ fresh <= TRACE_INC =>
           /\ \A g \in given : g[2] = file.mem.date => g[1] < file.mem.base + fresh
           /\ mem.date = file.mem.date => mem.base <= file.mem.base + fresh
Good == ~repeated /\ Below /\ Apart /\ Changing /\ Saved

IInv == Typed /\ Known /\ (window = {} => Good)

USE AgentAssumption, IncAssumption, BoundAssumption

-----------------------------------------------------------------------------
(* The records of the agents *)

LEMMA IdleState ==
  Idle \in State /\ Idle.at = "idle" /\ Idle.op = "none" /\ Idle.no = 0 /\ Idle.date = 0
BY DEF Idle, State, Place, Op

LEMMA DateFact == Day \subseteq Date /\ 1 \in Day /\ Date \subseteq Nat \ {0}
BY DEF Day, Date

LEMMA SetAt ==
  ASSUME NEW s \in State, NEW at \in Place, NEW r, r = [s EXCEPT !.at = at]
  PROVE  r \in State /\ r.at = at /\ r.no = s.no /\ r.date = s.date /\ r.op = s.op
BY DEF State

IdleOp(at, op) == [Idle EXCEPT !.at = at, !.op = op]
LEMMA SetOp ==
  ASSUME NEW at \in Place, NEW op \in Op
  PROVE  IdleOp(at, op) \in State /\ IdleOp(at, op).at = at
<1> DEFINE v == [Idle EXCEPT !.at = at]
<1>1. v \in State /\ v.at = at
  BY SetAt, IdleState
<1>2. IdleOp(at, op) = [v EXCEPT !.op = op]
  BY DEF IdleOp
<1> HIDE DEF v
<1> QED BY <1>1, <1>2 DEF State

IdleNo(no, date) == [Idle EXCEPT !.at = "drawn", !.no = no, !.date = date]
LEMMA SetNo ==
  ASSUME NEW no \in Nat, NEW date \in {0} \cup Date
  PROVE  /\ IdleNo(no, date) \in State /\ IdleNo(no, date).at = "drawn"
         /\ IdleNo(no, date).no = no /\ IdleNo(no, date).date = date
<1> DEFINE v == [Idle EXCEPT !.at = "drawn"]
           w == [v EXCEPT !.no = no]
<1>1. v \in State /\ v.at = "drawn"
  BY SetAt, IdleState DEF Place
<1>2. IdleNo(no, date) = [w EXCEPT !.date = date]
  BY DEF IdleNo
<1> HIDE DEF v
<1>3. w \in State /\ w.at = "drawn" /\ w.no = no
  BY <1>1 DEF State
<1> HIDE DEF w
<1> QED BY <1>2, <1>3 DEF State

\* One agent goes on.
LEMMA AgentStep ==
  ASSUME Typed, NEW a \in Agent, NEW r \in State, Become(a, r), up' = "up",
         r.at = "reset" <=> head' = a,
         \A b \in Agent \ {a} : head' = b <=> head = b,
         r.at \in {"check", "change", "reset"} => r.date \in Date
  PROVE  /\ Agents' /\ pc'[a] = r
         /\ \A b \in Agent \ {a} : pc'[b] = pc[b]
<1>1. pc' = [pc EXCEPT ![a] = r] /\ pc \in [Agent -> State]
  BY DEF Become, Typed, Agents
<1>2. pc' \in [Agent -> State] /\ pc'[a] = r /\ \A b \in Agent \ {a} : pc'[b] = pc[b]
  BY <1>1
<1>3. ASSUME NEW b \in Agent PROVE pc'[b].at = "reset" <=> head' = b
  BY <1>2 DEF Typed, Agents
<1>4. ASSUME NEW b \in Agent, pc'[b].at \in {"check", "change", "reset"} PROVE pc'[b].date \in Date
  BY <1>2, <1>4 DEF Typed, Agents
<1> QED BY <1>2, <1>3, <1>4 DEF Agents

LEMMA GotoStep ==
  ASSUME Typed, NEW a \in Agent, NEW at \in Place, Goto(a, at), up' = "up",
         at = "reset" <=> head' = a,
         \A b \in Agent \ {a} : head' = b <=> head = b,
         at \in {"check", "change", "reset"} => pc[a].date \in Date
  PROVE  /\ Agents' /\ pc'[a].at = at /\ pc'[a].date = pc[a].date
         /\ \A b \in Agent \ {a} : pc'[b] = pc[b]
<1> DEFINE r == [pc[a] EXCEPT !.at = at]
<1>1. r \in State /\ r.at = at /\ r.date = pc[a].date
  BY SetAt DEF Typed, Agents
<1>2. Become(a, r)
  BY DEF Goto, Become
<1> HIDE DEF r
<1> QED BY <1>1, <1>2, AgentStep

-----------------------------------------------------------------------------
(* The numbers *)

\* A step that gives out, draws and saves nothing leaves the numbers in order.
Quiet == /\ mem'.base = mem.base /\ mem'.date = mem.date
         /\ file' = file \/ file' = None
         /\ head' = head \/ head' = None
         /\ UNCHANGED ghost
         /\ \A a \in Agent : pc'[a].at = "drawn" => pc'[a] = pc[a]

LEMMA QuietStep == ASSUME IInv, Quiet PROVE Known' /\ (window' = {} => Good')
<1>1. UNCHANGED <<given, repeated, fresh, seen, window>>
  BY DEF Quiet, ghost
<1>2. Known'
  BY <1>1 DEF IInv, Known, Quiet
<1>3. ASSUME window' = {} PROVE Good'
  <2>1. Good
    BY <1>1, <1>3 DEF IInv
  <2>2. ASSUME NEW a \in Agent, Now(a)' PROVE Now(a) /\ pc'[a] = pc[a]
    BY <2>2 DEF Now, Quiet
  <2>3. Below'
    BY <1>1, <2>1, <2>2 DEF Good, Below, Quiet
  <2>4. Apart'
    <3>1. \A a \in Agent : Now(a)' => <<pc'[a].no, mem'.date>> \notin given'
      BY <1>1, <2>1, <2>2 DEF Good, Apart, Quiet
    <3>2. ASSUME NEW a \in Agent, NEW b \in Agent, Now(a)', Now(b)', a # b PROVE pc'[a].no # pc'[b].no
      BY <2>1, <2>2, <3>2 DEF Good, Apart
    <3> QED BY <3>1, <3>2 DEF Apart
  <2>5. Changing'
    BY <1>1, <2>1, <2>2 DEF Good, Changing, Quiet
  <2>6. Saved'
    BY <1>1, <2>1 DEF Good, Saved, Quiet
  <2> QED BY <1>1, <2>1, <2>3, <2>4, <2>5, <2>6 DEF Good
<1> QED BY <1>2, <1>3

LEMMA QuietInv == ASSUME IInv, Rest', Agents', Quiet PROVE IInv'
BY QuietStep DEF IInv, Typed

\* An agent goes on with the head's lock as it was.
LEMMA BecomeQuiet ==
  ASSUME Typed, NEW a \in Agent, NEW r \in State, Become(a, r), up' = "up", UNCHANGED head,
         pc[a].at # "reset", r.at \notin {"reset", "drawn"},
         r.at \in {"check", "change"} => r.date \in Date
  PROVE  Agents' /\ \A b \in Agent : pc'[b].at = "drawn" => pc'[b] = pc[b]
<1>1. head # a
  BY DEF Typed, Agents
<1> QED BY <1>1, AgentStep

LEMMA GotoQuiet ==
  ASSUME Typed, NEW a \in Agent, NEW at \in Place, Goto(a, at), up' = "up", UNCHANGED head,
         pc[a].at # "reset", at \notin {"reset", "drawn"},
         at \in {"check", "change"} => pc[a].date \in Date
  PROVE  Agents' /\ \A b \in Agent : pc'[b].at = "drawn" => pc'[b] = pc[b]
<1>1. head # a
  BY DEF Typed, Agents
<1> QED BY <1>1, GotoStep

-----------------------------------------------------------------------------
(* Steps that are quiet *)

LEMMA AfterSaveState ==
  ASSUME NEW a \in Agent
  PROVE  AfterSave(a) \in State /\ AfterSave(a).at \in {"idle", "update", "halt"}
<1>1. CASE pc[a].op = "pol"
  <2>1. AfterSave(a) = IdleOp("update", "pol")
    BY <1>1 DEF AfterSave, IdleOp
  <2> QED BY <2>1, SetOp DEF Place, Op
<1>2. CASE pc[a].op = "stop"
  <2>1. AfterSave(a) = [Idle EXCEPT !.at = "halt"]
    BY <1>2 DEF AfterSave
  <2> QED BY <2>1, IdleState, SetAt DEF Place
<1>3. CASE pc[a].op \notin {"pol", "stop"}
  <2>1. AfterSave(a) = Idle
    BY <1>3 DEF AfterSave
  <2> QED BY <2>1, IdleState
<1> QED BY <1>1, <1>2, <1>3

LEMMA StepSaveOpen == ASSUME IInv, NEW a \in Agent, SaveOpen(a) PROVE IInv'
<1>1. /\ up = "up" /\ pc[a].at = "open" /\ file' = None /\ Goto(a, "write")
      /\ UNCHANGED <<mem, head, day, up, bounds, ghost>>
  BY DEF SaveOpen, At
<1>2. Agents' /\ \A b \in Agent : pc'[b].at = "drawn" => pc'[b] = pc[b]
  BY <1>1, GotoQuiet DEF IInv, Place
<1>3. Rest'
  BY <1>1 DEF IInv, Typed, Rest, bounds, ghost
<1> QED BY <1>1, <1>2, <1>3, QuietInv DEF Quiet

LEMMA StepSaveFails == ASSUME IInv, NEW a \in Agent, SaveFails(a) PROVE IInv'
<1> DEFINE r == IF pc[a].op = "stop" THEN AfterSave(a) ELSE Idle
<1>1. /\ up = "up" /\ pc[a].at = "write" /\ file' = None /\ Become(a, r)
      /\ UNCHANGED <<mem, head, day, up, bounds, ghost>>
  BY DEF SaveFails, At
<1>2. r \in State /\ r.at \in {"idle", "update", "halt"}
  BY AfterSaveState, IdleState
<1> HIDE DEF r
<1>3. Agents' /\ \A b \in Agent : pc'[b].at = "drawn" => pc'[b] = pc[b]
  BY <1>1, <1>2, BecomeQuiet DEF IInv
<1>4. Rest'
  BY <1>1 DEF IInv, Typed, Rest, bounds, ghost
<1> QED BY <1>1, <1>3, <1>4, QuietInv DEF Quiet

LEMMA StepChangeCheck == ASSUME IInv, NEW a \in Agent, ChangeCheck(a) PROVE IInv'
<1>1. /\ up = "up" /\ pc[a].at = "check" /\ (Become(a, Idle) \/ Goto(a, "change"))
      /\ UNCHANGED <<mem, file, head, day, up, bounds, ghost>>
  BY DEF ChangeCheck, At
<1>2. Agents' /\ \A b \in Agent : pc'[b].at = "drawn" => pc'[b] = pc[b]
  <2>1. pc[a].date \in Date
    BY <1>1 DEF IInv, Typed, Agents
  <2>2. CASE Become(a, Idle)
    BY <1>1, <2>2, BecomeQuiet, IdleState DEF IInv
  <2>3. CASE Goto(a, "change")
    BY <1>1, <2>1, <2>3, GotoQuiet DEF IInv, Place
  <2> QED BY <1>1, <2>2, <2>3
<1>3. Rest'
  BY <1>1 DEF IInv, Typed, Rest, bounds, ghost
<1> QED BY <1>1, <1>2, <1>3, QuietInv DEF Quiet

LEMMA StepPol == ASSUME IInv, PolTimeout \/ PolUpdate PROVE IInv'
<1>1. PICK r \in State :
        /\ up = "up" /\ pc[Pol].at \in {"idle", "update"} /\ Become(Pol, r)
        /\ r.at \in {"open", "check", "idle"} /\ (r.at = "check" => r.date \in Date)
        /\ UNCHANGED <<mem, file, head, day, up, bounds, ghost>>
  <2>1. CASE PolTimeout
    <3> DEFINE r == IdleOp("open", "pol")
    <3>1. r \in State /\ r.at = "open"
      BY SetOp DEF Place, Op
    <3>2. /\ up = "up" /\ pc[Pol].at = "idle" /\ Become(Pol, r)
          /\ UNCHANGED <<mem, file, head, day, up, bounds, ghost>>
      BY <2>1 DEF PolTimeout, At, IdleOp
    <3> HIDE DEF r
    <3> QED BY <3>1, <3>2
  <2>2. CASE PolUpdate
    <3> DEFINE c == [at |-> "check", op |-> "pol", no |-> 0, date |-> NewDate]
               r == IF Due /\ NewDate \in Date THEN c ELSE Idle
    <3>1. NewDate \in Date => c \in State /\ c.at = "check" /\ c.date \in Date
      BY DEF State, Place, Op
    <3>2. /\ up = "up" /\ pc[Pol].at = "update" /\ Become(Pol, r)
          /\ UNCHANGED <<mem, file, head, day, up, bounds, ghost>>
      BY <2>2 DEF PolUpdate, At
    <3> HIDE DEF c
    <3>3. r \in State /\ r.at \in {"check", "idle"} /\ (r.at = "check" => r.date \in Date)
      BY <3>1, IdleState
    <3> HIDE DEF r
    <3> QED BY <3>2, <3>3
  <2> QED BY <2>1, <2>2
<1>2. Pol \in Agent
  BY DEF Agent
<1>3. Agents' /\ \A b \in Agent : pc'[b].at = "drawn" => pc'[b] = pc[b]
  BY <1>1, <1>2, BecomeQuiet DEF IInv
<1>4. Rest'
  BY <1>1 DEF IInv, Typed, Rest, bounds, ghost
<1> QED BY <1>1, <1>3, <1>4, QuietInv DEF Quiet

\* A command of the administrator begins.
LEMMA CommandQuiet ==
  ASSUME Typed, NEW r \in State, Command(r), UNCHANGED <<head, up>>,
         r.at \in {"idle", "open", "check"}, r.at = "check" => r.date \in Date
  PROVE  /\ Agents' /\ cmds' \in 0 .. MaxAdm
         /\ \A b \in Agent : pc'[b].at = "drawn" => pc'[b] = pc[b]
<1>1. up = "up" /\ pc[Adm].at = "idle" /\ cmds < MaxAdm /\ cmds' = cmds + 1 /\ Become(Adm, r)
  BY DEF Command, At
<1>2. Adm \in Agent
  BY DEF Agent
<1>3. cmds' \in 0 .. MaxAdm
  BY <1>1 DEF Typed, Rest
<1> QED BY <1>1, <1>2, <1>3, BecomeQuiet

LEMMA StepSetDate ==
  ASSUME IInv, NEW d \in Day, NEW op \in {"date", "lock"}, SetDate(d, op) PROVE IInv'
<1> DEFINE r == [at |-> "check", op |-> op, no |-> 0, date |-> d]
<1>1. r \in State /\ r.at = "check" /\ r.date \in Date
  BY DateFact DEF State, Place, Op
<1>2. Command(r) /\ UNCHANGED <<mem, file, head, day, up, draws, downs, ghost>>
  BY DEF SetDate
<1> HIDE DEF r
<1>3. Agents' /\ cmds' \in 0 .. MaxAdm /\ \A b \in Agent : pc'[b].at = "drawn" => pc'[b] = pc[b]
  BY <1>1, <1>2, CommandQuiet DEF IInv
<1>4. Rest'
  BY <1>2, <1>3 DEF IInv, Typed, Rest, ghost
<1> QED BY <1>2, <1>3, <1>4, QuietInv DEF Quiet

\* adm_set_date_unlock, uni_svr_stop_all: the lock of the date may change.
LEMMA StepSave ==
  ASSUME IInv, SetDateUnlock \/ StopAll PROVE IInv'
<1>1. PICK op \in {"save", "stop"} :
        /\ Command(IdleOp("open", op))
        /\ mem' = [mem EXCEPT !.lock = FALSE] \/ mem' = mem
        /\ UNCHANGED <<file, head, day, up, draws, downs, ghost>>
  BY DEF SetDateUnlock, StopAll, IdleOp
<1>2. IdleOp("open", op) \in State /\ IdleOp("open", op).at = "open"
  BY SetOp DEF Place, Op
<1>3. Agents' /\ cmds' \in 0 .. MaxAdm /\ \A b \in Agent : pc'[b].at = "drawn" => pc'[b] = pc[b]
  BY <1>1, <1>2, CommandQuiet DEF IInv
<1>4. mem' \in Memory /\ mem'.base = mem.base /\ mem'.date = mem.date
  BY <1>1 DEF IInv, Typed, Rest, Memory
<1>5. Rest'
  BY <1>1, <1>3, <1>4 DEF IInv, Typed, Rest, ghost
<1> QED BY <1>1, <1>3, <1>4, <1>5, QuietInv DEF Quiet

LEMMA StepSetDateLock == ASSUME IInv, SetDateLock PROVE IInv'
<1>1. /\ up = "up" /\ pc[Adm].at = "flag" /\ Goto(Adm, "open")
      /\ mem' = [mem EXCEPT !.lock = TRUE]
      /\ UNCHANGED <<file, head, day, up, bounds, ghost>>
  BY DEF SetDateLock, At
<1>2. Adm \in Agent
  BY DEF Agent
<1>3. Agents' /\ \A b \in Agent : pc'[b].at = "drawn" => pc'[b] = pc[b]
  BY <1>1, <1>2, GotoQuiet DEF IInv, Place
<1>4. mem' \in Memory /\ mem'.base = mem.base /\ mem'.date = mem.date
  BY <1>1 DEF IInv, Typed, Rest, Memory
<1>5. Rest'
  BY <1>1, <1>4 DEF IInv, Typed, Rest, bounds, ghost
<1> QED BY <1>1, <1>3, <1>4, <1>5, QuietInv DEF Quiet

LEMMA StepPolExit == ASSUME IInv, PolExit PROVE IInv'
<1>1. UNCHANGED <<mem, file, head, day, up, pc, bounds, ghost>>
  BY DEF PolExit
<1>2. Rest' /\ Agents'
  BY <1>1 DEF IInv, Typed, Rest, Agents, bounds, ghost
<1> QED BY <1>1, <1>2, QuietInv DEF Quiet

\* The switch stops, crashes, or one of its processes dies; a day ends.
LEMMA StepHalt == ASSUME IInv, Halt PROVE IInv'
<1>1. /\ up' = "stopped" /\ pc' = [pc EXCEPT ![Adm] = Idle] /\ pc[Adm].at = "halt"
      /\ \A a \in Agent \ {Adm} : pc[a].at = "idle"
      /\ UNCHANGED <<mem, file, head, day, bounds, ghost>>
  BY DEF Halt, At, Become
<1>2. pc' \in [Agent -> State] /\ \A a \in Agent : pc'[a].at = "idle"
  BY <1>1, IdleState DEF IInv, Typed, Agents
<1>3. head = None
  BY <1>1 DEF IInv, Typed, Agents, Rest
<1>4. Agents'
  BY <1>1, <1>2, <1>3 DEF Agents
<1>5. Rest'
  BY <1>1 DEF IInv, Typed, Rest, bounds, ghost
<1> QED BY <1>1, <1>2, <1>4, <1>5, QuietInv DEF Quiet

LEMMA StepDie == ASSUME IInv, NEW a \in Agent, Die(a) PROVE IInv'
<1>1. /\ up = "up" /\ downs < MaxDown /\ downs' = downs + 1 /\ Become(a, Idle)
      /\ head' = (IF head = a THEN None ELSE head)
      /\ UNCHANGED <<mem, file, day, up, draws, cmds, ghost>>
  BY DEF Die
<1>2. /\ Agents' /\ pc'[a] = Idle
      /\ \A b \in Agent \ {a} : pc'[b] = pc[b]
  <2>1. head' # a /\ \A b \in Agent \ {a} : head' = b <=> head = b
    BY <1>1
  <2> QED BY <1>1, <2>1, AgentStep, IdleState DEF IInv
<1>3. \A b \in Agent : pc'[b].at = "drawn" => pc'[b] = pc[b]
  BY <1>2, IdleState
<1>4. downs' \in 0 .. MaxDown /\ head' \in Agent \cup {None} /\ (head' = head \/ head' = None)
  BY <1>1 DEF IInv, Typed, Rest
<1>5. Rest'
  BY <1>1, <1>4 DEF IInv, Typed, Rest, ghost
<1> QED BY <1>1, <1>2, <1>3, <1>4, <1>5, QuietInv DEF Quiet

LEMMA StepCrash == ASSUME IInv, Crash PROVE IInv'
<1>1. /\ up = "up" /\ downs < MaxDown /\ downs' = downs + 1 /\ up' = "crashed" /\ head' = None
      /\ pc' = [a \in Agent |-> Idle]
      /\ UNCHANGED <<mem, file, day, draws, cmds, ghost>>
  BY DEF Crash
<1>2. pc' \in [Agent -> State] /\ \A a \in Agent : pc'[a].at = "idle"
  BY <1>1, IdleState
<1>3. Agents'
  BY <1>1, <1>2 DEF Agents
<1>4. downs' \in 0 .. MaxDown
  BY <1>1 DEF IInv, Typed, Rest
<1>5. Rest'
  BY <1>1, <1>4 DEF IInv, Typed, Rest, ghost
<1> QED BY <1>1, <1>2, <1>3, <1>5, QuietInv DEF Quiet

LEMMA StepMidnight == ASSUME IInv, Midnight PROVE IInv'
<1>1. day' = day + 1 /\ day < MaxDay /\ UNCHANGED <<mem, file, head, up, pc, bounds, ghost>>
  BY DEF Midnight
<1>2. day' \in Day
  BY <1>1 DEF IInv, Typed, Rest, Day
<1>3. Agents'
  BY <1>1 DEF IInv, Typed, Agents
<1>4. Rest'
  BY <1>1, <1>2 DEF IInv, Typed, Rest, bounds, ghost
<1> QED BY <1>1, <1>3, <1>4, QuietInv DEF Quiet

-----------------------------------------------------------------------------
(* Numbers are drawn and given out *)

LEMMA StepDraw == ASSUME IInv, NEW p \in Proc, Draw(p) PROVE IInv'
<1> DEFINE d == IF head = None THEN mem.date ELSE 0
           r == IdleNo(mem.base, d)
<1>1. /\ up = "up" /\ pc[p].at = "idle" /\ draws < MaxDraw /\ draws' = draws + 1
      /\ mem' = [mem EXCEPT !.base = @ + 1] /\ Become(p, r)
      /\ fresh' = (IF file # None /\ file.mem.date # mem.date THEN fresh ELSE Moved(fresh + 1))
      /\ UNCHANGED <<file, head, day, up, downs, cmds, given, repeated, seen, window>>
  BY DEF Draw, At, IdleNo
<1>2. mem \in Memory /\ mem.base \in Nat \ {0} /\ mem.date \in Date
  BY DEF IInv, Typed, Rest, Memory
<1>3. mem' \in Memory /\ mem'.base = mem.base + 1 /\ mem'.date = mem.date
  BY <1>1, <1>2 DEF Memory
<1>4. r \in State /\ r.at = "drawn" /\ r.no = mem.base /\ r.date = d
  <2>1. d \in {0} \cup Date /\ mem.base \in Nat
    BY <1>2
  <2> HIDE DEF d
  <2> QED BY <2>1, SetNo
<1>5. p \in Agent /\ head # p
  BY <1>1 DEF Agent, IInv, Typed, Agents
<1> HIDE DEF r
<1>6. Agents' /\ pc'[p] = r /\ \A b \in Agent \ {p} : pc'[b] = pc[b]
  BY <1>1, <1>4, <1>5, AgentStep DEF IInv
<1>7. Rest'
  <2>1. draws' \in 0 .. MaxDraw /\ fresh' \in 0 .. TRACE_INC + 1
    BY <1>1 DEF IInv, Typed, Rest, Moved
  <2> QED BY <1>1, <1>3, <2>1 DEF IInv, Typed, Rest
<1>8. Known'
  BY <1>1, <1>3, <1>4, <1>6 DEF IInv, Known
<1>9. ASSUME window' = {} PROVE Good'
  <2>1. Good
    BY <1>1, <1>9 DEF IInv
  <2>2. ASSUME NEW b \in Agent, Now(b)'
        PROVE  (b = p /\ head = None /\ pc'[b].no = mem.base) \/ (b # p /\ Now(b) /\ pc'[b] = pc[b])
    BY <1>2, <1>3, <1>4, <1>6, <2>2, DateFact DEF Now
  <2>3. \A g \in given : g[1] \in Nat
    BY DEF IInv, Typed, Rest
  <2>4. \A b \in Agent : pc[b].no \in Nat
    BY DEF IInv, Typed, Agents, State
  <2>5. Below'
    BY <1>1, <1>2, <1>3, <2>1, <2>2, <2>3, <2>4 DEF Good, Below
  <2>6. Apart'
    <3>1. <<mem.base, mem.date>> \notin given
      BY <1>2, <2>1 DEF Good, Below
    <3>2. ASSUME NEW b \in Agent, Now(b)' PROVE <<pc'[b].no, mem'.date>> \notin given'
      BY <1>1, <1>3, <2>1, <2>2, <3>1, <3>2 DEF Good, Apart
    <3>3. ASSUME NEW b \in Agent, NEW c \in Agent, Now(b)', Now(c)', b # c PROVE pc'[b].no # pc'[c].no
      BY <1>2, <2>1, <2>2, <2>4, <3>3 DEF Good, Apart, Below
    <3> QED BY <3>2, <3>3 DEF Apart
  <2>7. Changing'
    BY <1>1, <1>3, <2>1, <2>2 DEF Good, Changing
  <2>8. Saved'
    <3> SUFFICES ASSUME file' # None, fresh' <= TRACE_INC
                 PROVE  /\ \A g \in given' : g[2] = file'.mem.date => g[1] < file'.mem.base + fresh'
                        /\ mem'.date = file'.mem.date => mem'.base <= file'.mem.base + fresh'
      BY DEF Saved
    <3>1. fresh \in Nat /\ fresh <= fresh' /\ file.mem.base \in Nat /\ fresh' \in Nat
          /\ (file.mem.date = mem.date => fresh' = fresh + 1)
      BY <1>1 DEF IInv, Typed, Rest, Moved, File, Memory
    <3>2. /\ \A g \in given : g[2] = file.mem.date => g[1] < file.mem.base + fresh
          /\ mem.date = file.mem.date => mem.base <= file.mem.base + fresh
      BY <1>1, <2>1, <3>1 DEF Good, Saved
    <3> QED BY <1>1, <1>2, <1>3, <2>3, <3>1, <3>2
  <2> QED BY <1>1, <2>1, <2>5, <2>6, <2>7, <2>8 DEF Good
<1> QED BY <1>6, <1>7, <1>8, <1>9 DEF IInv, Typed

LEMMA StepWrap == ASSUME IInv, NEW p \in Proc, Wrap(p) PROVE IInv'
<1>1. /\ mem' = [mem EXCEPT !.base = 1] /\ window' = window \cup {"wrap"}
      /\ UNCHANGED <<file, head, day, up, pc, bounds, given, repeated, fresh, seen>>
  BY DEF Wrap, Opens
<1>2. mem' \in Memory /\ mem'.date = mem.date
  BY <1>1 DEF IInv, Typed, Rest, Memory
<1>3. Rest' /\ Agents'
  BY <1>1, <1>2 DEF IInv, Typed, Rest, Agents, bounds
<1>4. Known'
  BY <1>1, <1>2 DEF IInv, Known
<1> QED BY <1>1, <1>3, <1>4 DEF IInv, Typed

LEMMA StepGetDate == ASSUME IInv, NEW p \in Proc, GetDate(p) PROVE IInv'
<1> DEFINE n == <<pc[p].no, mem.date>>
<1>1. /\ up = "up" /\ pc[p].at = "drawn" /\ head = None /\ given' = given \cup {n}
      /\ repeated' = (repeated \/ n \in given) /\ Become(p, Idle)
      /\ window' = (IF pc[p].date # mem.date THEN window \cup {"split"} ELSE window)
      /\ UNCHANGED <<mem, file, head, day, up, bounds, fresh, seen>>
  BY DEF GetDate, At, Opens
<1>2. p \in Agent /\ head # p
  BY <1>1 DEF Agent
<1>3. Agents' /\ pc'[p] = Idle /\ \A b \in Agent \ {p} : pc'[b] = pc[b]
  BY <1>1, <1>2, AgentStep, IdleState DEF IInv
<1>4. n \in Nat \X Date /\ n[1] = pc[p].no /\ n[2] = mem.date /\ mem.base \in Nat
  BY <1>2 DEF IInv, Typed, Rest, Agents, State, Memory
<1> HIDE DEF n
<1>5. Rest'
  BY <1>1, <1>4 DEF IInv, Typed, Rest, bounds
<1>6. Known'
  BY <1>1, <1>3, <1>4, IdleState DEF IInv, Known
<1>7. ASSUME window' = {} PROVE Good'
  <2>1. Good /\ window = {} /\ pc[p].date = mem.date
    BY <1>1, <1>7 DEF IInv
  <2>2. Now(p)
    BY <1>1, <2>1 DEF Now
  <2>3. ASSUME NEW b \in Agent, Now(b)' PROVE b # p /\ Now(b) /\ pc'[b] = pc[b]
    BY <1>1, <1>3, <2>3, IdleState DEF Now
  <2>4. ~repeated'
    BY <1>1, <1>2, <2>1, <2>2 DEF Good, Apart, n
  <2>5. Below'
    BY <1>1, <1>2, <1>4, <2>1, <2>2, <2>3 DEF Good, Below
  <2>6. Apart'
    <3>1. ASSUME NEW b \in Agent, Now(b)' PROVE <<pc'[b].no, mem'.date>> \notin given'
      <4>1. pc[b].no # pc[p].no /\ <<pc[b].no, mem.date>> \notin given
        BY <1>2, <2>1, <2>2, <2>3, <3>1 DEF Good, Apart
      <4>2. <<pc[b].no, mem.date>> # n
        BY <1>4, <4>1
      <4> QED BY <1>1, <2>3, <3>1, <4>1, <4>2
    <3>2. ASSUME NEW b \in Agent, NEW c \in Agent, Now(b)', Now(c)', b # c PROVE pc'[b].no # pc'[c].no
      BY <2>1, <2>3, <3>2 DEF Good, Apart
    <3> QED BY <3>1, <3>2 DEF Apart
  <2>7. Changing'
    BY <1>1 DEF Changing
  <2>8. Saved'
    <3> SUFFICES ASSUME file # None, fresh <= TRACE_INC
                 PROVE  /\ \A g \in given' : g[2] = file.mem.date => g[1] < file.mem.base + fresh
                        /\ mem.date = file.mem.date => mem.base <= file.mem.base + fresh
      BY <1>1 DEF Saved
    <3>1. fresh \in Nat /\ file.mem.base \in Nat
      BY DEF IInv, Typed, Rest, File, Memory
    <3>2. /\ \A g \in given : g[2] = file.mem.date => g[1] < file.mem.base + fresh
          /\ mem.date = file.mem.date => mem.base <= file.mem.base + fresh
      BY <2>1 DEF Good, Saved
    <3>3. n[1] \in Nat /\ n[1] < mem.base
      BY <1>2, <1>4, <2>1, <2>2 DEF Good, Below
    <3> QED BY <1>1, <1>4, <3>1, <3>2, <3>3
  <2> QED BY <2>4, <2>5, <2>6, <2>7, <2>8 DEF Good
<1> QED BY <1>3, <1>5, <1>6, <1>7 DEF IInv, Typed

-----------------------------------------------------------------------------
(* The file is written, the date and the number are set, the switch starts *)

LEMMA StepSaveWrite == ASSUME IInv, NEW a \in Agent, SaveWrite(a) PROVE IInv'
<1>1. PICK flag \in {1, 2} :
        /\ up = "up" /\ pc[a].at = "write" /\ head = None /\ fresh' = 0
        /\ file' = [mem |-> mem, flag |-> flag] /\ Become(a, AfterSave(a))
        /\ UNCHANGED <<mem, head, day, up, bounds, given, repeated, seen, window>>
  BY DEF SaveWrite, At
<1>2. file' \in File /\ file'.mem = mem /\ mem.base \in Nat
  BY <1>1 DEF IInv, Typed, Rest, File, Memory
<1>3. Agents' /\ \A b \in Agent : pc'[b].at = "drawn" => pc'[b] = pc[b]
  BY <1>1, AfterSaveState, BecomeQuiet DEF IInv
<1>4. Rest'
  BY <1>1, <1>2 DEF IInv, Typed, Rest, bounds
<1>5. Known'
  BY <1>1, <1>2, <1>3 DEF IInv, Known
<1>6. ASSUME window' = {} PROVE Good'
  <2>1. Good
    BY <1>1, <1>6 DEF IInv
  <2>2. ASSUME NEW b \in Agent, Now(b)' PROVE Now(b) /\ pc'[b] = pc[b]
    BY <1>1, <1>3, <2>2 DEF Now
  <2>3. Below'
    BY <1>1, <2>1, <2>2 DEF Good, Below
  <2>4. Apart'
    <3>1. \A b \in Agent : Now(b)' => <<pc'[b].no, mem'.date>> \notin given'
      BY <1>1, <2>1, <2>2 DEF Good, Apart
    <3>2. ASSUME NEW b \in Agent, NEW c \in Agent, Now(b)', Now(c)', b # c PROVE pc'[b].no # pc'[c].no
      BY <2>1, <2>2, <3>2 DEF Good, Apart
    <3> QED BY <3>1, <3>2 DEF Apart
  <2>5. Changing'
    BY <1>1 DEF Changing
  <2>6. Saved'
    BY <1>1, <1>2, <2>1 DEF Good, Below, Saved
  <2> QED BY <1>1, <2>1, <2>3, <2>4, <2>5, <2>6 DEF Good
<1> QED BY <1>3, <1>4, <1>5, <1>6 DEF IInv, Typed

LEMMA StepChangeDate == ASSUME IInv, NEW a \in Agent, ChangeDate(a) PROVE IInv'
<1> DEFINE d == pc[a].date
<1>1. /\ up = "up" /\ pc[a].at = "change" /\ head = None /\ head' = a
      /\ mem' = [mem EXCEPT !.date = d] /\ seen' = seen \cup {d} /\ Goto(a, "reset")
      /\ window' = (IF d \in seen THEN window \cup {"again"} ELSE window)
      /\ UNCHANGED <<file, day, up, bounds, given, repeated, fresh>>
  BY DEF ChangeDate, At, Opens
<1>2. d \in Date
  BY <1>1 DEF IInv, Typed, Agents
<1>3. Agents' /\ pc'[a].at = "reset" /\ \A b \in Agent \ {a} : pc'[b] = pc[b]
  <2>1. \A b \in Agent \ {a} : head' = b <=> head = b
    BY <1>1
  <2> QED BY <1>1, <1>2, <2>1, GotoStep DEF IInv, Place
<1> HIDE DEF d
<1>4. mem' \in Memory /\ mem'.date = d /\ mem'.base = mem.base
  BY <1>1, <1>2 DEF IInv, Typed, Rest, Memory
<1>5. Rest'
  BY <1>1, <1>2, <1>4 DEF IInv, Typed, Rest, bounds
<1>6. Known'
  BY <1>1, <1>3, <1>4 DEF IInv, Known
<1>7. ASSUME window' = {} PROVE Good'
  <2>1. Good /\ d \notin seen
    BY <1>1, <1>7 DEF IInv
  <2>2. ASSUME NEW b \in Agent PROVE ~Now(b)'
    BY <1>2, <1>3, <1>4, <2>1, DateFact DEF IInv, Known, Now
  <2>3. \A g \in given' : g[2] # mem'.date
    BY <1>1, <1>4, <2>1 DEF IInv, Known
  <2>4. file' # None => file'.mem.date # mem'.date
    BY <1>1, <1>4, <2>1 DEF IInv, Known
  <2>5. Below' /\ Apart' /\ Changing'
    BY <2>2, <2>3, <2>4 DEF Below, Apart, Changing
  <2>6. Saved'
    BY <1>1, <2>1, <2>4 DEF Good, Saved
  <2> QED BY <1>1, <2>1, <2>5, <2>6 DEF Good
<1> QED BY <1>3, <1>5, <1>6, <1>7 DEF IInv, Typed

LEMMA StepChangeReset == ASSUME IInv, NEW a \in Agent, ChangeReset(a) PROVE IInv'
<1>1. /\ up = "up" /\ pc[a].at = "reset" /\ head' = None
      /\ mem' = [mem EXCEPT !.base = 1] /\ Become(a, AfterChange(a))
      /\ UNCHANGED <<file, day, up, bounds, ghost>>
  BY DEF ChangeReset, At
<1>2. head = a /\ head # None /\ pc[a] \in State
  BY <1>1 DEF IInv, Typed, Agents
<1>3. AfterChange(a) \in State /\ AfterChange(a).at \in {"flag", "open", "idle"}
  <2>1. CASE pc[a].op = "lock"
    BY <1>2, <2>1, SetAt DEF AfterChange, Place
  <2>2. CASE pc[a].op = "date"
    BY <1>2, <2>2, SetAt DEF AfterChange, Place
  <2>3. CASE pc[a].op \notin {"lock", "date"}
    BY <2>3, IdleState DEF AfterChange
  <2> QED BY <2>1, <2>2, <2>3
<1>4. Agents' /\ \A b \in Agent : pc'[b].at = "drawn" => pc'[b] = pc[b]
  <2>1. \A b \in Agent \ {a} : head' = b <=> head = b
    BY <1>1, <1>2
  <2> QED BY <1>1, <1>3, <2>1, AgentStep DEF IInv
<1>5. mem' \in Memory /\ mem'.date = mem.date
  BY <1>1 DEF IInv, Typed, Rest, Memory
<1>6. Rest'
  BY <1>1, <1>5 DEF IInv, Typed, Rest, bounds, ghost
<1>7. Known'
  BY <1>1, <1>4, <1>5 DEF IInv, Known, ghost
<1>8. ASSUME window' = {} PROVE Good'
  <2>1. Good /\ UNCHANGED <<given, repeated, fresh>>
    BY <1>1, <1>8 DEF IInv, ghost
  <2>2. ASSUME NEW b \in Agent PROVE ~Now(b)'
    BY <1>2, <1>4, <1>5, <2>1 DEF Good, Changing, Now
  <2>3. \A g \in given' : g[2] # mem'.date
    BY <1>2, <1>5, <2>1 DEF Good, Changing
  <2>4. file' # None => file'.mem.date # mem'.date
    BY <1>1, <1>2, <1>5, <2>1 DEF Good, Changing
  <2>5. Below' /\ Apart' /\ Changing'
    BY <2>2, <2>3, <2>4 DEF Below, Apart, Changing
  <2>6. Saved'
    BY <1>1, <2>1, <2>4 DEF Good, Saved
  <2> QED BY <2>1, <2>5, <2>6 DEF Good
<1> QED BY <1>4, <1>6, <1>7, <1>8 DEF IInv, Typed

LEMMA StepSetPlatFlow == ASSUME IInv, NEW n \in {1, EjfnoMax}, SetPlatFlow(n) PROVE IInv'
<1>1. /\ Command(Idle) /\ mem' = [mem EXCEPT !.base = n]
      /\ window' = (IF n < mem.base THEN window \cup {"set"} ELSE window)
      /\ fresh' = (IF n < mem.base THEN fresh ELSE Moved(fresh + n - mem.base))
      /\ UNCHANGED <<file, head, day, up, draws, downs, given, repeated, seen>>
  BY DEF SetPlatFlow, Opens
<1>2. Agents' /\ cmds' \in 0 .. MaxAdm /\ \A b \in Agent : pc'[b].at = "drawn" => pc'[b] = pc[b]
  BY <1>1, CommandQuiet, IdleState DEF IInv
<1>3. n \in Nat \ {0} /\ mem \in Memory /\ mem.base \in Nat
  BY DEF IInv, Typed, Rest, Memory
<1>4. mem' \in Memory /\ mem'.base = n /\ mem'.date = mem.date
  BY <1>1, <1>3 DEF Memory
<1>5. Rest'
  <2>1. fresh' \in 0 .. TRACE_INC + 1
    BY <1>1, <1>3 DEF IInv, Typed, Rest, Moved
  <2> QED BY <1>1, <1>2, <1>4, <2>1 DEF IInv, Typed, Rest
<1>6. Known'
  BY <1>1, <1>2, <1>4 DEF IInv, Known
<1>7. ASSUME window' = {} PROVE Good'
  <2>1. Good /\ mem.base <= n /\ fresh' = Moved(fresh + n - mem.base)
    BY <1>1, <1>3, <1>7 DEF IInv
  <2>2. ASSUME NEW b \in Agent, Now(b)' PROVE Now(b) /\ pc'[b] = pc[b]
    BY <1>2, <1>4, <2>2 DEF Now
  <2>3. (\A g \in given : g[1] \in Nat) /\ (\A b \in Agent : pc[b].no \in Nat)
    BY DEF IInv, Typed, Rest, Agents, State
  <2>4. Below'
    BY <1>1, <1>3, <1>4, <2>1, <2>2, <2>3 DEF Good, Below
  <2>5. Apart'
    <3>1. \A b \in Agent : Now(b)' => <<pc'[b].no, mem'.date>> \notin given'
      BY <1>1, <1>4, <2>1, <2>2 DEF Good, Apart
    <3>2. ASSUME NEW b \in Agent, NEW c \in Agent, Now(b)', Now(c)', b # c PROVE pc'[b].no # pc'[c].no
      BY <2>1, <2>2, <3>2 DEF Good, Apart
    <3> QED BY <3>1, <3>2 DEF Apart
  <2>6. Changing'
    BY <1>1, <1>4, <2>1, <2>2 DEF Good, Changing
  <2>7. Saved'
    <3> SUFFICES ASSUME file # None, fresh' <= TRACE_INC
                 PROVE  /\ \A g \in given : g[2] = file.mem.date => g[1] < file.mem.base + fresh'
                        /\ mem.date = file.mem.date => n <= file.mem.base + fresh'
      BY <1>1, <1>4 DEF Saved
    <3>1. /\ fresh \in Nat /\ file.mem.base \in Nat /\ fresh' = fresh + n - mem.base
          /\ fresh <= fresh' /\ fresh' \in Nat
      BY <1>3, <2>1 DEF IInv, Typed, Rest, Moved, File, Memory
    <3>2. /\ \A g \in given : g[2] = file.mem.date => g[1] < file.mem.base + fresh
          /\ mem.date = file.mem.date => mem.base <= file.mem.base + fresh
      BY <2>1, <3>1 DEF Good, Saved
    <3> QED BY <1>3, <2>3, <3>1, <3>2
  <2> QED BY <1>1, <2>1, <2>4, <2>5, <2>6, <2>7 DEF Good
<1> QED BY <1>2, <1>5, <1>6, <1>7 DEF IInv, Typed

LEMMA StepStart == ASSUME IInv, Start PROVE IInv'
<1>1. PICK m : /\ m = IF up = "crashed" THEN Fresh(day) ELSE mem
               /\ up # "up" /\ up' = "up" /\ mem' = Started(m)
               /\ window' = window
                    \cup (IF file # None /\ file.flag = 1 /\ fresh > TRACE_INC THEN {"late"} ELSE {})
                    \cup (IF file # None /\ file.flag = 2 /\ fresh > 0 THEN {"clear"} ELSE {})
                    \cup (IF file = None /\ \E g \in given : g[2] = m.date /\ g[1] > m.base + FarInc - 1
                          THEN {"blind"} ELSE {})
               /\ fresh' = (IF file # None /\ file.flag = 1 THEN TRACE_INC ELSE 0)
               /\ seen' = seen \cup {mem'.date}
               /\ UNCHANGED <<file, head, day, pc, bounds, given, repeated>>
  BY DEF Start
<1>2. m \in Memory
  BY <1>1, DateFact DEF IInv, Typed, Rest, Memory, Fresh
<1>3. mem' \in Memory /\ m.base \in Nat
      /\ (file = None => mem'.base = m.base + FarInc /\ mem'.date = m.date)
      /\ (file # None => /\ mem'.base = file.mem.base + (IF file.flag = 1 THEN TRACE_INC ELSE 0)
                         /\ mem'.date = file.mem.date /\ file.mem.base \in Nat /\ file.flag \in {1, 2})
  <2>1. CASE file = None
    <3>1. mem' = [m EXCEPT !.base = @ + FarInc]
      BY <1>1, <2>1 DEF Started
    <3> QED BY <1>2, <2>1, <3>1 DEF Memory
  <2>2. CASE file # None
    <3>1. mem' = [file.mem EXCEPT !.base = @ + (IF file.flag = 1 THEN TRACE_INC ELSE 0)]
      BY <1>1, <2>2 DEF Started
    <3>2. file.mem \in Memory /\ file.flag \in {1, 2}
      BY <2>2 DEF IInv, Typed, Rest, File
    <3> QED BY <1>2, <2>2, <3>1, <3>2 DEF Memory
  <2> QED BY <2>1, <2>2
<1>4. (\A a \in Agent : pc[a].at = "idle") /\ head = None
  BY <1>1 DEF IInv, Typed, Agents, Rest
<1>5. Agents'
  BY <1>1, <1>4 DEF IInv, Typed, Agents
<1>6. Rest'
  <2>1. fresh' \in 0 .. TRACE_INC + 1 /\ mem'.date \in Date
    BY <1>1, <1>3 DEF Memory
  <2> QED BY <1>1, <1>3, <2>1 DEF IInv, Typed, Rest, bounds
<1>7. Known'
  BY <1>1, <1>4 DEF IInv, Known
<1>8. ASSUME window' = {} PROVE Good'
  <2>1. window = {} /\ Good
    BY <1>1, <1>8 DEF IInv
  <2>2. /\ ~(file # None /\ file.flag = 1 /\ fresh > TRACE_INC)
        /\ ~(file # None /\ file.flag = 2 /\ fresh > 0)
        /\ ~(file = None /\ \E g \in given : g[2] = m.date /\ g[1] > m.base + FarInc - 1)
    BY <1>1, <1>8
  <2>3. \A a \in Agent : ~Now(a)'
    BY <1>1, <1>4 DEF Now
  <2>4. (\A g \in given : g[1] \in Nat) /\ fresh \in Nat
    BY DEF IInv, Typed, Rest
  <2>5. CASE file = None
    <3>1. \A g \in given' : g[2] = mem'.date => g[1] < mem'.base
      BY <1>1, <1>3, <2>2, <2>4, <2>5
    <3> QED BY <1>1, <1>4, <2>1, <2>3, <2>5, <3>1 DEF Good, Below, Apart, Changing, Saved
  <2>6. CASE file # None
    <3>1. fresh <= TRACE_INC /\ (file.flag = 2 => fresh = 0)
      BY <1>3, <2>2, <2>4, <2>6
    <3>2. \A g \in given : g[2] = file.mem.date => g[1] < file.mem.base + fresh
      BY <2>1, <2>6, <3>1 DEF Good, Saved
    <3>3. mem'.base = file.mem.base + fresh' /\ fresh <= fresh' /\ fresh' \in Nat
      BY <1>1, <1>3, <2>4, <2>6, <3>1
    <3>4. \A g \in given : g[2] = file.mem.date => g[1] < file.mem.base + fresh'
      BY <1>3, <2>4, <2>6, <3>2, <3>3
    <3>5. Saved'
      BY <1>1, <1>3, <2>6, <3>3, <3>4 DEF Saved
    <3>6. Below'
      BY <1>1, <1>3, <2>3, <2>6, <3>3, <3>4 DEF Below
    <3> QED BY <1>1, <1>4, <2>1, <2>3, <3>5, <3>6 DEF Good, Apart, Changing
  <2> QED BY <2>5, <2>6
<1> QED BY <1>5, <1>6, <1>7, <1>8 DEF IInv, Typed

-----------------------------------------------------------------------------
LEMMA InvInit == Init => IInv
<1> SUFFICES ASSUME Init PROVE IInv
  OBVIOUS
<1>1. /\ mem = [Fresh(1) EXCEPT !.base = 1 + FarInc] /\ file = None /\ head = None /\ day = 1
      /\ up = "up" /\ pc = [a \in Agent |-> Idle] /\ draws = 0 /\ downs = 0 /\ cmds = 0
      /\ given = {} /\ repeated = FALSE /\ fresh = 0 /\ seen = {1} /\ window = {}
  BY DEF Init
<1>2. mem \in Memory /\ mem.date = 1
  <2>1. Fresh(1) \in Memory /\ Fresh(1).date = 1
    BY DateFact DEF Fresh, Memory
  <2> QED BY <1>1, <2>1 DEF Memory
<1>3. \A a \in Agent : pc[a] = Idle /\ pc[a].at = "idle"
  BY <1>1, IdleState
<1>4. Rest
  BY <1>1, <1>2, DateFact DEF Rest
<1>5. Agents
  BY <1>1, <1>3, IdleState DEF Agents
<1>6. Known
  BY <1>1, <1>2, <1>3 DEF Known
<1>7. Good
  BY <1>1, <1>3 DEF Good, Below, Apart, Changing, Saved, Now
<1> QED BY <1>4, <1>5, <1>6, <1>7 DEF IInv, Typed

LEMMA InvStep == IInv /\ [Next]_vars => IInv'
<1> SUFFICES ASSUME IInv, [Next]_vars PROVE IInv'
  OBVIOUS
<1>1. CASE UNCHANGED vars
  <2>1. UNCHANGED <<mem, file, head, day, up, pc, bounds, ghost>>
    BY <1>1 DEF vars
  <2>2. Rest' /\ Agents'
    BY <2>1 DEF IInv, Typed, Rest, Agents, bounds, ghost
  <2> QED BY <2>1, <2>2, QuietInv DEF Quiet
<1>2. ASSUME NEW p \in Proc, Draw(p) \/ Wrap(p) \/ GetDate(p) PROVE IInv'
  BY <1>2, StepDraw, StepWrap, StepGetDate
<1>3. ASSUME NEW a \in {Pol, Adm}, SaveOpen(a) \/ SaveWrite(a) \/ SaveFails(a) \/ ChangeStep(a) PROVE IInv'
  <2>1. a \in Agent
    BY DEF Agent
  <2> QED
    BY <1>3, <2>1, StepSaveOpen, StepSaveWrite, StepSaveFails, StepChangeCheck, StepChangeDate,
       StepChangeReset DEF ChangeStep
<1>4. ASSUME NEW a \in Agent, Die(a) PROVE IInv'
  BY <1>4, StepDie
<1>5. CASE AdmCommand
  BY <1>5, StepSetDate, StepSave, StepSetPlatFlow DEF AdmCommand
<1>6. CASE PolTimeout \/ PolUpdate \/ PolExit \/ SetDateLock \/ Halt \/ Crash \/ Start \/ Midnight
  BY <1>6, StepPol, StepPolExit, StepSetDateLock, StepHalt, StepCrash, StepStart, StepMidnight
<1> QED BY <1>1, <1>2, <1>3, <1>4, <1>5, <1>6 DEF Next

\* The police process has a part in no claim about the numbers.
Police == police \in {"alive", "told", "dead"}
LEMMA PoliceStep == Police /\ [Next]_vars => Police'
<1> SUFFICES ASSUME Police, [Next]_vars PROVE Police'
  OBVIOUS
<1>1. ASSUME NEW a \in Agent, Die(a) PROVE Police'
  BY <1>1 DEF Die, Police
<1>2. CASE StopAll \/ PolExit \/ Halt \/ Crash \/ Start
  BY <1>2 DEF StopAll, PolExit, Halt, Crash, Start, Police
<1>3. CASE UNCHANGED police
  BY <1>3 DEF Police
<1>4. (\E a \in Agent : Die(a)) \/ StopAll \/ PolExit \/ Halt \/ Crash \/ Start \/ UNCHANGED police
  BY DEF Next, vars, Draw, Wrap, GetDate, SaveOpen, SaveWrite, SaveFails, ChangeStep, ChangeCheck,
         ChangeDate, ChangeReset, PolTimeout, PolUpdate, AdmCommand, SetDate, SetDateUnlock, SetPlatFlow,
         SetDateLock, Midnight
<1> QED BY <1>1, <1>2, <1>3, <1>4

LEMMA InvType == Typed /\ Police => TypeOK
<1> SUFFICES ASSUME Typed, Police PROVE TypeOK
  OBVIOUS
<1>1. mem.date \in Date /\ mem.vfs \in Day /\ mem.lock \in BOOLEAN /\ mem.base \in Nat
  BY DEF Typed, Rest, Memory
<1>2. file # None => file.flag \in {1, 2} /\ file.mem.date \in Date
  BY DEF Typed, Rest, File, Memory
<1> QED BY <1>1, <1>2 DEF Typed, Rest, Police, Agents, State, Place, Op, TypeOK

\* The memory, the file and the processes of seqs.c, pol_cycle.c and
\* adm_cmd_handler.c have their types, and the head's lock is with who is
\* between the two halves of seqs_loc_change_date.
THEOREM TypeCorrect == Spec => []TypeOK
<1>1. IInv /\ Police => TypeOK
  BY InvType DEF IInv
<1>2. Init => Police
  BY DEF Init, Police
<1> QED BY <1>1, <1>2, InvInit, InvStep, PoliceStep, PTL DEF Spec

\* seqs_get_traceno_and_sysdate gives no number and date twice, across changes
\* of date, stops and crashes, unless one of the seven windows has opened.
THEOREM Unique == Spec => []TraceUnique
<1>1. IInv => TraceUnique
  BY DEF IInv, Good, TraceUnique
<1> QED BY <1>1, InvInit, InvStep, PTL DEF Spec
-----------------------------------------------------------------------------
(***************************************************************************)
(* Business numbers (SeqsBusiness) are distinct, and those of a call that  *)
(* is not joined between its two sections are its own, for every number of *)
(* services, every unit and all steps.                                     *)
(*                                                                         *)
(* A call takes its number in the first section and pays for the rest of   *)
(* its range in the second.  What makes it work is that the unit only      *)
(* moves up within a lap: a number that is drawn is below trn_base         *)
(* (Drawn), a range that is paid for ends below it (Paid).  A service that *)
(* dies leaves the unit as if it had asked for fewer numbers, except       *)
(* between the two writes of the second section: then the unit moves down, *)
(* over the number of the dead alone as long as nobody else was between    *)
(* the sections (AloneTop).  While single numbers are asked for, none is   *)
(* skipped but those of the dead (Whole).                                  *)
(***************************************************************************)

\* Two calls of one lap with numbers of the unit.
Rivals(g, h) == g.lap = h.lap /\ Valid(g) /\ Valid(h)
End(g) == g.no + g.step

Drawn == \A p \in Between : call[p].lap = lap /\ Valid(call[p]) => call[p].no < trn_base
Paid == \A g \in Past : g.lap = lap /\ Valid(g) => End(g) <= trn_base
DrawnApart == \A p, q \in Between : p # q /\ Rivals(call[p], call[q]) => call[p].no # call[q].no
DrawnNew == \A p \in Between : \A g \in Past : Rivals(call[p], g) => call[p].no # g.no

\* Who is alone is the only one between the sections, and draws after the
\* ranges that are paid for; others draw after his.
AloneOnly == \A p, q \in Between : call[p].how = "alone" => q = p
AloneAfter == \A p \in Between : \A g \in Past :
                call[p].how = "alone" /\ Rivals(call[p], g) => End(g) <= call[p].no
AloneBefore == \A p \in Between : \A g \in Past :
                 g.how = "alone" /\ Rivals(call[p], g) => End(g) <= call[p].no
AloneTop == \A p \in Between : call[p].how = "alone" /\ call[p].lap = lap /\ Valid(call[p])
                               => trn_base = call[p].no + 1
\* The numbers of the dead were given to nobody.
LostApart == \A g \in served : \A h \in lost : Rivals(g, h) => g.no # h.no

BsnCore == /\ ~again /\ RangesApart /\ LostApart
           /\ Drawn /\ Paid /\ DrawnApart /\ DrawnNew
           /\ AloneOnly /\ AloneAfter /\ AloneBefore /\ AloneTop
BsnInv == BsnTypeOK /\ (~torn => BsnCore)

USE StepAssumption, UnitAssumption, BsnBoundAssumption

-----------------------------------------------------------------------------
(* What the steps do to the calls *)

LEMMA TakeCalls ==
  ASSUME BsnTypeOK, NEW p \in BsnProc, call[p].at = "draw", Take(p)
  PROVE  /\ CallType'
         /\ Between' = Between \cup {p}
         /\ call'[p].lap = lap /\ call'[p].no = trn_base /\ call'[p].step = call[p].step
         /\ call'[p].how = "alone" => Between = {}
         /\ p \notin Between
         /\ \A q \in Between : /\ call'[q].lap = call[q].lap /\ call'[q].no = call[q].no
                               /\ call'[q].step = call[q].step /\ call'[q].how = "joined"
         /\ \A q \in BsnProc : call[q].at # "idle" <=> call'[q].at # "idle"
         /\ \A q \in BsnProc : call'[q].step = call[q].step
<1>1. CallType'
  BY DEF BsnTypeOK, CallType, UnitOK, Take
<1>2. Between' = Between \cup {p} /\ p \notin Between
  BY DEF BsnTypeOK, CallType, Take, Between
<1>3. call'[p] = [at |-> "drawn", lap |-> lap, no |-> trn_base, step |-> call[p].step,
                  how |-> IF Between = {} THEN "alone" ELSE "joined"]
  BY DEF Take
<1>4. \A q \in Between : call'[q] = [call[q] EXCEPT !.how = "joined"]
  BY <1>2 DEF Take, Between
<1>5. \A q \in BsnProc : q # p /\ q \notin Between => call'[q] = call[q]
  BY DEF Take
<1>6. \A q \in Between : /\ call'[q].lap = call[q].lap /\ call'[q].no = call[q].no
                         /\ call'[q].step = call[q].step /\ call'[q].how = "joined"
                         /\ call'[q].at = "drawn"
  <2> SUFFICES ASSUME NEW q \in Between
               PROVE  /\ call'[q].lap = call[q].lap /\ call'[q].no = call[q].no
                      /\ call'[q].step = call[q].step /\ call'[q].how = "joined"
                      /\ call'[q].at = "drawn"
    OBVIOUS
  <2>1. call[q] \in [at : {"idle", "draw", "drawn"}, lap : Nat, no : Int,
                     step : Steps \cup {0}, how : {"alone", "joined"}] /\ call[q].at = "drawn"
    BY DEF BsnTypeOK, CallType, Between
  <2>2. call'[q] = [call[q] EXCEPT !.how = "joined"]
    BY <1>4
  <2> QED BY <2>1, <2>2
<1>7. /\ call'[p].lap = lap /\ call'[p].no = trn_base /\ call'[p].step = call[p].step
      /\ call'[p].at = "drawn"
  BY <1>3
<1>8. call'[p].how = "alone" => Between = {}
  BY <1>3
<1>9. \A q \in BsnProc : /\ call[q].at # "idle" <=> call'[q].at # "idle"
                         /\ call'[q].step = call[q].step
  BY <1>5, <1>6, <1>7 DEF Between
<1> QED BY <1>1, <1>2, <1>6, <1>7, <1>8, <1>9

LEMMA LeaveCalls ==
  ASSUME BsnTypeOK, NEW p \in BsnProc, BsnGoto(p, BsnIdle)
  PROVE  /\ CallType'
         /\ Between' = Between \ {p}
         /\ \A q \in BsnProc : q # p => call'[q] = call[q]
         /\ call'[p].at = "idle"
BY DEF BsnTypeOK, CallType, BsnGoto, BsnIdle, Between

\* What a service that dies may have taken.
LEMMA DieTakes ==
  ASSUME BsnTypeOK, NEW p \in BsnProc, call[p].at = "drawn", NEW k \in {1, call[p].step}
  PROVE  k \in Steps \cup {1} /\ k \in Nat \ {0} /\ k \in Int
<1>1. call[p].step \in Steps
  BY DEF BsnTypeOK, CallsOK
<1>2. CASE k = 1
  BY <1>2
<1>3. CASE k = call[p].step
  <2>1. k \in Steps
    BY <1>1, <1>3, Zenon
  <2>2. k \in Nat \ {0}
    BY <2>1, StepAssumption, Zenon
  <2> QED BY <2>1, <2>2
<1> QED BY <1>2, <1>3

LEMMA PastNumbers ==
  ASSUME BsnTypeOK, NEW g \in Past
  PROVE  g.no \in Int /\ g.step \in Nat \ {0} /\ g.lap \in Nat
<1>1. CASE g \in served
  BY <1>1 DEF BsnTypeOK, PastOK, Call
<1>2. CASE g \in lost
  <2>1. g \in [lap : Nat, no : Int, step : Steps \cup {1}, how : {"alone", "joined"}]
    BY <1>2 DEF BsnTypeOK, PastOK
  <2>2. g.step \in Steps \/ g.step = 1
    BY <2>1
  <2>3. g.step \in Nat \ {0}
    <3>1. CASE g.step \in Steps
      BY <3>1, StepAssumption, Zenon
    <3>2. CASE g.step = 1
      BY <3>2
    <3> QED BY <2>2, <3>1, <3>2
  <2> QED BY <2>1, <2>3
<1> QED BY <1>1, <1>2 DEF Past

-----------------------------------------------------------------------------
LEMMA TypeInit == BsnInit => BsnTypeOK
<1> SUFFICES ASSUME BsnInit PROVE BsnTypeOK
  OBVIOUS
<1>1. CallType
  BY DEF BsnInit, CallType, BsnIdle
<1>2. CallsOK
  BY DEF BsnInit, CallsOK, BsnIdle
<1>3. UnitOK /\ PastOK
  BY DEF BsnInit, UnitOK, PastOK, Past
<1>4. again \in BOOLEAN /\ torn \in BOOLEAN
  BY DEF BsnInit
<1> QED BY <1>1, <1>2, <1>3, <1>4 DEF BsnTypeOK

LEMMA TypeStep == BsnTypeOK /\ [BsnNext]_bsnVars => BsnTypeOK'
<1> SUFFICES ASSUME BsnTypeOK, [BsnNext]_bsnVars PROVE BsnTypeOK'
  OBVIOUS
<1>1. ASSUME NEW p \in BsnProc, NEW k \in Steps, NewBusinessNo(p, k) PROVE BsnTypeOK'
  <2>1. CallType'
    BY <1>1 DEF BsnTypeOK, CallType, NewBusinessNo, BsnGoto
  <2>2. CallsOK'
    BY <1>1 DEF BsnTypeOK, CallType, CallsOK, NewBusinessNo, BsnGoto, BsnIdle, Valid
  <2>3. UnitOK' /\ PastOK' /\ again' \in BOOLEAN /\ torn' \in BOOLEAN
    BY <1>1 DEF BsnTypeOK, UnitOK, PastOK, Past, NewBusinessNo
  <2> QED BY <2>1, <2>2, <2>3 DEF BsnTypeOK
<1>2. ASSUME NEW p \in BsnProc, BsnDraw(p) PROVE BsnTypeOK'
  <2>1. /\ CallType' /\ Take(p) /\ call[p].at = "draw" /\ trn_base <= BsnEjfnoMax
        /\ UNCHANGED <<cycle, lap>>
    BY <1>2, TakeCalls DEF BsnDraw
  <2>2. CallsOK'
    <3>1. \A q \in BsnProc : call'[q].at # "idle" => call'[q].step \in Steps
      BY <2>1, TakeCalls DEF BsnTypeOK, CallsOK
    <3>2. \A q \in Between' : call'[q].lap <= lap /\ (cycle => Valid(call'[q]))
      BY <2>1, TakeCalls DEF BsnTypeOK, CallType, CallsOK, UnitOK, Between, Valid
    <3> QED BY <2>1, <3>1, <3>2 DEF CallsOK, Between, Valid
  <2>3. UnitOK' /\ PastOK' /\ again' \in BOOLEAN /\ torn' \in BOOLEAN
    BY <1>2 DEF BsnTypeOK, UnitOK, PastOK, Past, BsnDraw
  <2> QED BY <2>1, <2>2, <2>3 DEF BsnTypeOK
<1>3. ASSUME NEW p \in BsnProc, BsnWrap(p) PROVE BsnTypeOK'
  <2>1. CallType' /\ again' \in BOOLEAN /\ torn' \in BOOLEAN
    BY <1>3 DEF BsnTypeOK, CallType, BsnWrap
  <2>2. UnitOK' /\ lap' = lap + 1 /\ lap \in Nat
    <3>1. /\ lap < MaxLap /\ trn_base' = Base /\ lap' = lap + 1
          /\ UNCHANGED <<cycle, refused, deaths>>
      BY <1>3 DEF BsnWrap
    <3> QED BY <3>1 DEF BsnTypeOK, UnitOK
  <2>3. CallsOK'
    BY <1>3, <2>2 DEF BsnTypeOK, CallType, CallsOK, BsnWrap, Valid
  <2>4. PastOK'
    BY <1>3, <2>2 DEF BsnTypeOK, PastOK, Past, Call, BsnWrap
  <2> QED BY <2>1, <2>2, <2>3, <2>4 DEF BsnTypeOK
<1>4. ASSUME NEW p \in BsnProc, DrawRefused(p) PROVE BsnTypeOK'
  <2>1. /\ CallType' /\ Take(p) /\ call[p].at = "draw" /\ ~cycle
        /\ UNCHANGED <<cycle, trn_base, lap>>
    BY <1>4, TakeCalls DEF DrawRefused
  <2>2. CallsOK'
    <3>1. \A q \in BsnProc : call'[q].at # "idle" => call'[q].step \in Steps
      BY <2>1, TakeCalls DEF BsnTypeOK, CallsOK
    <3>2. \A q \in Between' : call'[q].lap <= lap /\ (cycle => Valid(call'[q]))
      BY <2>1, TakeCalls DEF BsnTypeOK, CallType, CallsOK, UnitOK, Between, Valid
    <3> QED BY <2>1, <3>1, <3>2 DEF CallsOK, Between, Valid
  <2>3. UnitOK' /\ PastOK' /\ again' \in BOOLEAN /\ torn' \in BOOLEAN
    BY <1>4 DEF BsnTypeOK, UnitOK, PastOK, Past, DrawRefused
  <2> QED BY <2>1, <2>2, <2>3 DEF BsnTypeOK
<1>5. ASSUME NEW p \in BsnProc, Adjust(p) PROVE BsnTypeOK'
  <2>1. /\ CallType' /\ Return(p) /\ BsnGoto(p, BsnIdle) /\ call[p].at = "drawn"
        /\ trn_base' = trn_base - 1 + call[p].step
        /\ UNCHANGED <<cycle, lap, lost, torn, refused, deaths>>
    BY <1>5, LeaveCalls DEF Adjust, Return
  <2>2. CallsOK'
    BY <2>1, LeaveCalls DEF BsnTypeOK, CallsOK, Valid
  <2>3. UnitOK'
    BY <2>1 DEF BsnTypeOK, CallType, CallsOK, UnitOK
  <2>4. Took(p, call[p].step) \in Call /\ Took(p, call[p].step).lap <= lap
    BY <2>1 DEF BsnTypeOK, CallType, CallsOK, Call, Took
  <2>5. PastOK'
    BY <2>1, <2>4 DEF BsnTypeOK, PastOK, Past, Return
  <2>6. again' \in BOOLEAN /\ torn' \in BOOLEAN
    BY <2>1 DEF BsnTypeOK, Return
  <2> QED BY <2>1, <2>2, <2>3, <2>5, <2>6 DEF BsnTypeOK
<1>8. ASSUME NEW p \in BsnProc, BsnDie(p) PROVE BsnTypeOK'
  <2>1. /\ CallType' /\ BsnGoto(p, BsnIdle) /\ deaths < BsnMaxDeath /\ deaths' = deaths + 1
        /\ UNCHANGED <<cycle, lap, served, again, torn, refused>>
    BY <1>8, LeaveCalls DEF BsnDie
  <2>2. CallsOK'
    BY <2>1, LeaveCalls DEF BsnTypeOK, CallsOK, Valid
  <2>3. CASE UNCHANGED <<trn_base, lost>>
    BY <2>1, <2>2, <2>3 DEF BsnTypeOK, UnitOK, PastOK, Past
  <2>4. ASSUME NEW k \in {1, call[p].step}, call[p].at = "drawn",
               trn_base' = trn_base - 1 + k, lost' = lost \cup {Took(p, k)}
        PROVE  BsnTypeOK'
    <3>1. k \in Steps \cup {1} /\ k \in Int
      BY <2>4, DieTakes
    <3>2. /\ Took(p, k) \in [lap : Nat, no : Int, step : Steps \cup {1}, how : {"alone", "joined"}]
          /\ Took(p, k).lap <= lap
      BY <2>4, <3>1 DEF BsnTypeOK, CallType, CallsOK, Took
    <3>3. PastOK'
      BY <2>1, <2>4, <3>2 DEF BsnTypeOK, PastOK, Past
    <3>4. UnitOK'
      BY <2>1, <2>4, <3>1 DEF BsnTypeOK, UnitOK
    <3> QED BY <2>1, <2>2, <3>3, <3>4 DEF BsnTypeOK
  <2> QED BY <1>8, <2>3, <2>4 DEF BsnDie
<1>9. ASSUME NEW p \in BsnProc, DieRestored(p) PROVE BsnTypeOK'
  <2>1. /\ CallType' /\ BsnGoto(p, BsnIdle) /\ deaths < BsnMaxDeath /\ deaths' = deaths + 1
        /\ UNCHANGED <<cycle, lap, served, lost, again, refused>> /\ trn_base' = trn_base - 1
    BY <1>9, LeaveCalls DEF DieRestored
  <2>2. CallsOK'
    BY <2>1, LeaveCalls DEF BsnTypeOK, CallsOK, Valid
  <2>3. UnitOK' /\ PastOK'
    BY <2>1 DEF BsnTypeOK, UnitOK, PastOK, Past
  <2>4. torn' \in BOOLEAN
    BY <1>9 DEF BsnTypeOK, DieRestored
  <2> QED BY <2>1, <2>2, <2>3, <2>4 DEF BsnTypeOK
<1>6. ASSUME NEW m \in Base .. BsnEjfnoMax, SetBsnFlow(m) PROVE BsnTypeOK'
  <2>1. CallType' /\ again' \in BOOLEAN /\ torn' \in BOOLEAN
    BY <1>6 DEF BsnTypeOK, CallType, SetBsnFlow
  <2>2. UnitOK' /\ lap' = lap + 1 /\ lap \in Nat
    BY <1>6 DEF BsnTypeOK, UnitOK, SetBsnFlow
  <2>3. CallsOK'
    BY <1>6, <2>2 DEF BsnTypeOK, CallType, CallsOK, SetBsnFlow, Valid
  <2>4. PastOK'
    BY <1>6, <2>2 DEF BsnTypeOK, PastOK, Past, Call, SetBsnFlow
  <2> QED BY <2>1, <2>2, <2>3, <2>4 DEF BsnTypeOK
<1>7. CASE UNCHANGED bsnVars
  BY <1>7 DEF bsnVars, BsnTypeOK, CallType, CallsOK, UnitOK, PastOK, Past, Valid
<1> QED BY <1>1, <1>2, <1>3, <1>4, <1>5, <1>6, <1>7, <1>8, <1>9 DEF BsnNext

\* The unit, its laps and the calls keep their ranges (seqs_loc_new_business_no).
THEOREM BsnTypeCorrect == BsnSpec => []BsnTypeOK
BY TypeInit, TypeStep, PTL DEF BsnSpec

-----------------------------------------------------------------------------
LEMMA BsnInvInit == BsnInit => BsnInv
<1> SUFFICES ASSUME BsnInit PROVE BsnInv
  OBVIOUS
<1>1. BsnTypeOK
  BY TypeInit
<1>2. Between = {} /\ served = {} /\ Past = {}
  BY DEF BsnInit, Between, BsnIdle, Past
<1>3. ~again
  BY DEF BsnInit
<1>4. BsnCore
  BY <1>2, <1>3 DEF BsnCore, RangesApart, LostApart, Drawn, Paid, DrawnApart, DrawnNew, AloneOnly,
                    AloneAfter, AloneBefore, AloneTop
<1> QED BY <1>1, <1>4 DEF BsnInv

\* Drawing a number, of the unit or past its end.
LEMMA DrawInv ==
  ASSUME BsnTypeOK, BsnCore, NEW p \in BsnProc, call[p].at = "draw", Take(p),
         UNCHANGED <<lap, served, lost, again, torn>>,
         \/ trn_base' = trn_base + 1
         \/ trn_base' = trn_base /\ trn_base > BsnEjfnoMax
  PROVE  BsnCore'
<1>1. BsnTypeOK /\ UnitOK /\ PastOK /\ CallType /\ Past' = Past
  BY DEF BsnTypeOK, Past
<1>2. \A q \in Between : /\ call'[q].lap = call[q].lap /\ call'[q].no = call[q].no
                         /\ call'[q].step = call[q].step /\ call'[q].how = "joined"
  BY <1>1, TakeCalls
<1>3. /\ call'[p].lap = lap /\ call'[p].no = trn_base
      /\ call'[p].how = "alone" => Between = {}
      /\ Between' = Between \cup {p} /\ p \notin Between
  BY <1>1, TakeCalls
<1>4. trn_base \in Int /\ trn_base' \in Int /\ trn_base <= trn_base'
  BY <1>1 DEF UnitOK
<1>5. \A g \in Past : g.no \in Int /\ g.step \in Nat \ {0}
  BY <1>1, PastNumbers
<1>6. \A q \in Between : call[q].no \in Int
  BY <1>1 DEF CallType, Between
<1>7. Drawn'
  BY <1>2, <1>3, <1>4, <1>6 DEF BsnCore, Drawn, Valid
<1>8. Paid'
  BY <1>1, <1>4, <1>5 DEF BsnCore, Paid, Valid, End
<1>9. DrawnApart'
  BY <1>2, <1>3, <1>4, <1>6 DEF BsnCore, Drawn, DrawnApart, Rivals, Valid
<1>10. DrawnNew'
  BY <1>1, <1>2, <1>3, <1>4, <1>5 DEF BsnCore, Paid, DrawnNew, Rivals, Valid, End
<1>11. AloneOnly' /\ AloneAfter'
  BY <1>1, <1>2, <1>3, <1>4, <1>5 DEF BsnCore, Paid, AloneOnly, AloneAfter, Rivals, Valid, End
<1>12. AloneBefore'
  BY <1>1, <1>2, <1>3, <1>4, <1>5 DEF BsnCore, Paid, AloneBefore, Rivals, Valid, End
<1>13. AloneTop'
  BY <1>2, <1>3, <1>4 DEF AloneTop, Valid
<1>14. ~again' /\ RangesApart' /\ LostApart'
  BY DEF BsnCore, RangesApart, LostApart, Rivals, Numbers, Valid
<1> QED BY <1>7, <1>8, <1>9, <1>10, <1>11, <1>12, <1>13, <1>14 DEF BsnCore

\* The unit starts again, or is set.
LEMMA LapInv ==
  ASSUME BsnTypeOK, BsnCore, lap' = lap + 1, UNCHANGED <<call, served, lost, again, torn>>
  PROVE  BsnCore'
<1>1. lap \in Nat /\ Between' = Between /\ Past' = Past
  BY DEF BsnTypeOK, UnitOK, Between, Past
<1>2. \A g \in Past : g.lap \in Nat /\ g.lap <= lap
  BY <1>1 DEF BsnTypeOK, PastOK, Past, Call
<1>3. \A q \in Between : call[q].lap \in Nat /\ call[q].lap <= lap
  BY <1>1 DEF BsnTypeOK, CallType, CallsOK, Between
<1>4. Drawn' /\ Paid' /\ AloneTop'
  BY <1>1, <1>2, <1>3 DEF Drawn, Paid, AloneTop
<1>5. DrawnApart' /\ DrawnNew'
  BY <1>1 DEF BsnCore, DrawnApart, DrawnNew, Rivals, Valid
<1>6. AloneOnly' /\ AloneAfter' /\ AloneBefore'
  BY <1>1 DEF BsnCore, AloneOnly, AloneAfter, AloneBefore, Rivals, Valid, End
<1>7. ~again' /\ RangesApart' /\ LostApart'
  BY DEF BsnCore, RangesApart, LostApart, Rivals, Numbers, Valid
<1> QED BY <1>4, <1>5, <1>6, <1>7 DEF BsnCore

\* p is through with k numbers of the unit, its own or lost.
LEMMA TookInv ==
  ASSUME BsnTypeOK, BsnCore, NEW p \in Between, NEW k \in Nat \ {0}, BsnGoto(p, BsnIdle),
         lap' = lap, trn_base' = trn_base - 1 + k, Past' = Past \cup {Took(p, k)}
  PROVE  /\ Drawn' /\ Paid' /\ DrawnApart' /\ DrawnNew'
         /\ AloneOnly' /\ AloneAfter' /\ AloneBefore' /\ AloneTop'
<1> DEFINE new == Took(p, k)
<1>2. /\ Between' = Between \ {p} /\ \A q \in Between' : call'[q] = call[q]
  BY LeaveCalls DEF Between
<1>3. Past' = Past \cup {new}
  OBVIOUS
<1>4. new.lap = call[p].lap /\ new.no = call[p].no /\ new.step = k /\ new.how = call[p].how
  BY DEF Took
<1>5. call[p].no \in Int
  BY DEF BsnTypeOK, CallType, Between
<1>6. trn_base \in Int /\ trn_base' \in Int /\ trn_base <= trn_base'
  BY DEF BsnTypeOK, UnitOK
<1>7. \A g \in Past : g.no \in Int /\ g.step \in Nat
  BY PastNumbers
<1>8. \A q \in Between : call[q].no \in Int
  BY DEF BsnTypeOK, CallType, Between
<1> HIDE DEF new
<1>9. Drawn'
  BY <1>2, <1>6, <1>8 DEF BsnCore, Drawn, Valid
<1>10. Paid'
  <2>1. \A g \in Past : g.lap = lap /\ Valid(g) => End(g) <= trn_base'
    BY <1>6, <1>7 DEF BsnCore, Paid, End
  <2>2. new.lap = lap /\ Valid(new) => End(new) <= trn_base'
    <3>1. call[p].lap = lap /\ Valid(call[p]) => call[p].no < trn_base
      BY DEF BsnCore, Drawn
    <3>2. trn_base' = trn_base - 1 + k
      OBVIOUS
    <3> QED BY <3>1, <3>2, <1>4, <1>5, <1>6 DEF Valid, End
  <2> QED BY <1>3, <2>1, <2>2 DEF Paid, Valid, End
<1>11. DrawnApart'
  BY <1>2 DEF BsnCore, DrawnApart, Rivals, Valid
<1>12. DrawnNew'
  BY <1>2, <1>3, <1>4 DEF BsnCore, DrawnApart, DrawnNew, Rivals, Valid
<1>13. AloneOnly' /\ AloneTop'
  BY <1>2 DEF BsnCore, AloneOnly, AloneTop, Valid
<1>14. AloneAfter' /\ AloneBefore'
  BY <1>2, <1>3, <1>4 DEF BsnCore, AloneOnly, AloneAfter, AloneBefore, Rivals, Valid, End
<1> QED BY <1>9, <1>10, <1>11, <1>12, <1>13, <1>14

\* The second section, and the return.
LEMMA AdjustInv ==
  ASSUME BsnTypeOK, BsnCore, NEW p \in BsnProc, Adjust(p)
  PROVE  BsnCore'
<1> DEFINE new == Took(p, call[p].step)
<1>1. /\ Return(p) /\ BsnGoto(p, BsnIdle) /\ p \in Between /\ lap' = lap
      /\ trn_base' = trn_base - 1 + call[p].step /\ UNCHANGED <<lost, torn>>
  BY DEF Adjust, Between, Return
<1>3. served' = served \cup {new} /\ Past' = Past \cup {new}
  BY <1>1 DEF Return, Past
<1>4. /\ new.lap = call[p].lap /\ new.no = call[p].no /\ new.step = call[p].step
      /\ new.how = call[p].how
  BY DEF Took
<1>5. call[p].no \in Int /\ call[p].step \in Nat \ {0}
  BY <1>1 DEF BsnTypeOK, CallType, CallsOK, Between
<1>7. \A g \in served : g.no \in Int /\ g.step \in Nat /\ g \in Past
  BY DEF BsnTypeOK, PastOK, Past, Call
<1>8. /\ Drawn' /\ Paid' /\ DrawnApart' /\ DrawnNew'
      /\ AloneOnly' /\ AloneAfter' /\ AloneBefore' /\ AloneTop'
  BY <1>1, <1>3, <1>5, TookInv
<1> HIDE DEF new
<1>15. ~again'
  <2>1. ~again /\ again' = (again \/ (Valid(call[p]) /\ \E g \in served : g.lap = call[p].lap /\ g.no = call[p].no))
    BY <1>1 DEF BsnCore, Return
  <2>2. ~(Valid(call[p]) /\ \E g \in served : g.lap = call[p].lap /\ g.no = call[p].no)
    BY <1>1, <1>7 DEF BsnCore, DrawnNew, Rivals, Valid
  <2> QED BY <2>1, <2>2
<1>16. RangesApart'
  <2> SUFFICES ASSUME ~torn
               PROVE \A g, h \in served' : g.how = "alone" /\ g # h /\ g.lap = h.lap /\ Valid(g) /\ Valid(h)
                                             => Numbers(g) \cap Numbers(h) = {}
    BY <1>1 DEF RangesApart, Valid, Numbers
  <2>1. \A g, h \in served : g.how = "alone" /\ g # h /\ g.lap = h.lap /\ Valid(g) /\ Valid(h)
                             => Numbers(g) \cap Numbers(h) = {}
    BY DEF BsnCore, RangesApart
  <2>2. \A g \in served : new.how = "alone" /\ new.lap = g.lap /\ Valid(new) /\ Valid(g)
                          => Numbers(new) \cap Numbers(g) = {}
    <3>1. \A g \in served : new.how = "alone" /\ new.lap = g.lap /\ Valid(new) /\ Valid(g)
                            => End(g) <= new.no
      BY <1>1, <1>4, <1>7 DEF BsnCore, AloneAfter, Rivals, Valid
    <3> QED BY <3>1, <1>4, <1>5, <1>7 DEF End, Numbers
  <2>3. \A g \in served : g.how = "alone" /\ new.lap = g.lap /\ Valid(new) /\ Valid(g)
                          => Numbers(g) \cap Numbers(new) = {}
    <3>1. \A g \in served : g.how = "alone" /\ new.lap = g.lap /\ Valid(new) /\ Valid(g)
                            => End(g) <= new.no
      BY <1>1, <1>4, <1>7 DEF BsnCore, AloneBefore, Rivals, Valid
    <3> QED BY <3>1, <1>4, <1>5, <1>7 DEF End, Numbers
  <2> QED BY <1>3, <2>1, <2>2, <2>3
<1>17. LostApart'
  <2>1. \A h \in lost : Rivals(new, h) => new.no # h.no
    BY <1>1, <1>4 DEF BsnCore, DrawnNew, Rivals, Valid, Past
  <2> QED BY <1>1, <1>3, <2>1 DEF BsnCore, LostApart, Rivals, Valid
<1> QED BY <1>8, <1>15, <1>16, <1>17 DEF BsnCore

\* Death with a number, outside the two writes of the second section.
LEMMA DieInv ==
  ASSUME BsnTypeOK, BsnCore, NEW p \in BsnProc, BsnDie(p)
  PROVE  BsnCore'
<1>1. BsnGoto(p, BsnIdle) /\ UNCHANGED <<lap, served, again, torn>>
  BY DEF BsnDie
<1>2. CASE call[p].at = "draw" /\ UNCHANGED <<trn_base, lost>>
  <2>1. Between' = Between /\ \A q \in Between : call'[q] = call[q]
    BY <1>1, <1>2, LeaveCalls DEF Between
  <2> QED BY <1>1, <1>2, <2>1
          DEF BsnCore, RangesApart, LostApart, Numbers, Drawn, Paid, DrawnApart, DrawnNew, AloneOnly,
              AloneAfter, AloneBefore, AloneTop, Rivals, Valid, End, Past
<1>3. ASSUME NEW k \in {1, call[p].step}, call[p].at = "drawn",
             trn_base' = trn_base - 1 + k, lost' = lost \cup {Took(p, k)}
      PROVE  BsnCore'
  <2>1. p \in Between /\ k \in Nat \ {0}
    BY <1>3, DieTakes DEF Between
  <2>2. Past' = Past \cup {Took(p, k)}
    BY <1>1, <1>3 DEF Past
  <2>3. /\ Drawn' /\ Paid' /\ DrawnApart' /\ DrawnNew'
        /\ AloneOnly' /\ AloneAfter' /\ AloneBefore' /\ AloneTop'
    BY <1>1, <1>3, <2>1, <2>2, TookInv
  <2>4. Took(p, k).lap = call[p].lap /\ Took(p, k).no = call[p].no
    BY DEF Took
  <2>5. \A g \in served : Rivals(g, Took(p, k)) => g.no # Took(p, k).no
    BY <2>1, <2>4 DEF BsnCore, DrawnNew, Rivals, Valid, Past
  <2>6. LostApart'
    BY <1>1, <1>3, <2>5 DEF BsnCore, LostApart, Rivals, Valid
  <2>7. ~again' /\ RangesApart'
    BY <1>1 DEF BsnCore, RangesApart, Numbers, Valid
  <2> QED BY <2>3, <2>6, <2>7 DEF BsnCore
<1> QED BY <1>2, <1>3 DEF BsnDie

\* Death between them, alone: the number goes back.
LEMMA RestoredInv ==
  ASSUME BsnTypeOK, BsnCore, NEW p \in BsnProc, DieRestored(p), ~torn'
  PROVE  BsnCore'
<1>1. /\ BsnGoto(p, BsnIdle) /\ UNCHANGED <<lap, served, lost, again>> /\ trn_base' = trn_base - 1
      /\ p \in Between /\ call[p].how = "alone" /\ call[p].lap = lap /\ Valid(call[p])
  BY DEF DieRestored, Between
<1>2. Between' = {}
  BY <1>1, LeaveCalls DEF BsnCore, AloneOnly
<1>3. trn_base = call[p].no + 1 /\ call[p].no \in Int /\ trn_base' = call[p].no
  BY <1>1 DEF BsnCore, AloneTop, BsnTypeOK, CallType
<1>4. \A g \in Past : g.lap = lap /\ Valid(g) => End(g) <= call[p].no
  BY <1>1 DEF BsnCore, AloneAfter, Rivals
<1>5. Paid'
  BY <1>1, <1>3, <1>4 DEF Paid, Past, Valid, End
<1>6. ~again' /\ LostApart'
  BY <1>1 DEF BsnCore, LostApart, Rivals, Valid
<1>7. RangesApart'
  <2>1. ~torn
    BY DEF DieRestored
  <2> QED BY <1>1, <2>1 DEF BsnCore, RangesApart, Numbers, Valid
<1> QED BY <1>2, <1>5, <1>6, <1>7 DEF BsnCore, Drawn, DrawnApart, DrawnNew, AloneOnly, AloneAfter, AloneBefore,
                                AloneTop

LEMMA BsnInvStep == BsnInv /\ [BsnNext]_bsnVars => BsnInv'
<1> SUFFICES ASSUME BsnInv, [BsnNext]_bsnVars, ~torn' PROVE BsnCore'
  BY TypeStep DEF BsnInv
<1>0. BsnTypeOK
  BY DEF BsnInv
<1>1. BsnCore
  <2>1. ~torn
    BY <1>0 DEF BsnNext, bsnVars, NewBusinessNo, BsnDraw, BsnWrap, DrawRefused, Adjust, BsnDie, DieRestored,
                SetBsnFlow
  <2> QED BY <2>1 DEF BsnInv
<1>2. ASSUME NEW p \in BsnProc, NEW k \in Steps, NewBusinessNo(p, k) PROVE BsnCore'
  <2>1. Between' = Between /\ \A q \in Between : call'[q] = call[q]
    BY <1>0, <1>2 DEF BsnTypeOK, CallType, NewBusinessNo, BsnGoto, Between
  <2>2. UNCHANGED <<trn_base, lap, served, lost, again, torn>>
    BY <1>2 DEF NewBusinessNo
  <2> QED BY <1>1, <2>1, <2>2
          DEF BsnCore, RangesApart, LostApart, Numbers, Drawn, Paid, DrawnApart, DrawnNew, AloneOnly,
              AloneAfter, AloneBefore, AloneTop, Rivals, Valid, End, Past
<1>3. ASSUME NEW p \in BsnProc, BsnDraw(p) PROVE BsnCore'
  BY <1>0, <1>1, <1>3, DrawInv DEF BsnDraw
<1>4. ASSUME NEW p \in BsnProc, BsnWrap(p) PROVE BsnCore'
  BY <1>0, <1>1, <1>4, LapInv DEF BsnWrap
<1>5. ASSUME NEW p \in BsnProc, DrawRefused(p) PROVE BsnCore'
  BY <1>0, <1>1, <1>5, DrawInv DEF DrawRefused
<1>6. ASSUME NEW p \in BsnProc, Adjust(p) PROVE BsnCore'
  BY <1>0, <1>1, <1>6, AdjustInv
<1>7. ASSUME NEW p \in BsnProc, BsnDie(p) PROVE BsnCore'
  BY <1>0, <1>1, <1>7, DieInv
<1>8. ASSUME NEW p \in BsnProc, DieRestored(p) PROVE BsnCore'
  BY <1>0, <1>1, <1>8, RestoredInv
<1>9. ASSUME NEW m \in Base .. BsnEjfnoMax, SetBsnFlow(m) PROVE BsnCore'
  BY <1>0, <1>1, <1>9, LapInv DEF SetBsnFlow
<1>10. CASE UNCHANGED bsnVars
  BY <1>1, <1>10 DEF bsnVars, BsnCore, RangesApart, LostApart, Numbers, Drawn, Paid, DrawnApart, DrawnNew,
                     AloneOnly, AloneAfter, AloneBefore, AloneTop, Rivals, Valid, End, Between, Past
<1> QED BY <1>2, <1>3, <1>4, <1>5, <1>6, <1>7, <1>8, <1>9, <1>10 DEF BsnNext

\* No business number is returned twice in a lap, unless a service died between
\* the two writes of seqs.c:453-454 while others were between the sections
\* (seqs_new_business_no).
THEOREM BsnUnique == BsnSpec => []NumbersUnique
<1>1. BsnInv => NumbersUnique
  BY DEF BsnInv, BsnCore, NumbersUnique
<1> QED BY <1>1, BsnInvInit, BsnInvStep, PTL DEF BsnSpec

\* A call that is not joined between its two sections has its range for itself,
\* with the same exception.
THEOREM BsnApart == BsnSpec => []RangesApart
<1>1. BsnInv => RangesApart
  BY DEF BsnInv, BsnCore, RangesApart
<1> QED BY <1>1, BsnInvInit, BsnInvStep, PTL DEF BsnSpec
-----------------------------------------------------------------------------
(* No number is skipped but those of the dead *)

\* The numbers of this lap that are with a call, were returned or were lost.
Out(k) == \/ \E g \in Past : g.lap = lap /\ Valid(g) /\ g.no = k
          \/ \E p \in Between : call[p].lap = lap /\ Valid(call[p]) /\ call[p].no = k
Single == \A g \in Past : g.step = 1
Whole == ~torn /\ Single =>
           \E first \in Base .. BsnEjfnoMax :
             first <= trn_base /\ \A k \in Int : Out(k) <=> first <= k /\ k < trn_base

LEMMA WholeInit == BsnInit => Whole
<1> SUFFICES ASSUME BsnInit PROVE Whole
  OBVIOUS
<1>1. Past = {} /\ Between = {} /\ trn_base = Base
  BY DEF BsnInit, Between, BsnIdle, Past
<1>2. \A k \in Int : Out(k) <=> Base <= k /\ k < trn_base
  BY <1>1 DEF Out
<1> QED BY <1>1, <1>2 DEF Whole

\* Drawing adds the current number when it is one of the unit.
LEMMA WholeDraw ==
  ASSUME BsnTypeOK, Whole, NEW p \in BsnProc, call[p].at = "draw", Take(p),
         UNCHANGED <<lap, served, lost, torn>>,
         \/ trn_base' = trn_base + 1 /\ trn_base <= BsnEjfnoMax
         \/ trn_base' = trn_base /\ trn_base > BsnEjfnoMax
  PROVE  Whole'
<1>0. Past' = Past /\ Single' = Single
  BY DEF Past, Single
<1> SUFFICES ASSUME ~torn, Single
             PROVE  \E first \in Base .. BsnEjfnoMax :
                      first <= trn_base' /\ \A k \in Int : Out(k)' <=> first <= k /\ k < trn_base'
  BY <1>0 DEF Whole
<1>1. PICK first \in Base .. BsnEjfnoMax :
        first <= trn_base /\ \A k \in Int : Out(k) <=> first <= k /\ k < trn_base
  BY DEF Whole
<1>2. trn_base \in Int /\ first \in Int
  BY DEF BsnTypeOK, UnitOK
<1>3. /\ Between' = Between \cup {p} /\ p \notin Between
      /\ call'[p].lap = lap /\ call'[p].no = trn_base
      /\ \A q \in Between : call'[q].lap = call[q].lap /\ call'[q].no = call[q].no
  BY TakeCalls
<1>4. ASSUME NEW k \in Int PROVE Out(k)' <=> Out(k) \/ (k = trn_base /\ k <= BsnEjfnoMax)
  <2>1. (\E q \in Between' : call'[q].lap = lap /\ Valid(call'[q]) /\ call'[q].no = k)
          <=> \/ \E q \in Between : call[q].lap = lap /\ Valid(call[q]) /\ call[q].no = k
              \/ trn_base <= BsnEjfnoMax /\ trn_base = k
    BY <1>3 DEF Valid
  <2> QED BY <1>0, <2>1 DEF Out, Valid
<1>5. first <= trn_base' /\ \A k \in Int : Out(k)' <=> first <= k /\ k < trn_base'
  BY <1>1, <1>2, <1>4
<1> QED BY <1>5

\* A new lap begins empty, at one of the unit's numbers.
LEMMA WholeLap ==
  ASSUME BsnTypeOK, lap' = lap + 1, UNCHANGED <<call, served, lost>>, trn_base' \in Base .. BsnEjfnoMax
  PROVE  Whole'
<1>1. /\ lap \in Nat /\ \A g \in Past : g.lap \in Nat /\ g.lap <= lap
      /\ \A q \in Between : call[q].lap \in Nat /\ call[q].lap <= lap
  BY DEF BsnTypeOK, UnitOK, PastOK, Past, Call, CallType, CallsOK, Between
<1>2. Between' = Between /\ Past' = Past
  BY DEF Between, Past
<1>3. \A k \in Int : ~Out(k)'
  BY <1>1, <1>2 DEF Out, Valid
<1>4. trn_base' <= trn_base' /\ \A k \in Int : Out(k)' <=> trn_base' <= k /\ k < trn_base'
  BY <1>3
<1> QED BY <1>4 DEF Whole

\* A call for a single number leaves the unit alone; its number is given, or
\* lost, with it.
LEMMA WholeTook ==
  ASSUME BsnTypeOK, Whole, NEW p \in Between, NEW n \in Nat, BsnGoto(p, BsnIdle), UNCHANGED <<lap, torn>>,
         trn_base' = trn_base - 1 + n, Past' = Past \cup {Took(p, n)}
  PROVE  Whole'
<1> DEFINE new == Took(p, n)
<1> SUFFICES ASSUME ~torn, Single'
             PROVE  \E first \in Base .. BsnEjfnoMax :
                      first <= trn_base' /\ \A k \in Int : Out(k)' <=> first <= k /\ k < trn_base'
  BY DEF Whole
<1>2. Past' = Past \cup {new} /\ new.step = n
  BY DEF Took
<1>3. trn_base' = trn_base
  <2>1. n = 1
    BY <1>2 DEF Single
  <2> QED BY <2>1 DEF BsnTypeOK, UnitOK
<1>4. Between' = Between \ {p} /\ \A q \in Between' : call'[q] = call[q]
  BY LeaveCalls DEF Between
<1>5. new.lap = call[p].lap /\ new.no = call[p].no
  BY DEF Took
<1> HIDE DEF new
<1>6. ASSUME NEW k \in Int PROVE Out(k)' <=> Out(k)
  BY <1>2, <1>4, <1>5 DEF Out, Valid
<1>7. Single
  BY <1>2 DEF Single
<1> QED BY <1>3, <1>6, <1>7 DEF Whole

\* A number that goes back was the last one drawn.
LEMMA WholeRestored ==
  ASSUME BsnTypeOK, BsnCore, Whole, NEW p \in BsnProc, DieRestored(p)
  PROVE  Whole'
<1>0. Past' = Past /\ Single' = Single
  BY DEF DieRestored, Past, Single
<1> SUFFICES ASSUME ~torn', Single
             PROVE  \E first \in Base .. BsnEjfnoMax :
                      first <= trn_base' /\ \A k \in Int : Out(k)' <=> first <= k /\ k < trn_base'
  BY <1>0 DEF Whole
<1>1. /\ BsnGoto(p, BsnIdle) /\ lap' = lap /\ trn_base' = trn_base - 1 /\ ~torn
      /\ p \in Between /\ call[p].how = "alone" /\ call[p].lap = lap /\ Valid(call[p])
  BY DEF DieRestored, Between
<1>2. Between = {p} /\ Between' = {}
  BY <1>1, LeaveCalls DEF BsnCore, AloneOnly
<1>3. trn_base = call[p].no + 1 /\ call[p].no \in Int /\ trn_base' = call[p].no
  BY <1>1 DEF BsnCore, AloneTop, BsnTypeOK, CallType
<1>4. \A g \in Past : g.lap = lap /\ Valid(g) => g.no # call[p].no
  BY <1>1 DEF BsnCore, DrawnNew, Rivals
<1>5. PICK first \in Base .. BsnEjfnoMax :
        first <= trn_base /\ \A k \in Int : Out(k) <=> first <= k /\ k < trn_base
  BY <1>1 DEF Whole
<1>6. ASSUME NEW k \in Int PROVE Out(k)' <=> Out(k) /\ k # call[p].no
  BY <1>0, <1>1, <1>2, <1>4 DEF Out, Valid
<1>7. Out(call[p].no)
  BY <1>1 DEF Out
<1>8. first \in Int /\ first <= call[p].no
  BY <1>3, <1>5, <1>7
<1>9. first <= trn_base' /\ \A k \in Int : Out(k)' <=> first <= k /\ k < trn_base'
  BY <1>3, <1>5, <1>6, <1>8
<1> QED BY <1>9

LEMMA WholeStep == BsnInv /\ Whole /\ [BsnNext]_bsnVars => Whole'
<1> SUFFICES ASSUME BsnInv, Whole, [BsnNext]_bsnVars PROVE Whole'
  OBVIOUS
<1>0. BsnTypeOK
  BY DEF BsnInv
<1>1. ASSUME NEW p \in BsnProc, NEW k \in Steps, NewBusinessNo(p, k) PROVE Whole'
  <2>1. Between' = Between /\ \A q \in Between : call'[q] = call[q]
    BY <1>0, <1>1 DEF BsnTypeOK, CallType, NewBusinessNo, BsnGoto, Between
  <2>2. UNCHANGED <<trn_base, lap, served, lost, torn>>
    BY <1>1 DEF NewBusinessNo
  <2> QED BY <2>1, <2>2 DEF Whole, Out, Valid, Past, Single
<1>2. ASSUME NEW p \in BsnProc, BsnDraw(p) PROVE Whole'
  BY <1>0, <1>2, WholeDraw DEF BsnDraw
<1>3. ASSUME NEW p \in BsnProc, BsnWrap(p) PROVE Whole'
  BY <1>0, <1>3, WholeLap DEF BsnWrap
<1>4. ASSUME NEW p \in BsnProc, DrawRefused(p) PROVE Whole'
  BY <1>0, <1>4, WholeDraw DEF DrawRefused
<1>5. ASSUME NEW p \in BsnProc, Adjust(p) PROVE Whole'
  <2>1. p \in Between /\ call[p].step \in Nat
    BY <1>0, <1>5 DEF BsnTypeOK, CallsOK, Between, Adjust
  <2>2. Past' = Past \cup {Took(p, call[p].step)}
    BY <1>5 DEF Adjust, Return, Past
  <2> QED BY <1>0, <1>5, <2>1, <2>2, WholeTook DEF Adjust, Return
<1>6. ASSUME NEW p \in BsnProc, BsnDie(p) PROVE Whole'
  <2>0. BsnGoto(p, BsnIdle) /\ UNCHANGED <<lap, torn, served>>
    BY <1>6 DEF BsnDie
  <2>1. CASE call[p].at = "draw" /\ UNCHANGED <<trn_base, lost>>
    <3>1. Between' = Between /\ \A q \in Between : call'[q] = call[q]
      BY <1>0, <2>0, <2>1, LeaveCalls DEF Between
    <3> QED BY <2>0, <2>1, <3>1 DEF Whole, Out, Valid, Past, Single
  <2>2. ASSUME NEW k \in {1, call[p].step}, call[p].at = "drawn",
               trn_base' = trn_base - 1 + k, lost' = lost \cup {Took(p, k)}
        PROVE  Whole'
    <3>1. p \in Between /\ k \in Nat
      BY <1>0, <2>2 DEF BsnTypeOK, CallsOK, Between
    <3>2. Past' = Past \cup {Took(p, k)}
      BY <2>0, <2>2 DEF Past
    <3> QED BY <1>0, <2>0, <2>2, <3>1, <3>2, WholeTook
  <2> QED BY <1>6, <2>1, <2>2 DEF BsnDie
<1>7. ASSUME NEW p \in BsnProc, DieRestored(p) PROVE Whole'
  <2>1. CASE torn'
    BY <2>1 DEF Whole
  <2>2. CASE ~torn'
    BY <1>0, <1>7, <2>2, WholeRestored DEF DieRestored, BsnInv
  <2> QED BY <2>1, <2>2
<1>8. ASSUME NEW m \in Base .. BsnEjfnoMax, SetBsnFlow(m) PROVE Whole'
  BY <1>0, <1>8, WholeLap DEF SetBsnFlow
<1>9. CASE UNCHANGED bsnVars
  BY <1>9 DEF bsnVars, Whole, Out, Valid, Between, Past, Single
<1> QED BY <1>1, <1>2, <1>3, <1>4, <1>5, <1>6, <1>7, <1>8, <1>9 DEF BsnNext

\* While single numbers are asked for, the only gaps in what was given out in a
\* lap are the numbers of services that died with them: the first section takes a
\* number, the second gives back what it took too much.
THEOREM Gapless == BsnSpec => []NoneSkipped
<1>1. BsnInv /\ Whole => NoneSkipped
  <2> DEFINE of(S) == {g.no : g \in {h \in S : h.lap = lap /\ Valid(h)}}
  <2> SUFFICES ASSUME BsnInv, Whole, ~torn, Between = {}, \A g \in Past : g.step = 1
               PROVE  /\ \E first \in Base .. BsnEjfnoMax : of(served) \cup of(lost) = first .. trn_base - 1
                      /\ of(served) \cap of(lost) = {}
    BY DEF NoneSkipped
  <2>1. PICK first \in Base .. BsnEjfnoMax :
          first <= trn_base /\ \A k \in Int : Out(k) <=> first <= k /\ k < trn_base
    BY DEF Whole, Single
  <2>2. \A k \in Int : Out(k) <=> \E g \in Past : g.lap = lap /\ Valid(g) /\ g.no = k
    BY DEF Out
  <2>3. /\ trn_base \in Int /\ first \in Int
        /\ \A g \in Past : g.no \in Int
    BY DEF BsnInv, BsnTypeOK, UnitOK, PastOK, Past, Call
  <2>4. of(served) \cup of(lost) = of(Past)
    BY DEF Past
  <2>5. of(Past) = first .. trn_base - 1
    BY <2>1, <2>2, <2>3
  <2>6. of(served) \cap of(lost) = {}
    BY DEF BsnInv, BsnCore, LostApart, Rivals
  <2> QED BY <2>4, <2>5, <2>6
<1> QED BY <1>1, BsnInvInit, BsnInvStep, WholeInit, WholeStep, PTL DEF BsnSpec
=============================================================================
