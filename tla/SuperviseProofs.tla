--------------------------- MODULE SuperviseProofs ---------------------------
(***************************************************************************)
(* The manager has one process per name, and finds it in its record, for   *)
(* every number of workers, processes, restarts and deaths.                *)
(*                                                                         *)
(* A new process is in no record for a while, and what keeps the manager   *)
(* from starting another one is time: the record of a name that has a      *)
(* process without record is younger than MIN_RESTART_TIME, the copy the   *)
(* manager looks at included (Pending).  A process that has begun is in    *)
(* the record (Recorded); if the manager has overwritten that with an      *)
(* older copy, the copy was young, and what it wrote gives the worker up:  *)
(* it does not fork for that record either (Known).  That a manager starts *)
(* with no child left but orphans (Left) makes its first processes the     *)
(* only ones; that no record of an earlier run is left for the names it is *)
(* said of when the scans begin (Begun) makes the copies those of this run.*)
(***************************************************************************)
EXTENDS Supervise, TLAPS, FiniteSetTheorems

Process == [name : Worker \cup {"none"}, at : {"gone", "init", "up", "exiting"},
            cmd : {"none", "MSTOPSELF", "MEXITSELF"}, orphan : BOOLEAN]
SysRec == [status : {"none", "START", "STOPED", "ABORTED", "ABNORMAL"},
           cnt : -1 .. MAX_RESTART_CNT, limited : BOOLEAN, fresh : BOOLEAN]

GrpOK == grp \in [Worker -> Rec]
SysOK == sys \in SysRec
ProcOK == proc \in [Pid -> Process]
ScanOK == scan \in [w : Worker, rec : Rec] \cup {NoScan}
MgrOK == mgr \in {"down", "boot", "start", "up", "wait"}
CountOK == cmds \in 0 .. MaxCmd /\ crashes \in 0 .. MaxCrash
GhostOK == /\ stray \subseteq Worker /\ told \subseteq Worker /\ old \subseteq Worker /\ early \subseteq Worker
           /\ undone \in BOOLEAN /\ grown \in BOOLEAN /\ foreign \in BOOLEAN /\ over \in BOOLEAN

\* A process has a name.  No manager that is down or starts has a child, and
\* only one that is up looks at its workers.
Child(p) == proc[p].name \in Worker /\ ~proc[p].orphan
Alive == \A p \in Pid : proc[p].at # "gone" <=> proc[p].name \in Worker
Left == mgr \in {"down", "boot"} => \A p \in Pid : ~Child(p)
Looking == scan # NoScan => mgr = "up"
Begun == (mgr = "up" => old \subseteq early) /\ (mgr = "start" => early = {})

Typed == GrpOK /\ SysOK /\ ProcOK /\ ScanOK /\ MgrOK /\ CountOK /\ GhostOK
Shape == Typed /\ Alive /\ Left /\ Looking /\ Begun

\* A child of a name whose record is of this run.
Mine(p) == Child(p) /\ proc[p].name \notin early
Single == \A p, q \in Pid : Mine(p) /\ Mine(q) /\ proc[p].name = proc[q].name => p = q
Pending == \A p \in Pid : LET w == proc[p].name IN
             Mine(p) /\ proc[p].at = "init" /\ w \notin old =>
               /\ grp[w].status = "none" \/ grp[w].fresh
               /\ scan # NoScan /\ scan.w = w => scan.rec.fresh
Known == \A p \in Pid : LET w == proc[p].name IN
           Mine(p) /\ proc[p].at # "init" =>
             /\ grp[w].pid = p \/ grp[w].cnt = -1
             /\ scan # NoScan /\ scan.w = w => scan.rec.pid = p \/ scan.rec.fresh \/ scan.rec.cnt = -1
Recorded == ~over => \A p \in Pid : LET w == proc[p].name IN
              Mine(p) /\ proc[p].at # "init" => /\ grp[w].pid = p
                                                /\ proc[p].at = "up" => grp[w].status = "START"
Good == Single /\ Pending /\ Known /\ Recorded
Plain == ~grown /\ ~foreign

IInv == Shape /\ (Plain => Good)

USE NameAssumption, SupAssumption

-----------------------------------------------------------------------------
(* Records and processes *)

LEMMA InvType == Typed => TypeOK
<1> SUFFICES ASSUME Typed PROVE TypeOK
  OBVIOUS
<1>1. {stray, told, old, early} \subseteq SUBSET Worker /\ {undone, grown, foreign, over} \subseteq BOOLEAN
  BY DEF Typed, GhostOK
<1>2. scan \in [w : Worker, rec : Rec] \cup {[w |-> "none", rec |-> None]}
  BY DEF Typed, ScanOK, NoScan
<1> QED BY <1>1, <1>2 DEF Typed, GrpOK, SysOK, ProcOK, MgrOK, CountOK, SysRec, Process, TypeOK

LEMMA NoneRec == None \in Rec /\ None.pid = 0 /\ None.status = "none" /\ ~None.fresh
BY DEF None, Rec

LEMMA GoneProcess == Gone \in Process /\ Gone.name = "none" /\ Gone.at = "gone" /\ ~Gone.orphan
BY DEF Gone, Process

\* A record is written.
GrpAt(w, rec) == /\ grp'[w].pid = rec.pid /\ grp'[w].status = rec.status /\ grp'[w].cnt = rec.cnt /\ grp'[w].fresh
                 /\ \A v \in Worker \ {w} : grp'[v] = grp[v]
LEMMA RegisterSet ==
  ASSUME GrpOK, NEW w \in Worker, NEW rec \in Rec, Register(w, rec)
  PROVE  GrpOK' /\ GrpAt(w, rec)
<1> DEFINE r == [rec EXCEPT !.fresh = TRUE]
<1>1. r \in Rec /\ r.pid = rec.pid /\ r.status = rec.status /\ r.cnt = rec.cnt /\ r.fresh
  BY DEF Rec
<1>2. grp' = [grp EXCEPT ![w] = r]
  BY DEF Register
<1> HIDE DEF r
<1> QED BY <1>1, <1>2 DEF GrpOK, GrpAt

LEMMA OwnRec ==
  ASSUME Typed, NEW p \in Pid, proc[p].name \in Worker, NEW status \in {"START", "EXITING", "EXITED"}
  PROVE  Own(p, status) \in Rec /\ Own(p, status).pid = p /\ Own(p, status).status = status
<1>1. grp[proc[p].name] \in Rec
  BY DEF Typed, GrpOK
<1> DEFINE was == grp[proc[p].name]
           c == IF was.status = "none" \/ (status = "START" /\ was.cnt < 0) THEN MAX_RESTART_CNT ELSE was.cnt
<1>2. c \in -1 .. MAX_RESTART_CNT
  BY <1>1 DEF Rec
<1>3. Own(p, status) = [pid |-> p, status |-> status, fresh |-> TRUE, cnt |-> c]
  BY DEF Own
<1> HIDE DEF c
<1> QED BY <1>2, <1>3 DEF Rec

\* One process changes.
ProcAt(p, x) == proc'[p] = x /\ \A q \in Pid \ {p} : proc'[q] = proc[q]
LEMMA ExitSet ==
  ASSUME ProcOK, NEW p \in Pid, Exit(p)
  PROVE  ProcOK' /\ ProcAt(p, Gone)
BY GoneProcess DEF ProcOK, ProcAt, Exit

LEMMA SysSet ==
  ASSUME SysOK, NEW rec \in SysRec, SysRegister(rec)
  PROVE  SysOK'
BY DEF SysOK, SysRegister, SysRec

LEMMA SysStatus ==
  ASSUME SysOK, NEW s \in {"START", "STOPED", "ABORTED", "ABNORMAL"}
  PROVE  [sys EXCEPT !.status = s] \in SysRec
BY DEF SysOK, SysRec

-----------------------------------------------------------------------------
(* What forking does, and what a step that forks nothing leaves as it was *)

New(p, w) == proc'[p].name = w /\ proc'[p].at = "init" /\ ~proc'[p].orphan

LEMMA BornProcess ==
  ASSUME NEW n \in Worker
  PROVE  /\ [Gone EXCEPT !.name = n, !.at = "init"] \in Process
         /\ [Gone EXCEPT !.name = n, !.at = "init"].name = n
         /\ [Gone EXCEPT !.name = n, !.at = "init"].at = "init"
         /\ ~[Gone EXCEPT !.name = n, !.at = "init"].orphan
BY GoneProcess DEF Process

\* A child <<w, k>> is the process f[<<w, k>>].
LEMMA ForkSet ==
  ASSUME ProcOK, NEW children, \A c \in children : c[1] \in Worker, Fork(children)
  PROVE  /\ ProcOK'
         /\ \E f : \A p \in Pid : \/ proc'[p] = proc[p]
                                  \/ \E c \in children : f[c] = p /\ New(p, c[1])
<1> DEFINE free == {p \in Pid : /\ proc[p] = Gone /\ p # scan.rec.pid
                                /\ \A w \in Worker : grp[w].pid # p}
           f == CHOOSE g \in [children -> free] : \A c, d \in children : g[c] = g[d] => c = d
           kid(p) == CHOOSE c \in children : f[c] = p
           born(n) == [Gone EXCEPT !.name = n, !.at = "init"]
<1>1. proc' = [p \in Pid |-> IF \E c \in children : f[c] = p THEN born(kid(p)[1]) ELSE proc[p]]
  BY DEF Fork
<1>2. \A p \in Pid : (\E c \in children : f[c] = p) => kid(p) \in children /\ f[kid(p)] = p
  OBVIOUS
<1>3. \A n \in Worker : born(n) \in Process /\ born(n).name = n /\ born(n).at = "init" /\ ~born(n).orphan
  BY BornProcess
<1> HIDE DEF f, kid, born
<1>4. ProcOK'
  BY <1>1, <1>2, <1>3 DEF ProcOK
<1>5. \A p \in Pid : proc'[p] = proc[p] \/ \E c \in children : f[c] = p /\ New(p, c[1])
  <2> SUFFICES ASSUME NEW p \in Pid, \E c \in children : f[c] = p
               PROVE  \E c \in children : f[c] = p /\ New(p, c[1])
    BY <1>1
  <2>1. kid(p) \in children /\ f[kid(p)] = p /\ kid(p)[1] \in Worker
    BY <1>2
  <2>2. proc'[p] = born(kid(p)[1])
    BY <1>1
  <2> QED BY <2>1, <2>2, <1>3 DEF New
<1> QED BY <1>4, <1>5

\* Every process is as it was, is gone, or is new: each has a name.
LEMMA AliveStep ==
  ASSUME Alive, \A p \in Pid : \/ proc'[p].name = proc[p].name /\ (proc'[p].at = "gone" <=> proc[p].at = "gone")
                               \/ proc'[p] = Gone
                               \/ \E w \in Worker : New(p, w)
  PROVE  Alive'
BY GoneProcess DEF Alive, New

\* Children end and no new one comes: the invariant holds as it did.
Less == \A p \in Pid : Child(p)' => Child(p) /\ proc'[p].name = proc[p].name /\ proc'[p].at = proc[p].at
LEMMA Quiet ==
  ASSUME Plain => Good, Plain' => Plain, Less, grp' = grp, old' = old, early \subseteq early', over' = over,
         scan' = scan \/ scan' = NoScan
  PROVE  Plain' => Good'
<1> SUFFICES ASSUME Plain' PROVE Good'
  OBVIOUS
<1>1. \A p \in Pid : Mine(p)' => Mine(p) /\ proc'[p].name = proc[p].name /\ proc'[p].at = proc[p].at
  BY DEF Less, Mine
<1>2. Single'
  BY <1>1 DEF Good, Single
<1>3. Pending'
  BY <1>1 DEF Good, Pending
<1>4. Known'
  BY <1>1 DEF Good, Known
<1>5. Recorded'
  BY <1>1 DEF Good, Recorded
<1> QED BY <1>2, <1>3, <1>4, <1>5 DEF Good

LEMMA BegunStep ==
  ASSUME Begun, mgr' = mgr \/ mgr' \in {"down", "boot", "wait"}, old' \subseteq old, early' = early
  PROVE  Begun'
BY DEF Begun

LEMMA LeftLess ==
  ASSUME Left, Less, mgr' \in {"down", "boot"} => mgr \in {"down", "boot"}
  PROVE  Left'
BY DEF Left, Less

LEMMA ExitLess ==
  ASSUME Alive, NEW p \in Pid, ProcAt(p, Gone)
  PROVE  Less /\ Alive'
<1>1. Less
  BY GoneProcess DEF ProcAt, Less, Child
<1>2. Alive'
  <2>1. \A q \in Pid : proc'[q] = proc[q] \/ proc'[q] = Gone
    BY DEF ProcAt
  <2> QED BY <2>1, AliveStep
<1> QED BY <1>1, <1>2

LEMMA OrphansSet ==
  ASSUME ProcOK, Alive, proc' = Orphans
  PROVE  ProcOK' /\ Alive' /\ \A p \in Pid : ~Child(p)'
<1>1. \A p \in Pid : proc'[p] \in Process /\ proc'[p].name = proc[p].name /\ proc'[p].at = proc[p].at
                     /\ (proc'[p].orphan \/ proc'[p] = Gone)
  BY GoneProcess DEF ProcOK, Orphans, Process
<1>2. ProcOK'
  BY <1>1 DEF ProcOK, Orphans
<1>3. Alive'
  BY <1>1, AliveStep
<1>4. \A p \in Pid : ~Child(p)'
  BY <1>1, GoneProcess DEF Child
<1> QED BY <1>2, <1>3, <1>4

LEMMA SendSet ==
  ASSUME ProcOK, Alive, NEW cmd \in {"MSTOPSELF", "MEXITSELF"}, NEW ps, Send(cmd, ps)
  PROVE  ProcOK' /\ Alive' /\ Less
<1>1. PICK got : proc' = [p \in Pid |-> IF p \in got THEN [proc[p] EXCEPT !.cmd = cmd] ELSE proc[p]]
  BY DEF Send
<1>2. \A p \in Pid : /\ proc'[p] \in Process /\ proc'[p].name = proc[p].name
                     /\ proc'[p].at = proc[p].at /\ proc'[p].orphan = proc[p].orphan
  BY <1>1 DEF ProcOK, Process
<1>3. ProcOK'
  BY <1>1, <1>2 DEF ProcOK
<1>4. Alive'
  BY <1>2, AliveStep
<1>5. Less
  BY <1>2 DEF Less, Child
<1> QED BY <1>3, <1>4, <1>5

-----------------------------------------------------------------------------
(* The steps that start no process and write no record *)

LEMMA DieInv ==
  ASSUME IInv, NEW p \in Pid, Die(p)
  PROVE  IInv'
<1> USE DEF IInv, Shape
<1>1. ProcOK' /\ Less /\ Alive'
  BY ExitSet, ExitLess DEF Typed, Die
<1>2. crashes' \in 0 .. MaxCrash
  BY DEF Die, Typed, CountOK
<1>3. Typed'
  BY <1>1, <1>2 DEF Die, ghost, Typed, GrpOK, SysOK, ScanOK, MgrOK, CountOK, GhostOK
<1>4. Left'
  BY <1>1, LeftLess DEF Die
<1>5. Looking' /\ Begun'
  BY DEF Looking, Begun, Die, NoScan, None, ghost
<1>6. Plain' => Good'
  BY <1>1, Quiet DEF Die, ghost, Plain
<1> QED BY <1>1, <1>3, <1>4, <1>5, <1>6

LEMMA MgrDieInv ==
  ASSUME IInv, MgrDie
  PROVE  IInv'
<1> USE DEF IInv, Shape
<1>1. ProcOK' /\ Alive' /\ \A p \in Pid : ~Child(p)'
  BY OrphansSet DEF Typed, MgrDie
<1>2. crashes' \in 0 .. MaxCrash
  BY DEF MgrDie, Typed, CountOK
<1>3. Typed'
  BY <1>1, <1>2 DEF MgrDie, ghost, Typed, GrpOK, SysOK, ScanOK, MgrOK, CountOK, GhostOK, NoScan, None
<1>4. Left' /\ Less
  BY <1>1 DEF Left, Less
<1>5. Looking' /\ Begun'
  BY DEF Looking, Begun, MgrDie, NoScan, None, ghost
<1>6. Plain' => Good'
  BY <1>4, Quiet DEF MgrDie, ghost, Plain, NoScan, None
<1> QED BY <1>1, <1>3, <1>4, <1>5, <1>6

LEMMA MgrAbortInv ==
  ASSUME IInv, MgrAbort
  PROVE  IInv'
<1> USE DEF IInv, Shape
<1>1. ProcOK' /\ Alive' /\ \A p \in Pid : ~Child(p)'
  BY OrphansSet DEF Typed, MgrAbort
<1>2. SysOK'
  BY SysStatus, SysSet DEF MgrAbort, Typed
<1>3. Typed'
  BY <1>1, <1>2 DEF MgrAbort, ghost, Typed, GrpOK, ScanOK, MgrOK, CountOK, GhostOK, NoScan, None
<1>4. Left' /\ Less
  BY <1>1 DEF Left, Less
<1>5. Looking' /\ Begun'
  BY DEF Looking, Begun, MgrAbort, NoScan, None, ghost
<1>6. Plain' => Good'
  BY <1>4, Quiet DEF MgrAbort, ghost, Plain, NoScan, None
<1> QED BY <1>1, <1>3, <1>4, <1>5, <1>6

\* The manager goes on, or is started, or ends when its children have.
LEMMA MgrMoves ==
  ASSUME IInv, MgrOK', CountOK', Begun', UNCHANGED <<grp, sys, stray, proc, scan, told, undone, grown, old, foreign, over>>,
         early' \subseteq Worker, early \subseteq early', mgr # "up",
         mgr' \in {"down", "boot"} => \A p \in Pid : ~Child(p)
  PROVE  IInv'
<1> USE DEF IInv, Shape
<1>1. Typed' /\ Alive'
  BY DEF Typed, GrpOK, SysOK, ProcOK, ScanOK, GhostOK, NoScan, None, Alive
<1>2. Left' /\ Less
  BY DEF Left, Less, Child
<1>3. Looking'
  BY DEF Looking, NoScan, None
<1>4. Plain' => Good'
  BY <1>2, Quiet DEF Plain
<1> QED BY <1>1, <1>2, <1>3, <1>4

\* The names whose records are not of this run are left aside from here on.
LEMMA MgrReadyInv ==
  ASSUME IInv, MgrReady
  PROVE  IInv'
<1>1. Begun' /\ early \subseteq early' /\ early' \subseteq Worker
  BY DEF IInv, Shape, Typed, GhostOK, Begun, MgrReady
<1> QED BY <1>1, MgrMoves DEF IInv, Shape, Typed, CountOK, MgrOK, MgrReady

LEMMA MgrEndInv ==
  ASSUME IInv, MgrEnd
  PROVE  IInv'
<1>1. \A p \in Pid : ~Child(p)
  BY GoneProcess DEF MgrEnd, Child
<1>2. Begun' /\ early' \subseteq Worker
  BY BegunStep DEF IInv, Shape, Typed, GhostOK, MgrEnd, ghost
<1> QED BY <1>1, <1>2, MgrMoves DEF IInv, Shape, Typed, CountOK, MgrOK, MgrEnd, ghost

LEMMA CmdStartInv ==
  ASSUME IInv, CmdStart
  PROVE  IInv'
<1>1. MgrOK' /\ CountOK' /\ \A p \in Pid : ~Child(p)
  BY DEF IInv, Shape, Typed, CountOK, MgrOK, CmdStart, Left
<1>2. Begun' /\ early' \subseteq Worker
  BY BegunStep DEF IInv, Shape, Typed, GhostOK, CmdStart, ghost
<1> QED BY <1>1, <1>2, MgrMoves DEF CmdStart, ghost


\* The police writes the manager's record, and may start one.
LEMMA PolRec ==
  ASSUME SysOK, sys.cnt >= 0, NEW c \in {-1, sys.cnt - 1}
  PROVE  [[sys EXCEPT !.status = "ABNORMAL"] EXCEPT !.cnt = c] \in SysRec
<1> DEFINE bad == [sys EXCEPT !.status = "ABNORMAL"]
<1>1. bad \in SysRec
  BY SysStatus
<1>2. c \in -1 .. MAX_RESTART_CNT
  BY DEF SysOK, SysRec
<1> HIDE DEF bad
<1>3. [bad EXCEPT !.cnt = c] \in SysRec
  BY <1>1, <1>2 DEF SysRec
<1> QED BY <1>3 DEF bad

LEMMA PolScanInv ==
  ASSUME IInv, PolScan
  PROVE  IInv'
<1> USE DEF IInv, Shape
<1> DEFINE bad == [sys EXCEPT !.status = "ABNORMAL"]
<1>1. SysOK /\ sys.cnt >= 0 /\ bad.cnt = sys.cnt
  BY DEF PolScan, Typed, SysOK, SysRec
<1>2. \E c \in {-1, sys.cnt - 1} : SysRegister([bad EXCEPT !.cnt = c])
  <2>1. CASE sys.fresh \/ sys.cnt = 0
    <3>1. SysRegister([bad EXCEPT !.cnt = IF sys.fresh THEN -1 ELSE bad.cnt - 1])
      BY <2>1 DEF PolScan
    <3> HIDE DEF bad
    <3>2. (IF sys.fresh THEN -1 ELSE bad.cnt - 1) \in {-1, sys.cnt - 1}
      BY <1>1
    <3> QED BY <3>1, <3>2
  <2>2. CASE ~(sys.fresh \/ sys.cnt = 0)
    <3>1. SysRegister([bad EXCEPT !.cnt = bad.cnt - 1])
      BY <2>2 DEF PolScan
    <3> HIDE DEF bad
    <3> QED BY <3>1, <1>1
  <2> QED BY <2>1, <2>2
<1>3. SysOK'
  BY <1>1, <1>2, PolRec, SysSet
<1>4. mgr = "down" /\ mgr' \in {"down", "boot"} /\ UNCHANGED <<grp, stray, proc, scan, cmds, crashes, ghost>>
  BY DEF PolScan
<1>5. Typed' /\ Alive'
  BY <1>3, <1>4 DEF ghost, Typed, GrpOK, ProcOK, ScanOK, MgrOK, CountOK, GhostOK, NoScan, None, Alive
<1>6. Left' /\ Less /\ Looking' /\ Begun'
  BY <1>4 DEF Left, Less, Child, Looking, Begun, NoScan, None, ghost
<1>7. Plain' => Good'
  BY <1>4, <1>6, Quiet DEF ghost, Plain
<1> QED BY <1>5, <1>6, <1>7

\* The administrator's commands that only send.
LEMMA CmdStopInv ==
  ASSUME IInv, CmdStop
  PROVE  IInv'
<1> USE DEF IInv, Shape
<1>1. ProcOK' /\ Alive' /\ Less
  BY SendSet DEF CmdStop, Typed
<1>2. [status |-> "STOPED", cnt |-> 0, limited |-> FALSE, fresh |-> TRUE] \in SysRec
  BY DEF SysRec
<1>3. SysOK'
  BY <1>2, SysSet DEF CmdStop, Typed
<1>4. Typed'
  BY <1>1, <1>3 DEF CmdStop, Command, ghost, Typed, GrpOK, ScanOK, MgrOK, CountOK, GhostOK, NoScan, None
<1>5. Left' /\ Looking' /\ Begun'
  BY DEF CmdStop, Command, Left, Looking, Begun, NoScan, None, ghost
<1>6. Plain' => Good'
  BY <1>1, Quiet DEF CmdStop, ghost, Plain
<1> QED BY <1>1, <1>4, <1>5, <1>6

LEMMA CmdStopSvrInv ==
  ASSUME IInv, CmdStopSvr
  PROVE  IInv'
<1> USE DEF IInv, Shape
<1> DEFINE ws == {w \in Worker : grp[w].status = "START" /\ ~Dead(grp[w])}
<1>1. ProcOK' /\ Alive' /\ Less
  <2>1. Send("MSTOPSELF", {p \in Pid : proc[p].name \in ws})
    BY DEF CmdStopSvr
  <2> HIDE DEF ws
  <2> QED BY <2>1, SendSet DEF Typed
<1>2. told' = told \cup ws /\ \E ts \in SUBSET ws : stray' = stray \cup ts
  BY DEF CmdStopSvr
<1>3. Command /\ UNCHANGED <<grp, sys, mgr, scan, crashes, undone, grown, old, early, foreign, over>>
  BY DEF CmdStopSvr
<1>4. Typed'
  BY <1>1, <1>2, <1>3 DEF Command, Typed, GrpOK, SysOK, ScanOK, MgrOK, CountOK, GhostOK, NoScan, None
<1>5. Left' /\ Looking' /\ Begun'
  BY <1>3 DEF Command, Left, Looking, Begun, NoScan, None, ghost
<1>6. Plain' => Good'
  BY <1>1, <1>3, Quiet DEF Plain
<1> QED BY <1>1, <1>4, <1>5, <1>6

LEMMA CmdExitInv ==
  ASSUME IInv, NEW ws, CmdExit(ws)
  PROVE  IInv'
<1> USE DEF IInv, Shape
<1>1. ProcOK' /\ Alive' /\ Less
  BY SendSet DEF CmdExit, Typed
<1>2. Typed'
  BY <1>1 DEF CmdExit, Command, ghost, Typed, GrpOK, SysOK, ScanOK, MgrOK, CountOK, GhostOK, NoScan, None
<1>3. Left' /\ Looking' /\ Begun'
  BY DEF CmdExit, Command, Left, Looking, Begun, NoScan, None, ghost
<1>4. Plain' => Good'
  BY <1>1, Quiet DEF CmdExit, ghost, Plain
<1> QED BY <1>1, <1>2, <1>3, <1>4

-----------------------------------------------------------------------------
(* The administrator starts processes: only that a process has a name is   *)
(* said of these, unless there was nothing to start                        *)

LEMMA ForkAlive ==
  ASSUME ProcOK, Alive, NEW children, \A c \in children : c[1] \in Worker, Fork(children)
  PROVE  Alive'
<1>1. \A p \in Pid : proc'[p] = proc[p] \/ \E w \in Worker : New(p, w)
  BY ForkSet
<1> QED BY <1>1, AliveStep

LEMMA CmdMoreInv ==
  ASSUME IInv, NEW w \in Worker, CmdMore(w)
  PROVE  IInv'
<1> USE DEF IInv, Shape
<1>1. \A c \in {<<w, 1>>} : c[1] \in Worker
  OBVIOUS
<1>2. ProcOK' /\ Alive'
  BY <1>1, ForkSet, ForkAlive DEF CmdMore, Typed
<1>3. Typed'
  BY <1>2 DEF CmdMore, Command, Typed, GrpOK, SysOK, ScanOK, MgrOK, CountOK, GhostOK, NoScan, None
<1>4. Left' /\ Looking' /\ Begun' /\ ~Plain'
  BY DEF CmdMore, Command, Left, Looking, Begun, NoScan, None, Plain, ghost
<1> QED BY <1>2, <1>3, <1>4

LEMMA CmdStartSvrInv ==
  ASSUME IInv, CmdStartSvr
  PROVE  IInv'
<1> USE DEF IInv, Shape
<1> DEFINE ws == {w \in Registered : Dead(grp[w])}
<1>1. \A c \in Worker \X ws : c[1] \in Worker
  OBVIOUS
<1>2. /\ Fork(Worker \X ws) /\ grown' = (grown \/ ws # {}) /\ Command
      /\ UNCHANGED <<grp, sys, stray, mgr, scan, crashes, undone, old, early, foreign, over>>
      /\ told' = told \ (IF ws = {} THEN {} ELSE Worker)
  BY DEF CmdStartSvr
<1> HIDE DEF ws
<1>3. ProcOK' /\ Alive'
  BY <1>1, <1>2, ForkSet, ForkAlive DEF Typed
<1>4. Typed'
  BY <1>2, <1>3 DEF Command, Typed, GrpOK, SysOK, ScanOK, MgrOK, CountOK, GhostOK, NoScan, None
<1>5. Left' /\ Looking' /\ Begun'
  BY <1>2 DEF Command, Left, Looking, Begun, NoScan, None, ghost
<1>6. Plain' => Good'
  <2>1. CASE ws = {}
    <3>1. Worker \X ws = {}
      BY <2>1
    <3>2. \A p \in Pid : proc'[p] = proc[p]
      BY <3>1, <1>1, <1>2, ForkSet DEF Typed
    <3>3. Less
      BY <3>2 DEF Less, Child
    <3> QED BY <3>3, <2>1, <1>2, Quiet DEF Plain, Typed, GhostOK
  <2>2. CASE ws # {}
    BY <2>2, <1>2 DEF Plain
  <2> QED BY <2>1, <2>2
<1> QED BY <1>3, <1>4, <1>5, <1>6


-----------------------------------------------------------------------------
(* The steps that write a record *)

\* What the invariant says of the only child p of the name w that wrote the
\* record last.
KeptAt(p, w) ==
    w \notin early' =>
    /\ proc'[p].at # "init" /\ grp'[w].pid = p
    /\ proc'[p].at = "up" => grp'[w].status = "START"
    /\ scan' # NoScan /\ scan'.w = w => scan'.rec.pid = p \/ scan'.rec.fresh \/ scan'.rec.cnt = -1

\* Only the processes and the record of one name change, and no second child
\* of that name comes.
LEMMA OneName ==
  ASSUME Good, NEW w \in Worker, NEW p \in Pid, early' = early, over' = over, scan' = scan,
         \A q \in Pid : Child(q)' /\ proc'[q].name # w =>
            Child(q) /\ proc'[q].name = proc[q].name /\ proc'[q].at = proc[q].at,
         \A q \in Pid : Mine(q)' /\ proc'[q].name = w => q = p,
         \A v \in Worker \ {w} : grp'[v] = grp[v] /\ (v \in old' <=> v \in old),
         Child(p)' /\ proc'[p].name = w => KeptAt(p, w)
  PROVE  Good'
<1>1. \A q \in Pid : Mine(q)' => \/ /\ Mine(q) /\ proc'[q].name = proc[q].name /\ proc'[q].at = proc[q].at
                                    /\ proc[q].name \in Worker \ {w}
                                 \/ q = p /\ proc'[q].name = w /\ KeptAt(p, w) /\ w \notin early'
  BY DEF Mine, Child
<1>2. Single'
  BY <1>1 DEF Good, Single
<1>3. Pending'
  <2> SUFFICES ASSUME NEW q \in Pid, Mine(q)', proc'[q].at = "init", proc'[q].name \notin old'
               PROVE  /\ grp'[proc'[q].name].status = "none" \/ grp'[proc'[q].name].fresh
                      /\ scan' # NoScan /\ scan'.w = proc'[q].name => scan'.rec.fresh
    BY DEF Pending, NoScan, None
  <2>1. /\ Mine(q) /\ proc'[q].name = proc[q].name /\ proc'[q].at = proc[q].at
        /\ proc[q].name \in Worker \ {w}
    BY <1>1 DEF KeptAt
  <2> QED BY <2>1 DEF Good, Pending
<1>4. Known'
  <2> SUFFICES ASSUME NEW q \in Pid, Mine(q)', proc'[q].at # "init"
               PROVE  /\ grp'[proc'[q].name].pid = q \/ grp'[proc'[q].name].cnt = -1
                      /\ scan' # NoScan /\ scan'.w = proc'[q].name =>
                            scan'.rec.pid = q \/ scan'.rec.fresh \/ scan'.rec.cnt = -1
    BY DEF Known, NoScan, None
  <2>1. CASE q = p /\ proc'[q].name = w /\ KeptAt(p, w) /\ w \notin early'
    BY <2>1 DEF KeptAt
  <2>2. CASE /\ Mine(q) /\ proc'[q].name = proc[q].name /\ proc'[q].at = proc[q].at
             /\ proc[q].name \in Worker \ {w}
    BY <2>2 DEF Good, Known
  <2> QED BY <1>1, <2>1, <2>2
<1>5. Recorded'
  <2> SUFFICES ASSUME ~over, NEW q \in Pid, Mine(q)', proc'[q].at # "init"
               PROVE  /\ grp'[proc'[q].name].pid = q
                      /\ proc'[q].at = "up" => grp'[proc'[q].name].status = "START"
    BY DEF Recorded
  <2>1. CASE q = p /\ proc'[q].name = w /\ KeptAt(p, w) /\ w \notin early'
    BY <2>1 DEF KeptAt
  <2>2. CASE /\ Mine(q) /\ proc'[q].name = proc[q].name /\ proc'[q].at = proc[q].at
             /\ proc[q].name \in Worker \ {w}
    BY <2>2 DEF Good, Recorded
  <2> QED BY <1>1, <2>1, <2>2
<1> QED BY <1>2, <1>3, <1>4, <1>5 DEF Good

\* A worker writes its own record and goes on, or ends.
LEMMA OwnWrite ==
  ASSUME Good, NEW p \in Pid, Child(p),
         NEW x, ProcAt(p, x), x = Gone \/ (x.name = proc[p].name /\ x.orphan = proc[p].orphan),
         \A v \in Worker \ {proc[p].name} : grp'[v] = grp[v] /\ (v \in old' <=> v \in old),
         scan' = scan, early' = early, over' = over, x = Gone \/ KeptAt(p, proc[p].name)
  PROVE  Good'
<1> DEFINE w == proc[p].name
<1>1. w \in Worker /\ \A q \in Pid : Mine(q) /\ proc[q].name = w => q = p
  BY DEF Good, Single, Child, Mine
<1>2. \A q \in Pid \ {p} : proc'[q] = proc[q]
  BY DEF ProcAt
<1>3. \A q \in Pid : Mine(q)' /\ proc'[q].name = w => q = p
  BY <1>1, <1>2 DEF Mine, Child
<1>4. proc'[p] = x /\ (Child(p)' => proc'[p].name = w /\ x # Gone)
  BY GoneProcess DEF ProcAt, Child
<1>5. \A q \in Pid : Child(q)' /\ proc'[q].name # w =>
            Child(q) /\ proc'[q].name = proc[q].name /\ proc'[q].at = proc[q].at
  BY <1>2, <1>4 DEF Child
<1>6. Child(p)' /\ proc'[p].name = w => KeptAt(p, w)
  BY <1>4
<1> HIDE DEF w
<1>7. \A v \in Worker \ {w} : grp'[v] = grp[v] /\ (v \in old' <=> v \in old)
  BY DEF w
<1> QED BY <1>1, <1>3, <1>5, <1>6, <1>7, OneName

\* A process that changes its state or its command.
LEMMA AtSet ==
  ASSUME ProcOK, NEW p \in Pid, NEW a \in {"up", "exiting"}, NEW c \in {proc[p].cmd, "none"}
  PROVE  LET x == [[proc[p] EXCEPT !.at = a] EXCEPT !.cmd = c]
         IN  x \in Process /\ x.name = proc[p].name /\ x.at = a /\ x.orphan = proc[p].orphan
<1>1. proc[p] \in Process
  BY DEF ProcOK
<1> DEFINE y == [proc[p] EXCEPT !.at = a]
<1>2. y \in Process /\ y.name = proc[p].name /\ y.at = a /\ y.orphan = proc[p].orphan
  BY <1>1 DEF Process
<1>3. c \in {"none", "MSTOPSELF", "MEXITSELF"}
  BY <1>1 DEF Process
<1> HIDE DEF y
<1> DEFINE x == [y EXCEPT !.cmd = c]
<1>4. x \in Process /\ x.name = y.name /\ x.at = y.at /\ x.orphan = y.orphan
  BY <1>2, <1>3 DEF Process
<1> QED BY <1>2, <1>4 DEF y

LEMMA BeginInv ==
  ASSUME IInv, NEW p \in Pid, Begin(p)
  PROVE  IInv'
<1> USE DEF IInv, Shape
<1> DEFINE w == proc[p].name
           x == [proc[p] EXCEPT !.at = "up"]
<1>1. w \in Worker /\ proc[p] \in Process
  BY DEF Begin, Alive, Typed, ProcOK
<1>2. GrpOK' /\ GrpAt(w, Own(p, "START")) /\ Own(p, "START").pid = p /\ Own(p, "START").status = "START"
  <2>1. Own(p, "START") \in Rec /\ Own(p, "START").pid = p /\ Own(p, "START").status = "START"
    BY <1>1, OwnRec
  <2>2. Register(w, Own(p, "START")) /\ GrpOK
    BY DEF Begin, Typed
  <2> QED BY <2>1, <2>2, <1>1, RegisterSet
<1>3. x \in Process /\ x.name = w /\ x.at = "up" /\ x.orphan = proc[p].orphan
  BY <1>1 DEF Process
<1>4. proc' = [proc EXCEPT ![p] = x]
  BY DEF Begin
<1> HIDE DEF x
<1>5. ProcOK' /\ ProcAt(p, x)
  BY <1>3, <1>4 DEF Typed, ProcOK, ProcAt
<1>6. /\ foreign' = (foreign \/ proc[p].orphan) /\ old' = old \ {w} /\ proc[p].at = "init"
      /\ UNCHANGED <<sys, stray, mgr, scan, cmds, crashes, told, undone, grown, early, over>>
  BY DEF Begin
<1>7. foreign' \in BOOLEAN
  BY <1>1, <1>6 DEF Typed, GhostOK, Process
<1>8. Typed'
  BY <1>2, <1>5, <1>6, <1>7 DEF Typed, SysOK, ScanOK, MgrOK, CountOK, GhostOK, NoScan, None
<1>9. \A q \in Pid : proc'[q].name = proc[q].name /\ proc'[q].orphan = proc[q].orphan
                     /\ (proc'[q].at = "gone" <=> proc[q].at = "gone")
  BY <1>3, <1>5, <1>6 DEF ProcAt
<1>10. Alive' /\ Left' /\ Looking' /\ Begun'
  BY <1>6, <1>9, AliveStep DEF Left, Child, Looking, Begun, NoScan, None, ghost
<1>11. Plain' => Good'
  <2> SUFFICES ASSUME Plain' PROVE Good'
    OBVIOUS
  <2>1. Good /\ Child(p)
    BY <1>1, <1>6, <1>7 DEF Plain, Child
  <2>2. KeptAt(p, w)
    <3> SUFFICES ASSUME w \notin early
                 PROVE  /\ proc'[p].at = "up" /\ grp'[w].pid = p /\ grp'[w].status = "START"
                        /\ scan # NoScan /\ scan.w = w => scan.rec.fresh
      BY <1>6 DEF KeptAt, NoScan, None
    <3>1. scan # NoScan => w \notin old
      BY DEF Looking, Begun
    <3>2. scan # NoScan /\ scan.w = w => scan.rec.fresh
      BY <3>1, <2>1, <1>6 DEF Good, Pending, Mine
    <3> QED BY <3>2, <1>2, <1>3, <1>5 DEF ProcAt, GrpAt
  <2>3. \A v \in Worker \ {w} : grp'[v] = grp[v] /\ (v \in old' <=> v \in old)
    BY <1>2, <1>6 DEF GrpAt
  <2> QED BY <2>1, <2>2, <2>3, <1>3, <1>5, <1>6, OwnWrite
<1> QED BY <1>8, <1>10, <1>11


\* The worker writes that it has left, and ends.
LEMMA WorkerLeaves ==
  ASSUME IInv, NEW p \in Pid, proc[p].at \in {"up", "exiting"},
         Register(proc[p].name, Own(p, "EXITED")), Exit(p), foreign' = (foreign \/ proc[p].orphan),
         UNCHANGED <<sys, stray, mgr, scan, cmds, crashes, told, undone, grown, old, early, over>>
  PROVE  IInv'
<1> USE DEF IInv, Shape
<1> DEFINE w == proc[p].name
<1>1. w \in Worker /\ proc[p] \in Process
  BY DEF Alive, Typed, ProcOK
<1>2. GrpOK' /\ GrpAt(w, Own(p, "EXITED"))
  BY <1>1, OwnRec, RegisterSet DEF Typed
<1>3. ProcOK' /\ ProcAt(p, Gone)
  BY ExitSet DEF Typed
<1>4. foreign' \in BOOLEAN
  BY <1>1 DEF Typed, GhostOK, Process
<1>5. Typed'
  BY <1>2, <1>3, <1>4 DEF Typed, SysOK, ScanOK, MgrOK, CountOK, GhostOK, NoScan, None
<1>6. Alive' /\ Left' /\ Looking' /\ Begun'
  BY <1>3, ExitLess, LeftLess DEF Looking, Begun, NoScan, None, ghost
<1>7. Plain' => Good'
  <2> SUFFICES ASSUME Plain' PROVE Good'
    OBVIOUS
  <2>1. Good /\ Child(p)
    BY <1>1, <1>4 DEF Plain, Child
  <2>2. \A v \in Worker \ {w} : grp'[v] = grp[v] /\ (v \in old' <=> v \in old)
    BY <1>2 DEF GrpAt
  <2> QED BY <2>1, <2>2, <1>3, OwnWrite
<1> QED BY <1>5, <1>6, <1>7

\* The worker ends without a word.
LEMMA WorkerEnds ==
  ASSUME IInv, NEW p \in Pid, Exit(p), UNCHANGED <<grp, sys, stray, mgr, scan, cmds, crashes, ghost>>
  PROVE  IInv'
<1> USE DEF IInv, Shape
<1>1. ProcOK' /\ Less /\ Alive'
  BY ExitSet, ExitLess DEF Typed
<1>2. Typed'
  BY <1>1 DEF ghost, Typed, GrpOK, SysOK, ScanOK, MgrOK, CountOK, GhostOK
<1>3. Left' /\ Looking' /\ Begun'
  BY <1>1, LeftLess DEF Looking, Begun, NoScan, None, ghost
<1>4. Plain' => Good'
  BY <1>1, Quiet DEF ghost, Plain
<1> QED BY <1>1, <1>2, <1>3, <1>4

\* The worker writes that it is to leave.
LEMMA WorkerLeaving ==
  ASSUME IInv, NEW p \in Pid, proc[p].at \in {"up", "exiting"},
         Register(proc[p].name, Own(p, "EXITING")),
         proc' = [proc EXCEPT ![p].at = "exiting", ![p].cmd = "none"],
         foreign' = (foreign \/ proc[p].orphan),
         UNCHANGED <<sys, stray, mgr, scan, cmds, crashes, told, undone, grown, old, early, over>>
  PROVE  IInv'
<1> USE DEF IInv, Shape
<1> DEFINE w == proc[p].name
           x == [[proc[p] EXCEPT !.at = "exiting"] EXCEPT !.cmd = "none"]
<1>1. w \in Worker /\ proc[p] \in Process
  BY DEF Alive, Typed, ProcOK
<1>2. GrpOK' /\ GrpAt(w, Own(p, "EXITING")) /\ Own(p, "EXITING").pid = p
  BY <1>1, OwnRec, RegisterSet DEF Typed
<1>3. x \in Process /\ x.name = w /\ x.at = "exiting" /\ x.orphan = proc[p].orphan
  BY AtSet DEF Typed
<1>4. proc' = [proc EXCEPT ![p] = x]
  BY DEF Typed, ProcOK
<1> HIDE DEF x
<1>5. ProcOK' /\ ProcAt(p, x)
  BY <1>3, <1>4 DEF Typed, ProcOK, ProcAt
<1>6. foreign' \in BOOLEAN
  BY <1>1 DEF Typed, GhostOK, Process
<1>7. Typed'
  BY <1>2, <1>5, <1>6 DEF Typed, SysOK, ScanOK, MgrOK, CountOK, GhostOK, NoScan, None
<1>8. \A q \in Pid : proc'[q].name = proc[q].name /\ proc'[q].orphan = proc[q].orphan
                     /\ (proc'[q].at = "gone" <=> proc[q].at = "gone")
  BY <1>3, <1>5 DEF ProcAt
<1>9. Alive' /\ Left' /\ Looking' /\ Begun'
  BY <1>8, AliveStep DEF Left, Child, Looking, Begun, NoScan, None, ghost
<1>10. Plain' => Good'
  <2> SUFFICES ASSUME Plain' PROVE Good'
    OBVIOUS
  <2>1. Good /\ Child(p)
    BY <1>1, <1>6 DEF Plain, Child
  <2>2. w \notin early /\ scan # NoScan /\ scan.w = w => scan.rec.pid = p \/ scan.rec.fresh \/ scan.rec.cnt = -1
    BY <2>1 DEF Good, Known, Mine
  <2>3. KeptAt(p, w)
    BY <2>2, <1>2, <1>3, <1>5 DEF KeptAt, ProcAt, GrpAt, NoScan, None
  <2>4. \A v \in Worker \ {w} : grp'[v] = grp[v] /\ (v \in old' <=> v \in old)
    BY <1>2 DEF GrpAt
  <2> QED BY <2>1, <2>3, <2>4, <1>3, <1>5, OwnWrite
<1> QED BY <1>7, <1>9, <1>10

LEMMA DealCmdInv ==
  ASSUME IInv, NEW p \in Pid, DealCmd(p)
  PROVE  IInv'
<1>1. CASE Exit(p) /\ UNCHANGED <<grp, foreign>>
  BY <1>1, WorkerEnds DEF DealCmd, ghost
<1>2. CASE foreign' = (foreign \/ proc[p].orphan) /\ Register(proc[p].name, Own(p, "EXITED")) /\ Exit(p)
  BY <1>2, WorkerLeaves DEF DealCmd
<1>3. CASE /\ foreign' = (foreign \/ proc[p].orphan) /\ Register(proc[p].name, Own(p, "EXITING"))
           /\ proc' = [proc EXCEPT ![p].at = "exiting", ![p].cmd = "none"]
  BY <1>3, WorkerLeaving DEF DealCmd
<1> QED BY <1>1, <1>2, <1>3 DEF DealCmd

LEMMA IdleInv ==
  ASSUME IInv, NEW p \in Pid, Idle(p)
  PROVE  IInv'
<1>1. CASE proc[p].orphan \/ sys.status # "START"
  BY <1>1, WorkerEnds DEF Idle
<1>2. CASE ~(proc[p].orphan \/ sys.status # "START")
  <2>1. foreign' = (foreign \/ proc[p].orphan)
    BY <1>2 DEF Idle, ghost, IInv, Shape, Typed, GhostOK
  <2> QED BY <1>2, <2>1, WorkerLeaves DEF Idle, ghost
<1> QED BY <1>1, <1>2

-----------------------------------------------------------------------------
(* Time, and the manager's look at a record *)

LEMMA AgeInv ==
  ASSUME IInv, Age
  PROVE  IInv'
<1> USE DEF IInv, Shape
<1>1. UNCHANGED <<stray, proc, mgr, scan, cmds, crashes, ghost>>
  BY DEF Age
<1>2. Alive' /\ Left' /\ Looking' /\ Begun' /\ Less
  BY <1>1 DEF Alive, Left, Child, Looking, Begun, Less, NoScan, None, ghost
<1>3. CASE sys' = [sys EXCEPT !.fresh = FALSE] /\ UNCHANGED grp
  <2>1. SysOK'
    BY <1>3 DEF Typed, SysOK, SysRec
  <2>2. Typed'
    BY <2>1, <1>1, <1>3 DEF ghost, Typed, GrpOK, ProcOK, ScanOK, MgrOK, CountOK, GhostOK
  <2>3. Plain' => Good'
    BY <1>1, <1>2, <1>3, Quiet DEF ghost, Plain
  <2> QED BY <2>2, <2>3, <1>2
<1>4. ASSUME NEW w \in Worker, \A p \in Live(w) : proc[p].at # "init",
             grp' = [grp EXCEPT ![w].fresh = FALSE], UNCHANGED sys
      PROVE  IInv'
  <2> DEFINE r == [grp[w] EXCEPT !.fresh = FALSE]
  <2>1. r \in Rec /\ r.pid = grp[w].pid /\ r.status = grp[w].status /\ r.cnt = grp[w].cnt
    BY DEF Typed, GrpOK, Rec
  <2>2. grp' = [grp EXCEPT ![w] = r]
    BY <1>4
  <2> HIDE DEF r
  <2>3. Typed'
    BY <2>1, <2>2, <1>1, <1>4 DEF ghost, Typed, GrpOK, SysOK, ProcOK, ScanOK, MgrOK, CountOK, GhostOK
  <2>4. \A v \in Worker : /\ grp'[v].pid = grp[v].pid /\ grp'[v].status = grp[v].status
                         /\ grp'[v].cnt = grp[v].cnt /\ (v # w => grp'[v] = grp[v])
    BY <2>1, <2>2 DEF Typed, GrpOK
  <2>5. Plain' => Good'
    <3> SUFFICES ASSUME Plain' PROVE Good'
      OBVIOUS
    <3>1. Good
      BY <1>1 DEF Plain, ghost
    <3>2. Single' /\ Recorded' /\ Known'
      BY <3>1, <2>4, <1>1 DEF ghost, Good, Single, Recorded, Known, Mine, Child, NoScan, None
    <3>3. \A p \in Pid : proc[p].at = "init" => proc[p].name # w
      BY <1>4 DEF Live
    <3>4. Pending'
      BY <3>1, <3>3, <2>4, <1>1 DEF ghost, Good, Pending, Mine, Child, NoScan, None
    <3> QED BY <3>2, <3>4 DEF Good
  <2> QED BY <2>3, <2>5, <1>2
<1> QED BY <1>3, <1>4 DEF Age

\* A record of a name that has a process without record is young when it is
\* read: the copy is.
LEMMA ScanReadInv ==
  ASSUME IInv, NEW w \in Worker, ScanRead(w)
  PROVE  IInv'
<1> USE DEF IInv, Shape
<1> DEFINE s == [w |-> w, rec |-> grp[w]]
<1>1. grp[w] \in Rec /\ grp[w].status # "none" /\ mgr = "up"
  BY DEF Typed, GrpOK, ScanRead, Registered
<1>2. s \in [w : Worker, rec : Rec] /\ s.w = w /\ s.rec = grp[w]
  BY <1>1
<1>3. scan' = s /\ UNCHANGED <<grp, sys, stray, proc, mgr, cmds, crashes, ghost>>
  BY DEF ScanRead
<1> HIDE DEF s
<1>4. Typed'
  BY <1>2, <1>3 DEF ghost, Typed, GrpOK, SysOK, ProcOK, ScanOK, MgrOK, CountOK, GhostOK
<1>5. Alive' /\ Left' /\ Looking' /\ Begun'
  BY <1>1, <1>3 DEF Alive, Left, Child, Looking, Begun, ghost
<1>6. Plain' => Good'
  <2> SUFFICES ASSUME Plain' PROVE Good'
    OBVIOUS
  <2>1. Good
    BY <1>3 DEF Plain, ghost
  <2>2. Single' /\ Recorded'
    BY <2>1, <1>3 DEF ghost, Good, Single, Recorded, Mine, Child
  <2>3. Pending'
    BY <2>1, <1>1, <1>2, <1>3 DEF ghost, Good, Pending, Mine, Child
  <2>4. Known'
    BY <2>1, <1>1, <1>2, <1>3 DEF ghost, Good, Known, Mine, Child
  <2> QED BY <2>2, <2>3, <2>4 DEF Good
<1> QED BY <1>4, <1>5, <1>6


-----------------------------------------------------------------------------
(* The manager starts its workers *)

LEMMA StartRec ==
  ASSUME SysOK
  PROVE  [sys EXCEPT !.status = "START",
                     !.limited = (sys.status = "none" \/ @),
                     !.cnt = IF sys.status = "none" \/ @ < 0 THEN MAX_RESTART_CNT ELSE @] \in SysRec
<1> DEFINE l == sys.status = "none" \/ sys.limited
           c == IF sys.status = "none" \/ sys.cnt < 0 THEN MAX_RESTART_CNT ELSE sys.cnt
<1>1. l \in BOOLEAN /\ c \in -1 .. MAX_RESTART_CNT
  BY DEF SysOK, SysRec
<1> HIDE DEF l, c
<1>2. [sys EXCEPT !.status = "START", !.limited = l, !.cnt = c] \in SysRec
  BY <1>1 DEF SysOK, SysRec
<1> QED BY <1>2 DEF l, c, SysOK, SysRec

\* No other child is left when it does, and a record there is belongs to a
\* former run: it is old.
LEMMA MgrStartInv ==
  ASSUME IInv, MgrStart
  PROVE  IInv'
<1> USE DEF IInv, Shape
<1>1. scan = NoScan /\ \A p \in Pid : ~Child(p)
  BY DEF MgrStart, Looking, Left
<1>2. mgr = "boot" /\ UNCHANGED <<grp, stray, scan, cmds, crashes, undone, grown, foreign, over>>
  BY DEF MgrStart
<1>3. CASE SysRoom
  <2>1. /\ Fork(Worker \X {1}) /\ mgr' = "start" /\ told' = {} /\ old' = Registered /\ early' = {}
        /\ SysRegister([sys EXCEPT !.status = "START",
                                   !.limited = (sys.status = "none" \/ @),
                                   !.cnt = IF sys.status = "none" \/ @ < 0
                                           THEN MAX_RESTART_CNT ELSE @])
    BY <1>3 DEF MgrStart
  <2>2. SysOK'
    BY <2>1, StartRec, SysSet DEF Typed
  <2>3. \A c \in Worker \X {1} : c[1] \in Worker /\ c = <<c[1], 1>>
    OBVIOUS
  <2>4. ProcOK' /\ Alive'
    BY <2>1, <2>3, ForkSet, ForkAlive DEF Typed
  <2>5. Typed'
    BY <1>2, <2>1, <2>2, <2>4 DEF Typed, GrpOK, ScanOK, MgrOK, CountOK, GhostOK, Registered
  <2>6. Left' /\ Looking' /\ Begun'
    BY <1>1, <1>2, <2>1 DEF Left, Looking, Begun, NoScan, None, ghost
  <2>7. Good'
    <3>1. PICK f : \A p \in Pid : \/ proc'[p] = proc[p]
                                  \/ \E c \in Worker \X {1} : f[c] = p /\ New(p, c[1])
      BY <2>1, <2>3, ForkSet DEF Typed
    <3>2. \A p \in Pid : Child(p)' => /\ f[<<proc'[p].name, 1>>] = p
                                      /\ proc'[p].at = "init" /\ proc'[p].name \in Worker
      <4> SUFFICES ASSUME NEW p \in Pid, Child(p)'
                   PROVE  /\ f[<<proc'[p].name, 1>>] = p
                          /\ proc'[p].at = "init" /\ proc'[p].name \in Worker
        OBVIOUS
      <4>1. PICK c \in Worker \X {1} : f[c] = p /\ New(p, c[1])
        BY <1>1, <3>1 DEF Child
      <4>2. c = <<proc'[p].name, 1>>
        BY <4>1, <2>3 DEF New
      <4> QED BY <4>1, <4>2 DEF Child, New
    <3>3. Single'
      BY <3>2 DEF Single, Mine
    <3>4. Known' /\ Recorded'
      BY <3>2 DEF Known, Recorded, Mine
    <3>5. Pending'
      <4> SUFFICES ASSUME NEW p \in Pid, Child(p)', proc'[p].name \notin old'
                   PROVE  grp'[proc'[p].name].status = "none"
        BY <1>1, <1>2 DEF Pending, Mine, NoScan, None
      <4> QED BY <3>2, <2>1, <1>2 DEF Registered
    <3> QED BY <3>3, <3>4, <3>5 DEF Good
  <2> QED BY <2>4, <2>5, <2>6, <2>7
<1>4. CASE ~SysRoom
  <2>1. mgr' = "down" /\ UNCHANGED <<sys, proc, told, old, early>>
    BY <1>4 DEF MgrStart
  <2>2. Begun' /\ early' \subseteq Worker
    BY <2>1, BegunStep DEF Typed, GhostOK
  <2> QED BY <1>1, <1>2, <2>1, <2>2, MgrMoves DEF Typed, MgrOK, CountOK
<1> QED BY <1>3, <1>4

-----------------------------------------------------------------------------
(* The manager acts on what it has read *)

\* The record it writes.
LEMMA BadRec ==
  ASSUME NEW rec \in Rec, rec.cnt >= 0, NEW c \in {-1, rec.cnt - 1}
  PROVE  LET r == [[rec EXCEPT !.status = "ABNORMAL"] EXCEPT !.cnt = c]
         IN  r \in Rec /\ r.pid = rec.pid /\ r.cnt = c
<1> DEFINE bad == [rec EXCEPT !.status = "ABNORMAL"]
<1>1. bad \in Rec /\ bad.pid = rec.pid
  BY DEF Rec
<1>2. c \in -1 .. MAX_RESTART_CNT
  BY DEF Rec
<1> HIDE DEF bad
<1>3. [bad EXCEPT !.cnt = c] \in Rec /\ [bad EXCEPT !.cnt = c].pid = bad.pid /\ [bad EXCEPT !.cnt = c].cnt = c
  BY <1>1, <1>2 DEF Rec
<1> QED BY <1>1, <1>3 DEF bad

\* The process of the copy is gone.  A child of that name has not begun, or
\* the copy is young.
LEMMA NotThis ==
  ASSUME Good, Alive, scan \in [w : Worker, rec : Rec], scan # NoScan, Abnormal(scan.rec),
         NEW q \in Pid, Mine(q), proc[q].name = scan.w, proc[q].at # "init"
  PROVE  scan.rec.fresh /\ scan.rec.pid # q
<1>1. scan.rec.pid # q
  <2>1. q # 0 /\ proc[q] # Gone
    BY GoneProcess DEF Pid, Mine, Child
  <2> QED BY <2>1 DEF Abnormal, Dead
<1>2. scan.rec.cnt # -1
  BY DEF Abnormal, Rec
<1> QED BY <1>1, <1>2 DEF Good, Known

\* It is given up: a child there is has its record overwritten, with one that
\* the manager does not look at again.
LEMMA GiveUpInv ==
  ASSUME IInv, scan # NoScan, Abnormal(scan.rec), scan' = NoScan,
         Register(scan.w, [[scan.rec EXCEPT !.status = "ABNORMAL"] EXCEPT !.cnt = -1]),
         over' = (over \/ grp[scan.w].pid # scan.rec.pid),
         UNCHANGED <<proc, undone, sys, stray, mgr, cmds, crashes, told, grown, old, early, foreign>>
  PROVE  IInv'
<1> USE DEF IInv, Shape
<1> DEFINE w == scan.w
           rec == scan.rec
           r == [[rec EXCEPT !.status = "ABNORMAL"] EXCEPT !.cnt = -1]
<1>1. scan \in [w : Worker, rec : Rec] /\ w \in Worker /\ rec \in Rec
  BY DEF Typed, ScanOK
<1>2. r \in Rec /\ r.pid = rec.pid /\ r.cnt = -1
  BY <1>1, BadRec DEF Abnormal
<1>3. GrpOK' /\ GrpAt(w, r)
  BY <1>1, <1>2, RegisterSet DEF Typed
<1> HIDE DEF r
<1>4. over' \in BOOLEAN
  BY DEF Typed, GhostOK
<1>5. Typed'
  BY <1>3, <1>4 DEF Typed, SysOK, ProcOK, ScanOK, MgrOK, CountOK, GhostOK, NoScan, None
<1>6. Alive' /\ Left' /\ Looking' /\ Begun'
  BY DEF Alive, Left, Child, Looking, Begun, NoScan, None
<1>7. Plain' => Good'
  <2> SUFFICES ASSUME Plain' PROVE Good'
    OBVIOUS
  <2>1. Good /\ \A q \in Pid : Mine(q)' <=> Mine(q)
    BY DEF Plain, Mine, Child
  <2>2. grp'[w].fresh /\ grp'[w].cnt = -1 /\ \A v \in Worker \ {w} : grp'[v] = grp[v]
    BY <1>2, <1>3 DEF GrpAt
  <2>3. Single'
    BY <2>1 DEF Good, Single
  <2>4. Pending'
    BY <2>1, <2>2 DEF Good, Pending, Mine, Child, NoScan, None
  <2>5. Known'
    BY <2>1, <2>2 DEF Good, Known, Mine, Child, NoScan, None
  <2>6. Recorded'
    <3> SUFFICES ASSUME ~over', NEW q \in Pid, Mine(q), proc[q].at # "init"
                 PROVE  /\ grp'[proc[q].name].pid = q
                        /\ proc[q].at = "up" => grp'[proc[q].name].status = "START"
      BY <2>1 DEF Recorded
    <3>1. /\ grp[proc[q].name].pid = q
          /\ proc[q].at = "up" => grp[proc[q].name].status = "START"
      BY <2>1, <1>4 DEF Good, Recorded, Typed, GhostOK
    <3>2. proc[q].name # w
      BY <3>1, <2>1, <1>1, NotThis DEF Typed, GhostOK
    <3>3. proc[q].name \in Worker \ {w}
      BY <3>2 DEF Mine, Child
    <3> QED BY <3>1, <3>3, <2>2
  <2> QED BY <2>3, <2>4, <2>5, <2>6 DEF Good
<1> QED BY <1>5, <1>6, <1>7

\* It is started again: a copy that is not young is of a name without child.
LEMMA RestartInv ==
  ASSUME IInv, scan # NoScan, Abnormal(scan.rec), ~HopeLess(scan.rec), scan' = NoScan,
         Register(scan.w, [[scan.rec EXCEPT !.status = "ABNORMAL"] EXCEPT !.cnt = scan.rec.cnt - 1]),
         Fork({<<scan.w, 1>>}),
         over' = (over \/ grp[scan.w].pid # scan.rec.pid),
         undone' = (undone \/ scan.w \in told),
         UNCHANGED <<sys, stray, mgr, cmds, crashes, told, grown, old, early, foreign>>
  PROVE  IInv'
<1> USE DEF IInv, Shape
<1> DEFINE w == scan.w
           rec == scan.rec
           r == [[rec EXCEPT !.status = "ABNORMAL"] EXCEPT !.cnt = rec.cnt - 1]
<1>1. scan \in [w : Worker, rec : Rec] /\ w \in Worker /\ rec \in Rec
  BY DEF Typed, ScanOK
<1>2. r \in Rec
  BY <1>1, BadRec DEF Abnormal
<1>3. GrpOK' /\ GrpAt(w, r)
  BY <1>1, <1>2, RegisterSet DEF Typed
<1> HIDE DEF r
<1>4. \A c \in {<<w, 1>>} : c[1] \in Worker
  BY <1>1
<1>5. ProcOK' /\ Alive'
  BY <1>4, ForkSet, ForkAlive DEF Typed
<1>6. over' \in BOOLEAN /\ undone' \in BOOLEAN
  BY DEF Typed, GhostOK
<1>7. Typed'
  BY <1>3, <1>5, <1>6 DEF Typed, SysOK, ScanOK, MgrOK, CountOK, GhostOK, NoScan, None
<1>8. Left' /\ Looking' /\ Begun'
  BY DEF Left, Looking, Begun, NoScan, None, ghost
<1>9. Plain' => Good'
  <2> SUFFICES ASSUME Plain' PROVE Good'
    OBVIOUS
  <2>1. Good /\ old \subseteq early
    BY DEF Plain, Looking, Begun
  <2>2. \A q \in Pid : ~(Mine(q) /\ proc[q].name = w)
    <3> SUFFICES ASSUME NEW q \in Pid, Mine(q), proc[q].name = w PROVE FALSE
      OBVIOUS
    <3>1. CASE proc[q].at = "init"
      BY <3>1, <2>1 DEF Good, Pending, Mine, HopeLess
    <3>2. CASE proc[q].at # "init"
      BY <3>2, <2>1, <1>1, NotThis DEF HopeLess
    <3> QED BY <3>1, <3>2
  <2>3. PICK f : \A p \in Pid : \/ proc'[p] = proc[p]
                                \/ \E c \in {<<w, 1>>} : f[c] = p /\ New(p, c[1])
    BY <1>4, ForkSet DEF Typed
  <2>4. \A p \in Pid : proc'[p] = proc[p] \/ (f[<<w, 1>>] = p /\ New(p, w))
    BY <2>3
  <2>5. grp'[w].fresh /\ \A v \in Worker \ {w} : grp'[v] = grp[v]
    BY <1>3 DEF GrpAt
  <2>6. \A q \in Pid : Mine(q)' /\ proc'[q].name = w => q = f[<<w, 1>>] /\ proc'[q].at = "init"
    BY <2>2, <2>4 DEF Mine, Child, New
  <2>7. \A q \in Pid : Mine(q)' /\ proc'[q].name # w =>
            Mine(q) /\ proc'[q].name = proc[q].name /\ proc'[q].at = proc[q].at /\ proc[q].name \in Worker \ {w}
    BY <2>4 DEF Mine, Child, New
  <2>8. Single'
    BY <2>1, <2>6, <2>7 DEF Good, Single
  <2>9. Known'
    BY <2>1, <2>5, <2>6, <2>7 DEF Good, Known, NoScan, None
  <2>10. Recorded'
    BY <2>1, <2>5, <2>6, <2>7, <1>6 DEF Good, Recorded, Typed, GhostOK
  <2>11. Pending'
    BY <2>1, <2>5, <2>6, <2>7 DEF Good, Pending, NoScan, None
  <2> QED BY <2>8, <2>9, <2>10, <2>11 DEF Good
<1> QED BY <1>5, <1>7, <1>8, <1>9

LEMMA ScanCheckInv ==
  ASSUME IInv, ScanCheck
  PROVE  IInv'
<1> DEFINE rec == scan.rec
           bad == [rec EXCEPT !.status = "ABNORMAL"]
<1>1. scan # NoScan /\ scan' = NoScan /\ UNCHANGED <<sys, stray, mgr, cmds, crashes, told, grown, old, early, foreign>>
  BY DEF ScanCheck
<1>2. rec \in Rec /\ bad.cnt = rec.cnt
  BY <1>1 DEF IInv, Shape, Typed, ScanOK, Rec
<1>3. CASE ~Abnormal(rec) /\ UNCHANGED <<grp, proc, undone, over>>
  <2> USE DEF IInv, Shape
  <2>1. Typed' /\ Alive' /\ Left' /\ Looking' /\ Begun' /\ Less
    BY <1>1, <1>3 DEF Typed, GrpOK, SysOK, ProcOK, ScanOK, MgrOK, CountOK, GhostOK, Alive, Left, Child, Looking, Begun, Less, NoScan, None, ghost
  <2>2. Plain' => Good'
    BY <1>1, <1>3, <2>1, Quiet DEF Plain
  <2> QED BY <2>1, <2>2
<1>4. CASE /\ Abnormal(rec) /\ HopeLess(rec)
           /\ Register(scan.w, [bad EXCEPT !.cnt = IF rec.fresh THEN -1 ELSE @ - 1])
           /\ over' = (over \/ grp[scan.w].pid # rec.pid)
           /\ UNCHANGED <<proc, undone>>
  <2> DEFINE c == IF rec.fresh THEN -1 ELSE bad.cnt - 1
  <2>1. Register(scan.w, [bad EXCEPT !.cnt = c])
    BY <1>4
  <2>2. c = -1
    BY <1>2, <1>4 DEF HopeLess
  <2> HIDE DEF c
  <2>3. Register(scan.w, [bad EXCEPT !.cnt = -1])
    BY <2>1, <2>2
  <2> QED BY <2>3, <1>1, <1>4, GiveUpInv
<1>5. CASE /\ Abnormal(rec) /\ ~HopeLess(rec)
           /\ Register(scan.w, [bad EXCEPT !.cnt = @ - 1])
           /\ Fork({<<scan.w, 1>>})
           /\ over' = (over \/ grp[scan.w].pid # rec.pid)
           /\ undone' = (undone \/ scan.w \in told)
  <2>1. Register(scan.w, [bad EXCEPT !.cnt = bad.cnt - 1])
    BY <1>5
  <2>2. Register(scan.w, [bad EXCEPT !.cnt = rec.cnt - 1])
    BY <2>1, <1>2
  <2> QED BY <2>2, <1>1, <1>5, RestartInv
<1> QED BY <1>3, <1>4, <1>5 DEF ScanCheck

-----------------------------------------------------------------------------
LEMMA InvInit == Init => IInv
<1> SUFFICES ASSUME Init PROVE IInv
  OBVIOUS
<1>1. \A p \in Pid : proc[p] = Gone
  BY DEF Init
<1>2. SysOK
  BY DEF Init, SysOK, SysRec
<1>3. GrpOK /\ ProcOK
  BY NoneRec, GoneProcess DEF Init, GrpOK, ProcOK
<1>4. ScanOK /\ MgrOK /\ CountOK
  BY DEF Init, ScanOK, MgrOK, CountOK
<1>5. GhostOK
  BY DEF Init, GhostOK
<1>6. Alive /\ Left /\ Looking /\ Begun /\ Good
  BY <1>1, GoneProcess DEF Init, Alive, Left, Looking, Good, Single, Pending, Known, Recorded, Mine, Child, Begun
<1> QED BY <1>2, <1>3, <1>4, <1>5, <1>6 DEF IInv, Shape, Typed

LEMMA InvStep == IInv /\ [Next]_vars => IInv'
<1> SUFFICES ASSUME IInv, [Next]_vars PROVE IInv'
  OBVIOUS
<1>1. ASSUME NEW p \in Pid, Die(p) \/ Begin(p) \/ DealCmd(p) \/ Idle(p) PROVE IInv'
  BY <1>1, DieInv, BeginInv, DealCmdInv, IdleInv
<1>2. CASE MgrDie \/ MgrStep \/ Age \/ PolScan
  BY <1>2, MgrDieInv, MgrStartInv, MgrReadyInv, MgrAbortInv, MgrEndInv, ScanCheckInv, AgeInv, PolScanInv DEF MgrStep
<1>3. ASSUME NEW w \in Worker, ScanRead(w) \/ CmdMore(w) PROVE IInv'
  BY <1>3, ScanReadInv, CmdMoreInv
<1>4. ASSUME NEW ws \in SUBSET Worker \ {{}}, CmdExit(ws) PROVE IInv'
  BY <1>4, CmdExitInv
<1>5. CASE CmdStart \/ CmdStop \/ CmdStopSvr \/ CmdStartSvr
  BY <1>5, CmdStartInv, CmdStopInv, CmdStopSvrInv, CmdStartSvrInv
<1>6. CASE UNCHANGED vars
  BY <1>6 DEF vars, ghost, IInv, Shape, Typed, GrpOK, SysOK, ProcOK, ScanOK, MgrOK, CountOK, GhostOK,
              Alive, Left, Looking, Begun, Plain, Good, Single, Pending, Known, Recorded, Mine, Child, NoScan, None
<1> QED BY <1>1, <1>2, <1>3, <1>4, <1>5, <1>6 DEF Next

LEMMA Inductive == Spec => []IInv
BY InvInit, InvStep, PTL DEF Spec

\* The tables of the processes, the processes and the counters keep their
\* types; a restart counter stays between -1 and MAX_RESTART_CNT.
THEOREM TypeCorrect == Spec => []TypeOK
<1>1. IInv => TypeOK
  BY InvType DEF IInv, Shape
<1> QED BY <1>1, Inductive, PTL

LEMMA SingleOne == ASSUME IInv PROVE OneChild
<1> SUFFICES ASSUME Plain, NEW w \in Worker \ early
             PROVE  Cardinality({p \in Live(w) : ~proc[p].orphan}) <= 1
  BY DEF OneChild, Plain
<1> DEFINE S == {p \in Live(w) : ~proc[p].orphan}
<1>1. \A p, q \in S : p = q
  BY DEF IInv, Good, Single, Mine, Child, Live
<1> HIDE DEF S
<1>2. S = {} => Cardinality(S) = 0
  BY FS_EmptySet
<1>3. S # {} => \E p : S = {p}
  BY <1>1
<1>4. \A p : Cardinality({p}) = 1
  BY FS_Singleton
<1>5. Cardinality(S) = 0 \/ Cardinality(S) = 1
  BY <1>2, <1>3, <1>4
<1> QED BY <1>5 DEF S

\* The manager has one process of a name at a time, however its look at the
\* records (svc_handle_timeout), the workers' own writes and deaths interleave,
\* and also when it overwrites a record with an older copy.  Left aside: the
\* administrator had processes created (grown), a worker without manager wrote
\* a record (foreign), names whose record was of an earlier run when the scans
\* began (early).
THEOREM OneEach == Spec => []OneChild
BY SingleOne, Inductive, PTL

LEMMA RecordedReachable == ASSUME IInv PROVE Reachable
<1> SUFFICES ASSUME Plain, ~over, NEW p \in Pid, proc[p].at = "up", ~proc[p].orphan, proc[p].name \notin early
             PROVE  grp[proc[p].name].pid = p /\ grp[proc[p].name].status = "START"
  BY DEF Reachable, Plain
<1>1. Mine(p)
  BY DEF IInv, Shape, Alive, Child, Mine
<1> QED BY <1>1 DEF IInv, Good, Recorded

\* A worker that has begun is in its record, with the state START, as long as
\* no record was overwritten: svc_child_register is the last to write it.
THEOREM Found == Spec => []Reachable
BY RecordedReachable, Inductive, PTL

=============================================================================
