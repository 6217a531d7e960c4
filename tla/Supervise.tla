----------------------------- MODULE Supervise -----------------------------
(***************************************************************************)
(* Who starts and stops the processes of a product: the police (pol_cycle) *)
(* watches the product's manager swsvcman (svc.c, svc_pub.c), the manager  *)
(* watches its workers, the administrator sends commands to the manager.   *)
(* They meet in the process table (core/procs.c): a group of records for   *)
(* the workers and a table of the system's processes.                      *)
(*                                                                         *)
(* A record is read in one section of the table's lock and written back as *)
(* a whole in another.  The manager keeps what it has read meanwhile: scan.*)
(* A worker reads its own record and writes it in one step of the model.   *)
(* One server of one product; a process forks its children in one step; a  *)
(* process number is not used again while a record names it; a process     *)
(* that was started registers within MIN_RESTART_TIME; nobody starts a     *)
(* manager while another is starting.  Listeners are watched in the same   *)
(* way (lsn_handle_timeout).                                               *)
(***************************************************************************)
EXTENDS Integers, FiniteSets

CONSTANTS Worker,           \* the names svr_worker_i of the server's processes
          MAX_RESTART_CNT,
          SysMax,           \* sys_procs_max, less the other processes in it
          MaxPid,           \* bound: worker processes at a time
          MaxCmd,           \* bound: commands of the administrator
          MaxCrash          \* bound: processes that die

ASSUME NameAssumption == "none" \notin Worker
ASSUME SupAssumption == {MAX_RESTART_CNT, SysMax, MaxPid, MaxCmd, MaxCrash} \subseteq Nat

VARIABLES grp,      \* the group's records: a worker's process, status, restarts left
          sys,      \* the manager's record in the table of the system's processes
          stray,    \* workers that are recorded there
          proc,     \* the worker processes
          mgr,      \* the manager process
          scan,     \* the record the manager looks at in svc_handle_timeout
          cmds, crashes,
          told,     \* workers that were stopped, by MSTOPSVR, and not started
          undone,   \* ... and that the manager started again
          grown,    \* a command started further processes
          old,      \* workers whose record is older than their manager
          early,    \* workers the manager took for started by such a record
          foreign,  \* a worker of an earlier manager wrote its record
          over      \* the manager wrote an older copy of a record over a newer

ghost == <<told, undone, grown, old, early, foreign, over>>
vars == <<grp, sys, stray, proc, mgr, scan, cmds, crashes, ghost>>

Pid == 1 .. MaxPid
None == [pid |-> 0, status |-> "none", cnt |-> 0, fresh |-> FALSE]
Gone == [name |-> "none", at |-> "gone", cmd |-> "none", orphan |-> FALSE]
Rec == [pid : {0} \cup Pid, status : {"none", "START", "EXITING", "EXITED", "ABNORMAL"},
        cnt : -1 .. MAX_RESTART_CNT, fresh : BOOLEAN]

TypeOK ==
    /\ grp \in [Worker -> Rec]
    /\ sys \in [status : {"none", "START", "STOPED", "ABORTED", "ABNORMAL"},
                cnt : -1 .. MAX_RESTART_CNT, limited : BOOLEAN, fresh : BOOLEAN]
    /\ {stray, told, old, early} \subseteq SUBSET Worker
    /\ proc \in [Pid -> [name : Worker \cup {"none"}, at : {"gone", "init", "up", "exiting"},
                         cmd : {"none", "MSTOPSELF", "MEXITSELF"}, orphan : BOOLEAN]]
    /\ mgr \in {"down", "boot", "start", "up", "wait"}
    /\ scan \in [w : Worker, rec : Rec] \cup {[w |-> "none", rec |-> None]}
    /\ cmds \in 0 .. MaxCmd /\ crashes \in 0 .. MaxCrash
    /\ {undone, grown, foreign, over} \subseteq BOOLEAN

NoScan == [w |-> "none", rec |-> None]
Live(w) == {p \in Pid : proc[p].name = w}
Registered == {w \in Worker : grp[w].status # "none"}

Init == /\ grp = [w \in Worker |-> None]
        /\ sys = [status |-> "none", cnt |-> 0, limited |-> FALSE, fresh |-> FALSE]
        /\ proc = [p \in Pid |-> Gone] /\ mgr = "down" /\ scan = NoScan
        /\ stray = {} /\ told = {} /\ old = {} /\ early = {} /\ cmds = 0 /\ crashes = 0
        /\ undone = FALSE /\ grown = FALSE /\ foreign = FALSE /\ over = FALSE

-----------------------------------------------------------------------------
(* The process table *)

\* Mutant: the time of the last start is kept.
RegisterKeepsTime(w, rec) == grp' = [grp EXCEPT ![w] = rec]

\* procs_register, procs_svr_register: the record is copied, its time is now.
Register(w, rec) == grp' = [grp EXCEPT ![w] = [rec EXCEPT !.fresh = TRUE]]

\* procs_sys_register refuses when the table is full, be the name in it or not.
SysRoom == Cardinality(stray) + (IF sys.status = "none" THEN 0 ELSE 1) + 1 <= SysMax

SysRegister(rec) == sys' = IF SysRoom THEN [rec EXCEPT !.fresh = TRUE] ELSE sys

-----------------------------------------------------------------------------
(* Processes *)

\* svc_create_single_svc, for every child <<name, k>>; told tells its workers
\* from those that were not stopped.
Fork(children) ==
    LET free == {p \in Pid : /\ proc[p] = Gone /\ p # scan.rec.pid
                             /\ \A w \in Worker : grp[w].pid # p}
        pid == CHOOSE f \in [children -> free] : \A c, d \in children : f[c] = f[d] => c = d
    IN  /\ Cardinality(free) >= Cardinality(children)
        /\ proc' = [p \in Pid |->
                     IF \E c \in children : pid[c] = p
                     THEN [Gone EXCEPT !.name = (CHOOSE c \in children : pid[c] = p)[1], !.at = "init"]
                     ELSE proc[p]]

Exit(p) == proc' = [proc EXCEPT ![p] = Gone]

\* A process dies, or a worker fails to start (svc_work).
Die(p) == /\ proc[p] # Gone /\ crashes < MaxCrash
          /\ Exit(p)
          /\ crashes' = crashes + 1
          /\ UNCHANGED <<grp, sys, stray, mgr, scan, cmds, ghost>>

Orphans == [p \in Pid |-> IF proc[p] = Gone THEN Gone ELSE [proc[p] EXCEPT !.orphan = TRUE]]

MgrDie == /\ mgr \in {"start", "up"} /\ crashes < MaxCrash
          /\ crashes' = crashes + 1
          /\ mgr' = "down" /\ proc' = Orphans /\ scan' = NoScan
          /\ UNCHANGED <<grp, sys, stray, cmds, ghost>>

\* MIN_RESTART_TIME has passed.
Age == /\ \/ /\ sys.fresh /\ mgr # "boot"
             /\ sys' = [sys EXCEPT !.fresh = FALSE]
             /\ UNCHANGED grp
          \/ \E w \in Worker : /\ grp[w].fresh /\ \A p \in Live(w) : proc[p].at # "init"
                               /\ grp' = [grp EXCEPT ![w].fresh = FALSE]
                               /\ UNCHANGED sys
       /\ UNCHANGED <<stray, proc, mgr, scan, cmds, crashes, ghost>>

-----------------------------------------------------------------------------
(* A worker, child_work *)

\* The record as svc_child_register makes it.
Own(p, status) ==
    LET was == grp[proc[p].name]
    IN  [pid |-> p, status |-> status, fresh |-> TRUE,
         cnt |-> IF was.status = "none" \/ (status = "START" /\ was.cnt < 0)
                 THEN MAX_RESTART_CNT ELSE was.cnt]

\* svc_work
Begin(p) ==
    /\ proc[p].at = "init"
    /\ Register(proc[p].name, Own(p, "START"))
    /\ proc' = [proc EXCEPT ![p].at = "up"]
    /\ foreign' = (foreign \/ proc[p].orphan) /\ old' = old \ {proc[p].name}
    /\ UNCHANGED <<sys, stray, mgr, scan, cmds, crashes, told, undone, grown, early, over>>

\* svc_deal_cmd.  There may be transactions under way, or not.
DealCmd(p) ==
    /\ proc[p].at \in {"up", "exiting"} /\ proc[p].cmd # "none"
    /\ \/ /\ proc[p].cmd = "MSTOPSELF"
          /\ Exit(p) /\ UNCHANGED <<grp, foreign>>
       \/ /\ proc[p].cmd = "MEXITSELF"
          /\ foreign' = (foreign \/ proc[p].orphan)
          /\ \/ /\ Register(proc[p].name, Own(p, "EXITED"))
                /\ Exit(p)
             \/ /\ Register(proc[p].name, Own(p, "EXITING"))
                /\ proc' = [proc EXCEPT ![p].at = "exiting", ![p].cmd = "none"]
    /\ UNCHANGED <<sys, stray, mgr, scan, cmds, crashes, told, undone, grown, old, early, over>>

\* Mutant: the worker does not look at the manager's status.
IdleTrusts(p) ==
    /\ proc[p].at \in {"up", "exiting"}
    /\ Exit(p)
    /\ IF proc[p].orphan
       THEN UNCHANGED grp
       ELSE proc[p].at = "exiting" /\ Register(proc[p].name, Own(p, "EXITED"))
    /\ UNCHANGED <<sys, stray, mgr, scan, cmds, crashes, ghost>>

\* Mutant: a worker that exits registers before it looks for its manager.
IdleEager(p) ==
    /\ proc[p].at \in {"up", "exiting"}
    /\ Exit(p)
    /\ IF proc[p].at = "exiting"
       THEN Register(proc[p].name, Own(p, "EXITED"))
       ELSE (proc[p].orphan \/ sys.status # "START") /\ UNCHANGED grp
    /\ UNCHANGED <<sys, stray, mgr, scan, cmds, crashes, ghost>>

\* Nothing came for a second (recv_cnt is 0): the worker leaves when its
\* manager is gone or is not in the state START, or when it was to exit and
\* has no transaction.  A worker that tasks keep busy does not come here.
Idle(p) ==
    /\ proc[p].at \in {"up", "exiting"}
    /\ Exit(p)
    /\ IF proc[p].orphan \/ sys.status # "START"
       THEN UNCHANGED grp
       ELSE proc[p].at = "exiting" /\ Register(proc[p].name, Own(p, "EXITED"))
    /\ UNCHANGED <<sys, stray, mgr, scan, cmds, crashes, ghost>>

-----------------------------------------------------------------------------
(* The manager starts and ends *)

\* svc_cycle_init and svc_create_svr.  Without room in the table it ends.
MgrStart ==
    /\ mgr = "boot"
    /\ IF SysRoom
       THEN /\ SysRegister([sys EXCEPT !.status = "START",
                                       !.limited = (sys.status = "none" \/ @),
                                       !.cnt = IF sys.status = "none" \/ @ < 0
                                               THEN MAX_RESTART_CNT ELSE @])
            /\ Fork(Worker \X {1})
            /\ mgr' = "start" /\ told' = {} /\ old' = Registered /\ early' = {}
       ELSE mgr' = "down" /\ UNCHANGED <<sys, proc, told, old, early>>
    /\ UNCHANGED <<grp, stray, scan, cmds, crashes, undone, grown, foreign, over>>

\* svc_check_child_status: a record says START, be it of this run or not.
\* From here on the workers' records are looked at, also those of workers
\* that are still starting.
MgrReady ==
    /\ mgr = "start" /\ \E w \in Worker : grp[w].status = "START"
    /\ mgr' = "up" /\ early' = old
    /\ UNCHANGED <<grp, sys, stray, proc, scan, cmds, crashes, told, undone, grown, old, foreign, over>>

\* udp_send: the datagram may be lost, and it finds the last process that
\* bound the name.
Send(cmd, ps) == \E got \in SUBSET {p \in ps : ~proc[p].orphan} :
                   proc' = [p \in Pid |-> IF p \in got THEN [proc[p] EXCEPT !.cmd = cmd] ELSE proc[p]]

\* No record says START within a minute: the workers are stopped, the
\* manager ends with the status ABORTED.
MgrAbort ==
    /\ mgr = "start" /\ \A w \in Worker : grp[w].status # "START"
    /\ SysRegister([sys EXCEPT !.status = "ABORTED"])
    /\ mgr' = "down"
    /\ proc' = Orphans
    /\ UNCHANGED <<grp, stray, scan, cmds, crashes, ghost>>

\* main after svc_cycle_run: wait, which returns when all children have ended
\* (SIGCHLD is ignored, core/pub_signal.c).
MgrEnd ==
    /\ mgr = "wait" /\ \A p \in Pid : proc[p] = Gone \/ proc[p].orphan
    /\ mgr' = "down"
    /\ UNCHANGED <<grp, sys, stray, proc, scan, cmds, crashes, ghost>>

-----------------------------------------------------------------------------
(* The manager looks after its workers, svc_handle_timeout *)

\* procs_get_proces_by_index
ScanRead(w) ==
    /\ mgr = "up" /\ scan = NoScan /\ w \in Registered
    /\ scan' = [w |-> w, rec |-> grp[w]]
    /\ UNCHANGED <<grp, sys, stray, proc, mgr, cmds, crashes, ghost>>

Dead(rec) == rec.pid = 0 \/ proc[rec.pid] = Gone

\* Mutant: a worker whose start failed is not looked at.
AbnormalSkip(rec) == rec.status \notin {"EXITED", "ABNORMAL"} /\ Dead(rec) /\ rec.cnt >= 0

\* Mutant: restart_cnt is not looked at.
AbnormalEver(rec) == rec.status # "EXITED" /\ Dead(rec)

\* The process is gone, has not left by itself, and is not given up.
Abnormal(rec) == rec.status # "EXITED" /\ Dead(rec) /\ rec.cnt >= 0

\* It died too early, or has no restart left: it is given up.
HopeLess(rec) == rec.fresh \/ rec.cnt = 0

ScanCheck ==
    LET w == scan.w
        rec == scan.rec
        bad == [rec EXCEPT !.status = "ABNORMAL"]
    IN  /\ scan # NoScan
        /\ scan' = NoScan
        /\ \/ ~Abnormal(rec) /\ UNCHANGED <<grp, proc, undone, over>>
           \/ /\ Abnormal(rec) /\ HopeLess(rec)
              /\ Register(w, [bad EXCEPT !.cnt = IF rec.fresh THEN -1 ELSE @ - 1])
              /\ over' = (over \/ grp[w].pid # rec.pid)
              /\ UNCHANGED <<proc, undone>>
           \/ /\ Abnormal(rec) /\ ~HopeLess(rec)
              /\ Register(w, [bad EXCEPT !.cnt = @ - 1])
              /\ Fork({<<w, 1>>})
              /\ over' = (over \/ grp[w].pid # rec.pid)
              /\ undone' = (undone \/ w \in told)
        /\ UNCHANGED <<sys, stray, mgr, cmds, crashes, told, grown, old, early, foreign>>

-----------------------------------------------------------------------------
(* The administrator's commands, svc_handle_control_cmd *)

Command == /\ mgr = "up" /\ scan = NoScan /\ cmds < MaxCmd
           /\ cmds' = cmds + 1

\* uni_svr starts the manager.
CmdStart ==
    /\ mgr = "down" /\ cmds < MaxCmd
    /\ cmds' = cmds + 1 /\ mgr' = "boot"
    /\ UNCHANGED <<grp, sys, stray, proc, scan, crashes, ghost>>

\* SW_MSTOPSELF.  The record is written anew: its restart_cnt and its
\* restart_type are 0.
CmdStop ==
    /\ Command /\ SysRoom
    /\ SysRegister([status |-> "STOPED", cnt |-> 0, limited |-> FALSE, fresh |-> TRUE])
    /\ Send("MSTOPSELF", {p \in Pid : proc[p].name \in Registered})
    /\ mgr' = "wait"
    /\ UNCHANGED <<grp, stray, scan, crashes, ghost>>

\* SW_MSTOPSVR: the workers' records in the group are left alone, the system's
\* table gets records of theirs.
CmdStopSvr ==
    LET ws == {w \in Worker : grp[w].status = "START" /\ ~Dead(grp[w])}
        room == SysMax - 1 - Cardinality(stray)
    IN  /\ Command
        /\ \E ts \in SUBSET ws :
             /\ Cardinality(ts \ stray) = IF Cardinality(ws \ stray) < room THEN Cardinality(ws \ stray) ELSE room
             /\ stray' = stray \cup ts
        /\ Send("MSTOPSELF", {p \in Pid : proc[p].name \in ws})
        /\ told' = told \cup ws
        /\ UNCHANGED <<grp, sys, mgr, scan, crashes, undone, grown, old, early, foreign, over>>

\* SW_MSTARTSVR: for every worker that is gone all of them are created.
CmdStartSvr ==
    LET ws == {w \in Registered : Dead(grp[w])}
    IN  /\ Command
        /\ Fork(Worker \X ws)
        /\ told' = told \ (IF ws = {} THEN {} ELSE Worker)
        /\ grown' = (grown \/ ws # {})
        /\ UNCHANGED <<grp, sys, stray, mgr, scan, crashes, undone, old, early, foreign, over>>

\* SW_DEL_SVR, and SW_UPD_SVR with fewer processes.
CmdExit(ws) ==
    /\ Command
    /\ Send("MEXITSELF", {p \in Pid : proc[p].name \in ws})
    /\ UNCHANGED <<grp, sys, stray, mgr, scan, crashes, ghost>>

\* SW_UPD_SVR with more processes.
CmdMore(w) ==
    /\ Command
    /\ Fork({<<w, 1>>})
    /\ told' = told \ {w} /\ grown' = TRUE
    /\ UNCHANGED <<grp, sys, stray, mgr, scan, crashes, undone, old, early, foreign, over>>

-----------------------------------------------------------------------------
(* The police, pol_scan_proc_table *)
PolScan ==
    LET bad == [sys EXCEPT !.status = "ABNORMAL"]
    IN  /\ mgr = "down" /\ sys.status \in {"START", "ABNORMAL"}
        /\ sys.limited /\ sys.cnt >= 0
        /\ IF sys.fresh \/ sys.cnt = 0
           THEN /\ SysRegister([bad EXCEPT !.cnt = IF sys.fresh THEN -1 ELSE @ - 1])
                /\ UNCHANGED mgr
           ELSE /\ SysRegister([bad EXCEPT !.cnt = @ - 1])
                /\ mgr' = "boot"
        /\ UNCHANGED <<grp, stray, proc, scan, cmds, crashes, ghost>>

-----------------------------------------------------------------------------
MgrStep == MgrStart \/ MgrReady \/ MgrAbort \/ MgrEnd \/ ScanCheck
Next == \/ \E p \in Pid : Die(p) \/ Begin(p) \/ DealCmd(p) \/ Idle(p)
        \/ MgrDie \/ MgrStep \/ Age \/ PolScan
        \/ \E w \in Worker : ScanRead(w) \/ CmdMore(w)
        \/ \E ws \in SUBSET Worker \ {{}} : CmdExit(ws)
        \/ CmdStart \/ CmdStop \/ CmdStopSvr \/ CmdStartSvr

\* Every process goes on as long as it lives; the manager's timeout handler
\* looks at all its workers, again and again.  That transactions of a worker
\* that is to exit end is not assumed, nor that a worker to which tasks are
\* sent (procs_get_dst_proc: its record says START) ever has an idle second.
Abandoned(p) == proc[p].orphan \/ sys.status # "START"
Served(p) == LET w == proc[p].name IN w \in Worker /\ grp[w].pid = p /\ grp[w].status \in {"START", "EXITING"}
Fairness == /\ \A p \in Pid : WF_vars(Begin(p)) /\ WF_vars(Abandoned(p) /\ ~Served(p) /\ Idle(p))
            /\ WF_vars(MgrStep) /\ WF_vars(PolScan)
            /\ \A w \in Worker : SF_vars(ScanRead(w))

Spec == Init /\ [][Next]_vars
FairSpec == Spec /\ Fairness
-----------------------------------------------------------------------------
\* The manager has no second process of a name while the first lives, although
\* a new process is in no record for a while, and although what it writes back
\* may be an older copy than the record (over).  The histories in which it may
\* come to two, each before it does: the administrator had it create workers
\* (grown: MSTARTSVR creates all when one is gone, svc_pub.c:2989); a worker
\* of an earlier manager registered (foreign); or the manager began its scans
\* while the record of this worker was that of an earlier run (early: 4635,
\* any record that says START will do).
OneChild == ~grown /\ ~foreign =>
    \A w \in Worker \ early : Cardinality({p \in Live(w) : ~proc[p].orphan}) <= 1

\* A worker that has begun is found in its record and gets work, unless the
\* record was overwritten: with what the manager had read before (svc_pub.c
\* 2733-2758), by a second process (OneChild), or by a worker without manager
\* that is told to exit (1734).
Reachable == ~grown /\ ~foreign /\ ~over =>
    \A p \in Pid : proc[p].at = "up" /\ ~proc[p].orphan /\ proc[p].name \notin early =>
        grp[proc[p].name].pid = p /\ grp[proc[p].name].status = "START"

\* The worker is given up, has left, or was never registered.
GivenUp(w) == grp[w].cnt = -1 \/ grp[w].status \in {"EXITED", "none"}
\* The manager is given up: by the police, by itself, by the administrator
\* (who may have to wait for it), or because its record has no restart_type
\* any more, or the table is full.
MgrGivenUp == \/ mgr = "wait"
              \/ /\ mgr = "down"
                 /\ \/ sys.cnt = -1 \/ ~sys.limited \/ ~SysRoom
                    \/ sys.status \in {"none", "STOPED", "ABORTED"}

\* A worker that is gone comes back, or it is given up.
Recovers == \A w \in Worker : Live(w) = {} ~> Live(w) # {} \/ GivenUp(w) \/ MgrGivenUp

\* A manager that was stopped ends, even when commands to its workers are
\* lost, provided that each of them has an idle second in the end.  Without
\* that it may wait for ever: a worker that missed the command still has the
\* record START, tasks are sent to it (procs.c:860), and as long as they come
\* it does not look at its manager (svc_pub.c 1932-1945).
TasksCease == \A p \in Pid : WF_vars(Abandoned(p) /\ Idle(p))
StopEnds == TasksCease => (mgr = "wait" ~> mgr = "down")

\* A worker that was stopped is not started again by its manager.
StopHolds == ~undone
=============================================================================
