-------------------------------- MODULE Seqs --------------------------------
(***************************************************************************)
(* The trace numbers and the system date of core/seqs.c.  A listener marks *)
(* each request with a number, drawn under the unit's lock, and the system *)
(* date, read under the head's.  The police process saves both to a file   *)
(* and changes the date at midnight (pol/pol_cycle.c), which starts the    *)
(* numbers again; an administrator changes, locks and unlocks the date     *)
(* (admin/adm_cmd_handler.c).  After a stop or a crash the numbers go on   *)
(* from the file, after a crash TRACE_INC later.  Only a start of the      *)
(* whole switch starts the police process: nothing restarts it when it     *)
(* dies.                                                                   *)
(*                                                                         *)
(* One unit, the platform's own (bp_trc_array[0]); a section under the     *)
(* unit's lock is one step.  The head's lock is held across steps only by  *)
(* a change of date.  Days are counted.                                    *)
(***************************************************************************)
EXTENDS Integers, FiniteSets

CONSTANTS Proc,        \* listener processes
          Pol, Adm,    \* the police process, an administrator
          None,        \* nobody; no usable file
          EjfnoMax,    \* u->ejfno_max (99999999); u->base is 1
          TRACE_INC,   \* what a restart skips (1000)
          FarInc,      \* what a restart without a file skips (1000 * TRACE_INC)
          MaxDay,      \* bound: days
          MaxDraw,     \* bound: numbers drawn
          MaxDown,     \* bound: stops, crashes and dead processes
          MaxAdm       \* bound: commands of the administrator

Agent == Proc \cup {Pol, Adm}
ASSUME AgentAssumption == Pol # Adm /\ {Pol, Adm} \cap Proc = {} /\ None \notin Agent
ASSUME IncAssumption == TRACE_INC \in Nat /\ FarInc \in Nat /\ EjfnoMax \in Nat \ {0}
ASSUME BoundAssumption == MaxDay \in Nat \ {0} /\ {MaxDraw, MaxDown, MaxAdm} \subseteq Nat

VARIABLES mem,         \* shm_seqs: trn_base, sys_date, vfs_date, date_lock_flag
          file,        \* .TRACEFILE: mem and head.status, or None when unusable
          head,        \* who has the head's write lock
          day,         \* the calendar
          up,          \* the switch is "up", "stopped", or "crashed": no memory
          police,      \* the police process is "alive", "told" to stop, or "dead"
          pc,          \* where an agent is
          draws, downs, cmds,
          given,       \* <<number, date>> of the requests so far
          repeated,    \* one of them was given out a second time
          fresh,       \* how far the numbers have moved since the file was written
          seen,        \* dates that have been the system date
          window       \* open windows in which numbers repeat, see TraceUnique

ghost == <<given, repeated, fresh, seen, window>>
bounds == <<draws, downs, cmds>>
vars == <<mem, file, head, day, up, police, pc, bounds, ghost>>

Day == 1 .. MaxDay
\* A locked date may be ahead of the calendar (bound: dates).
Date == 1 .. 2 * MaxDay
Idle == [at |-> "idle", op |-> "none", no |-> 0, date |-> 0]
Fresh(d) == [base |-> 1, date |-> d, vfs |-> d, lock |-> FALSE]
\* fresh is of interest up to one more than a restart skips.
Moved(n) == IF n > TRACE_INC THEN TRACE_INC + 1 ELSE n

TypeOK == /\ mem.date \in Date /\ mem.vfs \in Day /\ mem.lock \in BOOLEAN /\ mem.base \in Nat
          /\ file # None => file.flag \in {1, 2} /\ file.mem.date \in Date
          /\ head \in Agent \cup {None}
          /\ \A a \in Agent : pc[a].at = "reset" <=> head = a
          /\ day \in Day /\ up \in {"up", "stopped", "crashed"}
          /\ police \in {"alive", "told", "dead"}
          /\ pc \in [Agent -> [at : {"idle", "drawn", "open", "write", "update", "check",
                                     "change", "reset", "flag", "halt"},
                               op : {"none", "pol", "date", "lock", "save", "stop"},
                               no : Nat, date : {0} \cup Date]]
          /\ draws \in 0 .. MaxDraw /\ downs \in 0 .. MaxDown /\ cmds \in 0 .. MaxAdm
          /\ fresh \in 0 .. TRACE_INC + 1 /\ seen \subseteq Date
          /\ window \subseteq {"wrap", "again", "late", "clear", "blind", "split", "set"}

-----------------------------------------------------------------------------
\* seqs_loc_init; the first start finds no file (seqs_loc_recover).
Init == /\ mem = [Fresh(1) EXCEPT !.base = 1 + FarInc]
        /\ file = None /\ head = None /\ day = 1 /\ up = "up" /\ police = "alive"
        /\ pc = [a \in Agent |-> Idle]
        /\ draws = 0 /\ downs = 0 /\ cmds = 0
        /\ given = {} /\ repeated = FALSE /\ fresh = 0 /\ seen = {1} /\ window = {}

Goto(a, at) == pc' = [pc EXCEPT ![a].at = at]
Become(a, r) == pc' = [pc EXCEPT ![a] = r]
At(a, at) == up = "up" /\ pc[a].at = at
Opens(w, c) == window' = IF c THEN window \cup {w} ELSE window

-----------------------------------------------------------------------------
(* seqs_get_traceno_and_sysdate *)

\* get_no_from_unit.  The date of the drawing is noted (0 while a change of
\* date has not yet started the numbers again).
Draw(p) ==
    /\ At(p, "idle") /\ mem.base <= EjfnoMax /\ draws < MaxDraw
    /\ mem' = [mem EXCEPT !.base = @ + 1]
    /\ draws' = draws + 1
    /\ fresh' = IF file # None /\ file.mem.date # mem.date THEN fresh ELSE Moved(fresh + 1)
    /\ Become(p, [Idle EXCEPT !.at = "drawn", !.no = mem.base,
                              !.date = IF head = None THEN mem.date ELSE 0])
    /\ UNCHANGED <<file, head, day, up, police, downs, cmds, given, repeated, seen, window>>

\* Past the last number the unit starts again, and the call is repeated.
Wrap(p) ==
    /\ At(p, "idle") /\ mem.base > EjfnoMax
    /\ mem' = [mem EXCEPT !.base = 1]
    /\ Opens("wrap", TRUE)
    /\ UNCHANGED <<file, head, day, up, police, pc, bounds, given, repeated, fresh, seen>>

\* seqs_loc_get_sysdate waits for a change of date.
GetDate(p) ==
    /\ At(p, "drawn") /\ head = None
    /\ given' = given \cup {<<pc[p].no, mem.date>>}
    /\ repeated' = (repeated \/ <<pc[p].no, mem.date>> \in given)
    /\ Opens("split", pc[p].date # mem.date)
    /\ Become(p, Idle)
    /\ UNCHANGED <<mem, file, head, day, up, police, bounds, fresh, seen>>

-----------------------------------------------------------------------------
(* seqs_loc_save *)

\* The file is opened, and emptied, before the locks are taken.
SaveOpen(a) ==
    /\ At(a, "open")
    /\ file' = None
    /\ Goto(a, "write")
    /\ UNCHANGED <<mem, head, day, up, police, bounds, ghost>>

AfterSave(a) == CASE pc[a].op = "pol" -> [Idle EXCEPT !.at = "update", !.op = "pol"]
                  [] pc[a].op = "stop" -> [Idle EXCEPT !.at = "halt"]
                  [] OTHER -> Idle

\* With every lock held the memory is written.
SaveWrite(a) ==
    /\ At(a, "write") /\ head = None
    /\ file' = [mem |-> mem, flag |-> IF pc[a].op = "stop" THEN 2 ELSE 1]
    /\ fresh' = 0
    /\ Become(a, AfterSave(a))
    /\ UNCHANGED <<mem, head, day, up, police, bounds, given, repeated, seen, window>>

\* It cannot be written: the police process gives up until its next timeout.
SaveFails(a) ==
    /\ At(a, "write") /\ head = None
    /\ file' = None
    /\ Become(a, IF pc[a].op = "stop" THEN AfterSave(a) ELSE Idle)
    /\ UNCHANGED <<mem, head, day, up, police, bounds, ghost>>

-----------------------------------------------------------------------------
(* seqs_loc_change_date to the date in pc[a].date *)

\* Refused when the date is locked.
ChangeCheck(a) ==
    /\ At(a, "check") /\ head = None
    /\ IF mem.lock THEN Become(a, Idle) ELSE Goto(a, "change")
    /\ UNCHANGED <<mem, file, head, day, up, police, bounds, ghost>>

\* The write lock is taken and the date set ...
ChangeDate(a) ==
    /\ At(a, "change") /\ head = None
    /\ head' = a
    /\ mem' = [mem EXCEPT !.date = pc[a].date]
    /\ seen' = seen \cup {pc[a].date}
    /\ Opens("again", pc[a].date \in seen)
    /\ Goto(a, "reset")
    /\ UNCHANGED <<file, day, up, police, bounds, given, repeated, fresh>>

AfterChange(a) == CASE pc[a].op = "lock" -> [pc[a] EXCEPT !.at = "flag"]
                    [] pc[a].op = "date" -> [pc[a] EXCEPT !.at = "open"]
                    [] OTHER -> Idle

\* Mutant: the head's lock is kept.
ChangeResetHeld(a) ==
    /\ At(a, "reset")
    /\ mem' = [mem EXCEPT !.base = 1]
    /\ Become(a, AfterChange(a))
    /\ UNCHANGED <<file, head, day, up, police, bounds, ghost>>

\* ... and the unit starts again.
ChangeReset(a) ==
    /\ At(a, "reset")
    /\ head' = None
    /\ mem' = [mem EXCEPT !.base = 1]
    /\ Become(a, AfterChange(a))
    /\ UNCHANGED <<file, day, up, police, bounds, ghost>>

-----------------------------------------------------------------------------
(* pol_handle_timeout: save, then pol_update_eswitch_date *)

PolTimeout ==
    /\ At(Pol, "idle") /\ police # "dead"
    /\ Become(Pol, [Idle EXCEPT !.at = "open", !.op = "pol"])
    /\ UNCHANGED <<mem, file, head, day, up, police, bounds, ghost>>

\* With a locked date: as many days on as the calendar is from vfs_date.
NewDate == IF mem.lock THEN mem.date + (day - mem.vfs) ELSE day
\* Mutant: the calendar is compared with vfs_date, locked or not.
DueVfs == day # mem.vfs
Due == IF mem.lock THEN day # mem.vfs ELSE day # mem.date
PolUpdate ==
    /\ At(Pol, "update") /\ head = None
    /\ Become(Pol, IF Due /\ NewDate \in Date
                   THEN [at |-> "check", op |-> "pol", no |-> 0, date |-> NewDate] ELSE Idle)
    /\ UNCHANGED <<mem, file, head, day, up, police, bounds, ghost>>

-----------------------------------------------------------------------------
(* The administrator's commands *)

Command(r) == /\ At(Adm, "idle") /\ cmds < MaxAdm /\ cmds' = cmds + 1
              /\ Become(Adm, r)

\* adm_set_date and adm_set_date_lock
SetDate(d, op) ==
    /\ Command([at |-> "check", op |-> op, no |-> 0, date |-> d])
    /\ UNCHANGED <<mem, file, head, day, up, police, draws, downs, ghost>>

\* The flag of seqs_set_date_lock, in a section of its own.
SetDateLock ==
    /\ At(Adm, "flag") /\ head = None
    /\ mem' = [mem EXCEPT !.lock = TRUE]
    /\ Goto(Adm, "open")
    /\ UNCHANGED <<file, head, day, up, police, bounds, ghost>>

\* adm_set_date_unlock
SetDateUnlock ==
    /\ head = None
    /\ Command([Idle EXCEPT !.at = "open", !.op = "save"])
    /\ mem' = [mem EXCEPT !.lock = FALSE]
    /\ UNCHANGED <<file, head, day, up, police, draws, downs, ghost>>

\* seqs_set_plat_flow, which is not followed by a save.
SetPlatFlow(n) ==
    /\ n <= EjfnoMax /\ Command(Idle)
    /\ mem' = [mem EXCEPT !.base = n]
    /\ Opens("set", n < mem.base)
    /\ fresh' = IF n < mem.base THEN fresh ELSE Moved(fresh + n - mem.base)
    /\ UNCHANGED <<file, head, day, up, police, draws, downs, given, repeated, seen>>

\* uni_svr_stop_all sends the stop commands, the police process's first, does
\* not wait, and saves ...
StopAll ==
    /\ Command([Idle EXCEPT !.at = "open", !.op = "stop"])
    /\ police' = IF police = "alive" THEN "told" ELSE police
    /\ UNCHANGED <<mem, file, head, day, up, draws, downs, ghost>>

\* The police process reads its command when it is through with its timeout.
PolExit ==
    /\ At(Pol, "idle") /\ police = "told"
    /\ police' = "dead"
    /\ UNCHANGED <<mem, file, head, day, up, pc, bounds, ghost>>

\* ... and the processes end in their own time.
Halt ==
    /\ At(Adm, "halt") /\ \A a \in Agent \ {Adm} : pc[a].at = "idle"
    /\ up' = "stopped" /\ police' = "dead" /\ Become(Adm, Idle)
    /\ UNCHANGED <<mem, file, head, day, bounds, ghost>>

-----------------------------------------------------------------------------
\* A process dies; SEM_UNDO releases the lock.  The police process restarts
\* listeners and managers (pol_start_proc); nobody restarts it.
Die(a) ==
    /\ up = "up" /\ downs < MaxDown /\ downs' = downs + 1
    /\ pc[a] # Idle \/ (a = Pol /\ police # "dead")
    /\ police' = IF a = Pol THEN "dead" ELSE police
    /\ Become(a, Idle)
    /\ head' = IF head = a THEN None ELSE head
    /\ UNCHANGED <<mem, file, day, up, draws, cmds, ghost>>

\* The machine goes down and the shared memory with it.
Crash ==
    /\ up = "up" /\ downs < MaxDown /\ downs' = downs + 1
    /\ up' = "crashed" /\ head' = None /\ police' = "dead"
    /\ pc' = [a \in Agent |-> Idle]
    /\ UNCHANGED <<mem, file, day, draws, cmds, ghost>>

Midnight == /\ day < MaxDay /\ day' = day + 1
            /\ UNCHANGED <<mem, file, head, up, police, pc, bounds, ghost>>

\* Mutant: a file is taken as it is.
StartedFlat(m) == IF file = None THEN [m EXCEPT !.base = @ + FarInc] ELSE file.mem

\* seqs_loc_recover: a saved file's numbers go on TRACE_INC later, a stop's as they are.
Started(m) == IF file = None THEN [m EXCEPT !.base = @ + FarInc]
              ELSE [file.mem EXCEPT !.base = @ + (IF file.flag = 1 THEN TRACE_INC ELSE 0)]

\* adm_start_all: shared memory is created if there is none, and the file is
\* read over it (seqs_loc_recover).
Start ==
    /\ up # "up" /\ up' = "up" /\ police' = "alive"
    /\ LET m == IF up = "crashed" THEN Fresh(day) ELSE mem
       IN  /\ mem' = Started(m)
           /\ window' = window
                \cup (IF file # None /\ file.flag = 1 /\ fresh > TRACE_INC THEN {"late"} ELSE {})
                \cup (IF file # None /\ file.flag = 2 /\ fresh > 0 THEN {"clear"} ELSE {})
                \cup (IF file = None /\ \E g \in given : g[2] = m.date /\ g[1] > m.base + FarInc - 1
                      THEN {"blind"} ELSE {})
    /\ fresh' = IF file # None /\ file.flag = 1 THEN TRACE_INC ELSE 0
    /\ seen' = seen \cup {mem'.date}
    /\ UNCHANGED <<file, head, day, pc, bounds, given, repeated>>

ChangeStep(a) == ChangeCheck(a) \/ ChangeDate(a) \/ ChangeReset(a)
AdmCommand == \/ \E d \in Day, op \in {"date", "lock"} : SetDate(d, op)
              \/ SetDateUnlock \/ StopAll
              \/ \E n \in {1, EjfnoMax} : SetPlatFlow(n)
Next == \/ \E p \in Proc : Draw(p) \/ Wrap(p) \/ GetDate(p)
        \/ \E a \in {Pol, Adm} : \/ SaveOpen(a) \/ SaveWrite(a) \/ SaveFails(a)
                                 \/ ChangeStep(a)
        \/ \E a \in Agent : Die(a)
        \/ PolTimeout \/ PolUpdate \/ PolExit
        \/ AdmCommand \/ SetDateLock \/ Halt
        \/ Crash \/ Start \/ Midnight

\* The police process's timeout comes again and again, its file can be
\* written again and again, and the kernel's queue gives it the lock; others
\* do not keep the lock.
Fairness == /\ WF_vars(PolTimeout) /\ SF_vars(PolUpdate)
            /\ WF_vars(SaveOpen(Pol)) /\ SF_vars(SaveWrite(Pol))
            /\ SF_vars(ChangeCheck(Pol)) /\ SF_vars(ChangeDate(Pol))
            /\ \A a \in {Pol, Adm} : WF_vars(ChangeReset(a))

Spec == Init /\ [][Next]_vars
FairSpec == Spec /\ Fairness
-----------------------------------------------------------------------------
\* A request's number and date are given out once, across changes of date,
\* stops and crashes, except in these windows:
\*  wrap   the day's last number was drawn and the unit starts again,
\*  again  a date was set that had been the date before: by an administrator,
\*         or at midnight a second time, after a restart from a file that was
\*         saved before midnight,
\*  late   a crash after more than TRACE_INC numbers since the last save (the
\*         TRACE_INC a restart skips count: a second crash before the first
\*         save is one),
\*  clear  numbers drawn after the save of a stop, which a restart takes as
\*         it is,
\*  blind  a restart without a file, the second on a date,
\*  split  the date changed between the drawing and the reading of the date,
\*  set    an administrator set the number back.
TraceUnique == repeated => window # {}

\* As long as there is a police process and nobody locks the date, it follows
\* the calendar, through files that cannot be written, the death of an
\* administrator in a change of date, and restarts.  (When the police process
\* has died or was told to stop, the date stays until the next start of the
\* switch: pol_start_proc, pol_cycle.c:424-453, has no case for it.)
DateFollows == \A d \in Day :
    (up = "up" /\ police = "alive" /\ ~mem.lock /\ day = d)
      ~> (mem.date = d \/ mem.lock \/ day # d \/ up # "up" \/ police # "alive")
=============================================================================
