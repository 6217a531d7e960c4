# TLA+ models of the switch (v3.3)

The repository is a message switch for banks: a set of cooperating processes on one machine that
accept requests from business partners, route them through services to other partners and bring
the answers back. There are no threads worth the name; everything the processes share lies in
System V shared memory and is protected, where it is protected, by one set of System V
semaphores. Processes die, are restarted by a police process, and the machine may go down. That
is what these modules are about: the shared tables, the queues between the processes and what
survives a death, a stop or a crash.

Source paths below are relative to `src/v3.3/src/`.

## 1. Inventory

| Component | Code | State it keeps | Operations | What makes it correct |
|---|---|---|---|---|
| Locks | `core/sem_lock.c`, `os/unix/pub_sem.c` | semaphore values and undo values in the kernel, `lock_cnt` | mutex/read/write lock and unlock, `sem_new_lock_id` | readers share, writers exclude, ids are distinct, deaths release exactly what was held |
| Session table | `core/mtype.c` | a slot per running request, counters, scan position | `mtype_new`, `mtype_delete`, `mtype_delete_info`, `mtype_save_link_info`, setters | a slot has one owner; slots of dead owners come back; no request sees another's variables |
| Admission limits | `core/mtype_limit.c` | `use` per product and listener | `mtype_limit_check`, `mtype_limit_free` | no more sessions than the limit; the counter counts sessions |
| Commands between processes | `core/msg_trans.c`, `os/unix/pub_msq.c`, `pub_fifo.c` | a queue and a pipe per receiver | `msg_trans_send`, `msg_trans_rcv`, create, remove | every message wakes its receiver; a session has one command waiting |
| Link table | `lsn/comm/lsn_comm.c` | requests sent out that wait for an answer | save, load, update, delete, timeout scan | one answer per request, none lost, every call ends |
| Numbers and date | `core/seqs.c` | units of numbers, the system date, its lock flag, `.TRACEFILE` | draw, save, recover, change, lock and unlock the date | number and date identify a request, across midnight and restarts |
| Police process | `pol/pol_cycle.c` | none of its own | on a timer: save numbers, restart managers, update the date | the date follows the calendar; dead managers return |
| Managers | `svc/svc.c`, `svc/svc_pub.c`, `svc/svc_cycle.c` | the servers and workers of a product | start, supervise and stop workers, commands of the administrator | one process per name, registered while it runs; dead workers return; stopped ones do not |
| Administrator | `admin/` | none of its own | start, stop, set date and numbers, show | commands do not break the tables under running processes |
| Process table | `core/procs.c` | a group of records per server, a table of managers and listeners, busy flags, task counts | allocate, register, read, choose a destination | records describe living processes; requests go to idle ones |
| Routing | `core/pub_route.c` | the stack of commands of a request | push, pop, recover, send to destination | an answer returns to where the call came from |
| Services | `svc/` | the flow of a request | receive a command, run a flow, call others | one answer per task |
| TCP listeners | `lsn/tcp/` | connections and their sessions | accept, request, response, timeout | responses reach their own connection |
| Session variables, slabs | `core/shm_vars.c`, `core/pub_vars.c`, `core/shm_slab.c`, `core/slab.c` | trees of variables in shared pages | create, set, get, destroy | pages are not lost or shared |
| Trace, jobs, thread pool | `core/trace.c`, `core/job.c`, `job/`, `core/thread_pool.c` | lists in shared memory, a work queue | insert, schedule, run | every job runs once |
| The rest | `pack/`, `logs/`, `alert/`, `uniform/`, `agent/`, `plugin/`, `comm/`, `tools/`, libraries in `core/` | files, configuration | | not candidates: formats, I/O, configuration, vendored code |

How they interact: a listener process takes a session (`mtype_new`), creates its variables, asks
for admission (`mtype_limit_check` inside `lsn_get_route`), draws number and date
(`seqs_get_traceno_and_sysdate`), names the session (`mtype_set_info`) and sends a command to a
service (`route_snd_dst`, `msg_trans_send`). A service runs its flow and sends commands on, in the
end to a listener that sends the request out; an asynchronous one leaves a link. The answer finds
the link, the command goes back, and the first listener answers and deletes the session. All
tables are guarded by ids of the semaphore set; a caller discards the lock functions' results.

What is hard here: processes die between two writes of a section (the semaphore is released, the
table stays half written); much is read before a lock is taken or written after it is released;
several counters have no lock; a session slot is reused while late commands for it travel;
timeouts race answers; the numbers must not repeat although the file they are recovered from is
older than the memory that was lost. `PROJECT.json` lists these places under `hazards`, by line.

## 2. Modules

`RWLock` is the abstract lock. `SemLock` implements it; the other modules take it for granted and
show a critical section either as one step or, where a death inside it matters, as several steps
with a variable for the holder.

### SemLock (and RWLock)

`semval`, `semadj` are the kernel's semaphore values and per-process undo values; `lock_cnt` is
`sem_lock->lock_cnt`; `alloc` is where a process is in `sem_new_lock_id` and the count it loaded;
`inside` and `issued` record which critical sections the callers are in and which ids they were
given. `SemLock`/`SemUnlock` are the lock and unlock functions with their parameter check
(mutex and write lock are the same code with the same value); an id that fails it leaves the
semaphore alone and the caller goes on, as the callers in the repository do. Id allocation is five
steps, so that a death may come between load and store. `Crash` is the kernel's `SEM_UNDO`.

### Mtype

`flag` and `old` are a slot's state and whether `start_time` is more than `MTYPE_TIMEOUT` ago,
`vars` who created the shared variables of the slot, `cur_cnt`/`cur_use` the head, `lock` the
mutex. `mtype_loc_new` is `NewCall` (reads `cur_use` outside the mutex), `NewFind` or `NewNone`
(mutex and scan), `NewReclaim`, `NewRecount` (take-over of an old slot), `NewZero` (the node is
zeroed), `NewTake` (and marked), `NewCount`, `NewReturn` (destroys left-over variables after the
unlock). `mtype_loc_delete_info` zeroes a node in the same way: `DeleteInfoZero`, `DeleteInfoMark`,
`DeleteInfoCount`. Between zeroing and mark a slot's flag is `ZERO`, none of the three the scan
knows; if its process dies there it stays so, and a scan that comes to such a slot ends with an
error (`NewNone`). `held` is what owners may use.
An owner closes a session once; double deletes are in `MtypeLimit` and `TcpSS`.
`stolen` records that a living owner was overtaken after three hours, `torn` counts processes
that died between the mark and the count of a section, `wiped` those that left a zeroed slot.

### MtypeLimit

The counter `use` of one product, with its `++` and `--` as loads and stores by several processes,
composed with the life of a session as `tcpss_deal_req` leads it: new, check, the listener's own
limit, failures before the session has a name, naming, deletion, and take-over of dead owners'
slots. `LsnFull` is the dereference of a NULL pointer at `mtype_limit.c:513`: the process dies.
A deletion subtracts before it looks whether the session is in use, and the name stays. So an answer
that comes after the timeout (`Timeout`, `LateAnswer`) subtracts once more and closes the session of
whoever has the slot by then, and so does the second deletion of a LINKNULL (`LinkNull`,
`AfterMark`): `twice`. `met` counts the times a process compares or loads the counter while another
one is between its own comparison or load and its store; `torn` the sessions whose process died
after the subtraction and before the closing.

### MsgTrans

One queue with its pipe. `queue` is the set of messages, numbered in the order they were put, so
that the first in the kernel's queue is the least; `fifo` counts bytes. A send is `SendCall`,
`SendClear` (once per message it throws away), `SendPut` or `SendFails`, `SendByte`. A receive is
`RcvByte`, `RcvMsg`. Nothing blocks: `IPC_NOWAIT` and a full pipe are errors to the sender, the
second after the message is already in the queue. `Remove` is the receiver's end.

### LinkList

`slot` is the table, `cur_pos` where the next search starts. Keys are unique, so link `n` stands
for the n-th key. Save, update and delete are single steps (each runs under the write lock); a lookup and the deletion after it are
two; the timeout scan of each sender is `See`, `Mark`, `Raise`, `Drop`, without the lock, on a slot
and not on a link. `hit` are the links that were stored in a slot while some sender's timer was at
work on it (`AtWork`). Modelled is the
direction of requests going out, answered by packages that clear their link.
The table starts empty (`lsn_pub.c:3819-3826`).

### SeqsBusiness

One unit and callers of `seqs_new_business_no` with its two sections: `BsnDraw`, `BsnWrap` or
`DrawRefused` (`get_no_from_unit`), then `Adjust`. `lap` separates the numbers before and after a
wrap or a `seqs_set_bsn_flow`. `call` has where each caller is, `served` the calls that returned; a
call records (`how`) whether another one was between its two sections. A service may die anywhere in
a call (`BsnDie`): `lost` has the calls that died with a number. `DieRestored` is the death inside
the second section, with `base_increment` taken back and `step` not added; `torn` says that it
happened to a call that was not alone. The names that `Seqs` uses
too begin with `Bsn` here, so that one module, `SeqsProofs`, extends both.

### Seqs

`mem` is the shared memory (next number, date, `vfs_date`, lock flag), `file` the trace file with
the flag it was saved with, `head` the holder of the head's write lock in the one operation that
keeps it across steps (`seqs_loc_change_date`), `day` the calendar. Listeners draw (`Draw`,
`Wrap`) and read the date (`GetDate`); the police process saves (`SaveOpen`, `SaveWrite`,
`SaveFails`) and updates the date (`PolUpdate`, `ChangeCheck`, `ChangeDate`, `ChangeReset`); the
administrator changes, locks and unlocks the date, sets the number, stops and starts. `police` is
whether the police process lives; a stop tells it first (`StopAll`, `PolExit`), and when it dies
nothing restarts it before the next start of the switch.
A stop leaves the shared memory, a `Crash` does not. `SaveWrite` takes all locks: the sections of
the others are single steps. The date is a day number; `NewDate` is the arithmetic of
`change_vfs_date` on a locked date. `given`, `repeated`, `fresh`, `seen` and `window` are
recorded for the property only.

### TcpSS

The composition: a request's way through a listener, services and back. It takes the session table
and the queues for what `Mtype` and `MsgTrans` show of them. `link` is the listener's connection
table (`use`: 1 accepted, 2 waiting for an answer, 3 left by its client), `slot` a session and the
request that drew it last, `pool` the session's variables: whose they are, and the stack of callers
of `pub_route.c`, which is one of them. `file` is the file these variables overflow to when shared
memory does not suffice: `missing` when `fflag` is set and the file not written yet (`Overflow`,
`Grow`), which the next command that is sent makes good (`Serialize`). While it is missing nobody can
load the variables (`Loads`): a service loses its command, the listener's timeout does nothing.
`queue` holds the commands for a process, `work` what a
service is at work on. A handler of the listener is split where it has changed shared memory and
another process may run: `tcpss_deal_req` is `ReqNew` or `ReqNoSlot`, `ReqFill`, then one of its
ways out, `ReqSend`, `ReqFail`+`ReqUndo`, `ReqNoRoute`+`ReqDrop`, `ReqLeave`; `tcpss_interevt` is
`Res`, `LinkNull` or `NoVars`, then `DestroyVars` and `DeleteSession`; the timer is `Timeout` and
`Expire`. A service takes a command and answers, calls or links another service, or loses it.
Requests are numbered as they come; nobody in the code compares a command's number with the
session's, and so nothing in the model does: `late`, `torn`, `lost` record the windows in which
that matters.

### Supervise

The police process, a product's manager `swsvcman` and its workers, and the two tables of `procs.c`
in which they meet. `grp` has the workers' records (process, status, restarts left, whether started
within `MIN_RESTART_TIME`), `sys` the manager's, `stray` the workers for whom a stop has made an
entry in the system's table; `proc` are the worker processes with the command waiting for them and
whether their manager is dead; `scan` is the record `svc_handle_timeout` has copied and not yet
written back. `old` are workers whose record is from before their manager's start, `early` those of
whom that was so when the manager began its scans, `foreign` says that an orphan registered, `over`
that the manager wrote an older copy over a newer record, `grown` that a command created workers. Actions: `Begin`, `DealCmd`, `Idle` of a worker; `MgrStart`, `MgrReady`, `MgrAbort`,
`MgrEnd`, `ScanRead`, `ScanCheck` of the manager; the commands `Cmd...`; `PolScan`; `Die`, `MgrDie`,
`Age`. A command is a datagram and may be lost. `wait` at the manager's end waits for all its
children, since `SIGCHLD` is ignored. Assumed: one server, a process number is not used again while
a record names it, a process registers within `MIN_RESTART_TIME` of its start, nobody starts a
manager while another one runs. `PolScan` is one step, taken while the manager is down: the police
process's read and write of the manager's record are not separated. No property speaks of what
could come in between.

## 3. Runs

| Run | Instance | Shows |
|---|---|---|
| `semlock` | 3 processes, 4 semaphores, ids 2 to 4 (the last one past the end), `SEM_VALUE` 2, fairness; 114 thousand states | exclusion, exact accounting, unique ids, the id mutex is never lost, refinement of `RWLock` |
| `mtype` | 2 processes, 2 slots, 1 death, fairness; 1 million states | ownership, variables, counter drift; failing only when full or at a slot left zeroed; slots of the dead come back unless such a slot is there |
| `mtypelimit` | 2 processes, limit 1, 3 slots, 1 death, 1 late answer or LINKNULL, 2 meetings at the counter, symmetry; 6 million states | the limit holds, but for deaths between subtraction and closing, second subtractions and meetings |
| `msgtrans` | 2 senders, 2 sessions, queue and pipe of 2, 4 messages, 1 death, fairness; 0.6 million states | bytes cover messages; one command per session; messages do not stay behind |
| `linklist` | 2 senders, 2 receivers, 2 slots, 2 keys, fairness; 33 thousand states | answered once; none lost and only old calls timed out, but for links stored under a timer at work; calls leave the table; failing only when full |
| `linklist_twice` | 2 senders | **violation**: a timeout is raised twice |
| `seqsbusiness` | 3 callers, steps 1 and 2, 3 numbers, units that cycle and that do not, 2 laps, 1 death, symmetry; 9 million states | numbers of one lap are distinct and without gaps but for those of the dead; ranges of calls that are not joined do not meet |
| `seqs` | 2 listeners, 2 days, 2 numbers drawn, 2 stops, deaths or crashes, 1 command; 3 million states | number and date repeat only in seven named windows |
| `seqs_date` | no numbers drawn, 1 crash or death, 1 command, fairness; 9 thousand states | the date follows the calendar while the police process lives |
| `tcpss` | 2 listeners, 2 services, 1 session, 2 requests (`TcpSS.cfg`), fairness; 0.4 million states | connections keep session and variables and get their own answer; no session is left behind; connections close unless their variables can never be loaded |
| `supervise` | 1 worker, 2 restarts, 3 processes at a time, 2 commands, 3 deaths, fairness; 1.3 million states | one process per name, found in its record; dead workers come back; a stopped manager ends when tasks cease |
| `supervise_stop` | 2 workers | **violation**: a stopped worker is started again |

The bounds are chosen from what a violation needs. Two processes give every pair of steps its
orders, a third lets two readers meet a writer; two slots are the least for a scan that starts in
the middle and wraps; a queue and a pipe of two let both overflow; two keys and two senders let a
slot be emptied and taken again under a timer that is at work on it, and fill the table. In
`mtypelimit` a limit of one, two processes and three sessions let a second subtraction or a meeting
admit one request too many, and a third request be refused. In `seqs` two numbers suffice to repeat one,
two downs let a crash follow a crash, and `TRACE_INC` 1, `FarInc` 3, `EjfnoMax` 4 let the unit wrap;
each of the seven windows is necessary: for every one this instance has a history in which a number
repeats and only that window was open. In `tcpss` one session that two connections want is enough
for every reuse, and for variables that a second request finds unloadable. In `supervise`
one worker with a second and a third process of its name gives all overtakings of a record, and three
deaths let a second manager find records of an earlier run. Bounds on deaths, calls, messages and days are conjuncts of
the guards.

Deadlock is checked except where a bounded supply (keys, numbers, commands) really ends the model:
`mtypelimit`, `linklist*`, `seqs*`, `seqsbusiness` and `supervise*`.

The two violations state what a comment or a message of the repository says; `findings` quotes each
and names the line where the code does otherwise. Other disagreements met while modelling have no
run of their own; the models have the behaviour:

- `sem_new_lock_id` hands out ids up to `sem_num`, which the lock functions refuse
  (`sem_lock.c:118`, `:175`); on that last id nobody is excluded. `RWExclusion` leaves it out.
- `cur_use` of the session table is the position after the last slot found (`mtype.c:289`);
  `incl_pub/mtype.h:43` calls it a number of used slots.
- `use` of a limit is changed without a lock, stays raised when a request fails between check
  and naming, and is lowered twice by LINKNULL and by an answer after the timeout; the message at `mtype_limit.c:494` prints it as the
  number of sessions.
- The refusal of a unit that does not cycle is ignored (`seqs.c:449`): the call returns success
  with a number past `ejfno_max`.
- "step: 申请的业务水流个数" (`seqs.c:478`, how many numbers are asked for): two calls that are between
  the two sections of `seqs_loc_new_business_no` at once get overlapping ranges when one asks for
  more than one number. `RangesApart` is about the other calls.
- "今后的时间以new_date为计算起点" (`seqs.c:1024`, time goes on from the date that was locked): a locked
  date stands still, since the police process's change is refused because the date is locked
  (`pol_cycle.c:595`, `seqs.c:767-772`).
- The lock flag of the date is tested in one section and the date set in the next
  (`seqs.c:767-778`): a change that saw the flag clear changes a date locked meanwhile.
- "ALWAYS_RESTART: always restart process" (`incl_pub/procs.h:51`): the police process restarts only
  `LIMITED_RESTART` (`pol_cycle.c:330`); a manager that was stopped and started again has neither
  (`svc_pub.c:3784`) and is never restarted (`MgrGivenUp`).
- MSTARTSVR creates all workers of a server for each one that is gone (`svc_pub.c:2989`).
- A full system table refuses names that are already in it (`procs.c:405`): a manager can then
  not be stopped.
- A process that dies between `memzero` and the mark of a slot (`mtype.c:283-284`, `541-542`) leaves
  a flag no branch expects: every `mtype_new` whose scan comes there returns an error (`229`, `266`).
- A service that dies after a variable went to the overflow file (`shm_vars.c:2446`) and before it is
  written leaves variables nobody can load or destroy; the connection that waits for them is never
  closed (`tcpss.c:73-79`).
- Nothing restarts the police process (`pol_cycle.c:424-453`); without it the date stands still.
- Under steady traffic a worker that missed its stop command never looks at its manager
  (`svc_pub.c:1932-1945`, `procs.c:860`), and the manager waits for it.
- `tcpss_req_work` overwrites a connection's mtype with -1 before it deletes the session by it
  (`tcpss.c:713-728`): with fastclose the session stays until `MTYPE_TIMEOUT`.

### Fairness

- `SemLock`: a process in `sem_new_lock_id` goes on or dies; `semop` queues waiters, so a mutex
  that becomes free again and again is granted (strong fairness).
- `Mtype`: time passes; requests keep coming; functions run to their end; the mutex as above. Nothing
  obliges an owner to close its session.
- `MsgTrans`: senders run on, and the receiver's select loop looks at the pipe while it is
  readable. Nothing is assumed of calls or of removal.
- `LinkList`: time passes and the senders' timer passes every slot again and again (strong, since
  a slot's content may change between two passes). The other side need not answer.
- `Seqs`: while the police process lives its timer fires, its save succeeds infinitely often if tried
  infinitely often, and the head's lock is granted. Neither midnight nor a start of the switch is
  obliged to come, and nothing brings a dead police process back.
- `TcpSS`: time passes, the listener's handlers run to their end, and `cycle_run` calls the timeout
  handler in every round, so each connection is looked at again and again while the listener is
  between handlers (strong); the process's own memory to load variables is not refused for ever. No
  service has to answer or to write a file, no command has to be taken.
- `Supervise`: processes go on as long as they live; the manager's timer looks at every record again
  and again (strong, since commands come in between); the police timer fires. An abandoned worker
  has an idle second in the end if no task can be sent to it (its record does not name it as START or
  EXITING, `Served`). That others have one is not assumed: `StopEnds` has it as its hypothesis
  (`TasksCease`). Nor is it assumed that transactions of an exiting worker end or that commands arrive.

## 4. Proofs

Each module `XProofs` extends the model `X` (`SeqsProofs` both models of `seqs.c`) and proves its safety properties for every value of the
constants that satisfies the model's named assumptions, which are what the code guarantees: finite
sets of processes and names that differ, at least two semaphores and a positive `SEM_VALUE`, a pipe
at least as large as the queue, positive steps and a unit that is not empty, positive limits and
sizes, natural numbers for the bounds. The bounds on deaths, calls and requests are constants too, so
a theorem covers histories of any length. No theorem has a further
hypothesis; the histories in which a property does not hold are named in the property itself.

Every proof has the same outline: an inductive invariant that was first checked with TLC on the run's
instance, a lemma per action or group of actions, `InvStep` that collects them, and the theorems.

| Module | Theorems | Property |
|---|---|---|
| `SemLockProofs` | `TypeCorrect`, `Exclusion`, `Conserved`, `IdsUnique`, `CountMoves`, `Refinement` | `TypeOK`, `RWExclusion`, `Conservation`, `UniqueIds`, `CountGrows`, `ImplementsRWLock` |
| `MsgTransProofs` | `TypeCorrect`, `Covered`, `OneWaiting` | `TypeOK`, `TokenCover`, `OnePerMtype` |
| `MtypeProofs` | `TypeCorrect`, `OneOwner`, `VarsPrivate`, `CountClose`, `Fails` | `TypeOK`, `SessionOwned`, `VarsOwned`, `CountDrift`, `FailsWhenFull` |
| `MtypeLimitProofs` | `Limited` | `LimitHolds` |
| `LinkListProofs` | `TypeCorrect`, `PassedOnce`, `Fails`, `Kept`, `OldOnly` | `TypeOK`, `AnsweredOnce`, `FullWhenFails`, `NoneLost`, `OnlyOld` |
| `SeqsProofs`, of `Seqs` | `TypeCorrect`, `Unique` | `TypeOK`, `TraceUnique` |
| `SeqsProofs`, of `SeqsBusiness` | `BsnTypeCorrect`, `BsnUnique`, `BsnApart`, `Gapless` | `BsnTypeOK`, `NumbersUnique`, `RangesApart`, `NoneSkipped` |
| `TcpSSProofs` | `TypeCorrect`, `Ended`, `Untorn`, `OwnAnswers` | `TypeOK`, `NoLeak`, `Intact`, `AnswerOwn` |
| `SuperviseProofs` | `TypeCorrect`, `OneEach`, `Found` | `TypeOK`, `OneChild`, `Reachable` |

**SemLock.** Exclusion and conservation are not inductive: a crash adds `semadj` back, and nothing
in them says what `semadj` is. The inductive invariant `IInv` is

- `TypeOK`;
- `SpareKept`: semaphore 0, which no id names, keeps its value;
- `UndoExact`: a process's undo value is the weight of the section it is in, and for semaphore 1
  `SEM_VALUE` exactly while it is past the lock in `sem_new_lock_id`;
- `Accounts`, `MutexAccount`: the value of a semaphore in terms of its readers and writers (of the
  processes inside the id allocation), written so that no sum over processes is needed;
- `IdState`: the loaded count is current, and ids above `lock_cnt`, or stored and not yet returned,
  have not been issued.

`Invariance` proves it by one step per action; `TypeCorrect`, `Exclusion`, `Conserved`, `IdsUnique`
follow; `CountMoves` is the action property from the same invariant; `Refinement` maps `inside` to
`RWLock`'s `mode` and shows that each step is a step of `RWLock` or a stutter.

**MsgTrans.** `TokenCover` is preserved by every step given `TypeOK` and the size assumption: a
full pipe (`fifo = FifoMax`) already covers a queue of `QueueMax`, which is why losing a byte there
is harmless. `OnePerMtype` needs `Sessions`: a sender busy for a session without overlap is the
only one (`Busy`, `Alone`), and after its clearing the queue holds no message of the session
(`Cleared`, `Single`).

**Mtype.** `IInv` adds to `TypeOK` that whoever is between two writes of a section has the mutex
(`Mutex`) and that the slot it works on is marked as that place says, zeroed or not (`Marks`). Ownership needs one
thing more: a slot that is being given out has no owner (`Unowned`), unless a living owner was
overtaken. The counter is compared with the slots only while the mutex is free; inside a section it
is off by what the section has still to add or to subtract (`Pending`), and a death there turns that
one into a lasting difference, which `torn` counts. `Fails` is an action property: the scan starts
anywhere, and `Candidates` being empty for one start means it for all; a zeroed slot belongs to a
process in the section, or somebody died there (`Wiped`), and the scan has the mutex.

**MtypeLimit.** `LimitHolds` compares requests with the limit, the code compares the counter, and with
several processes each works on a value it has loaded. `Units` is what the counter should be: the
requests that wait, the processes in the middle of one that is counted (`Busies`), and the sessions of
the dead that will be subtracted when they are taken over (`Left`). It is above the counter by no
more than `Spare`: what was subtracted twice, the deaths, and the meetings that have done their harm;
of the processes at the counter now, all but one may still do theirs (`Pending`). The same bound holds
of the value each process has loaded, and whoever has compared leaves room for one more (`Room`).
Storing an outdated value and passing the comparison together with another process are then both
paid for by the meeting that made them possible.

**LinkList.** A key is found by its link alone. `IInv`: a slot that is not in use holds no link and
links are stored keys (`Links`), as are those a receiver has loaded (`Loaded`); nothing has happened
to keys that are not stored (`Fresh`); a key that was answered is in no slot (`Once`). That gives
`AnsweredOnce` for any number of senders and receivers. The timeout handlers work on slots and not on
links, over four steps without a lock, while other senders empty and fill the slot. `Working` says what
a handler finds there: an old call, nothing, or a link that was stored while some handler was at work
on the slot (`hit`). With it `NoneLost` and `OnlyOld` are inductive (`TInv`), for any number of
senders; the run `linklist_twice` shows another consequence of several of them, which the comment at
`lsn_comm.c:986` expects (MQ).

**SeqsBusiness.** `NumbersUnique` says that a flag is down, which is not inductive. The invariant
`BsnInv` says why: within a lap the unit only moves up, so a number that is drawn lies below `trn_base`
(`Drawn`) and a range that is paid for ends below it (`Paid`); numbers drawn and not yet returned
differ from each other and from those returned (`DrawnApart`, `DrawnNew`). For the ranges, a call
that is alone is the only one between the sections (`AloneOnly`), began after every range paid for
(`AloneAfter`), and whoever draws later begins after its range (`AloneBefore`). A wrap or a set
begins a new lap, in which nothing is drawn or paid for (`LapInv`); the second section adds
`step - 1` to a unit already past the number, which is what `Paid` needs (`AdjustInv`). `Gapless`
has an invariant of its own, `Whole`: the numbers of a lap that are returned, with a call or lost with
a service that died (`Out`) are exactly those from the lap's first up to `trn_base`. A death after the
restore (`DieRestored`) puts the unit back to the number the dead call had drawn, if it was alone
(`AloneTop`); otherwise `torn` is raised, and the invariant is about the histories before.

**Seqs.** The windows only open, so the invariant has to speak of histories without one (`Good`).
Then the numbers of the system date that were given out or drawn are below the next number (`Below`)
and distinct (`Apart`), and between the two halves of a change of date the new date has no number at
all (`Changing`), which is why the unit may start again. A crash loses the memory; what carries the
claim over it is `Saved`: no number of the date in the file lies more than `fresh` above the number in
the file, and neither does the next number if the date is still the same. A restart skips `TRACE_INC`,
or nothing after a stop, and opens a window if `fresh` is more. `Known` (every date in use was seen)
makes a new date one without numbers.

**TcpSS.** The type invariant `IInv` has one conjunct per variable (`LinkOK` ... `RestOK`), with
sharper sets than `TypeOK`: only a waiting connection has a session, a handler under way has one.
`NoLeak` is strengthened to `Tended`: the connection or handler that has the session is one that will
end it (`Ending`), and not just one that names it; `Left` says what a handler has done to its
connection before. `Intact` and `AnswerOwn` are about histories in which no request was late and no
window was hit (`Calm`). There, for each session, `Good` holds: the request is in one place, in a
handler, in a queue or with a service (`Single`); slot and command are of the request that drew the
session (`Drawn`); the waiting connection has session and variables (`Joined`); and the stack of
callers leads through services to the listener of that connection (`Homed`). The proof goes session
by session: an action changes `Good` of one session, and `Untouched` keeps it for the others.

**Supervise.** `OneChild` compares processes, the manager compares records, and a process that was
just started is in no record. What keeps the manager from starting it twice is time: the record of
such a name is younger than `MIN_RESTART_TIME`, and so is the copy in `scan` if the manager is
looking at that name (`Pending`). A process that has begun is the one its record names (`Recorded`),
unless an older copy was written over it (`over`); then that copy was young, what was written gives
the worker up, and the manager does not fork for it either (`Known`). That is why `OneChild` holds
through overwritten records and only `Reachable` excepts them. The first processes of a manager are
the only ones since a manager that is down or starts has no child (`Left`: those of the one before are
orphans); records of an earlier run are those of `old`, and a name whose record is one when the scans
begin is in `early` (`Begun`). All this is claimed of histories in which no command started further
processes and no orphan registered (`Plain`); the types, `Left` and `Begun` hold in all. That a
worker's process number is free is not needed: it is enough that `Fork` gives each child one number.
The one assumption besides natural bounds is that no worker has the name `"none"`
(`NameAssumption`).

Only model-checked: the liveness properties (`MutexServed`, `LeakReclaimed`, `Delivered`, `Ends`,
`DateFollows`, `Closes`, `Recovers`, `StopEnds`), since the prover has no `ENABLED` and no fairness.
Every other property of a passing run is proved. `TimeoutOnce` and `StopHolds` are what comments
claim and the code does not do; their runs show the counterexamples.

## 5. Not modelled

The setters of session fields; the descriptor table of `msg_trans.c`; the incoming direction,
database and ares variants of the link table; `SEQ_CYCLE_DB_GET` units; `sem_lock_remove`; the
choice of a process within a server with its busy flags and task counts (`procs_get_dst_proc`, of
which `Supervise` has only who may be chosen); the read and write of `pol_scan_proc_table` as separate
steps; the
supervision of listeners (`lsn_handle_timeout`, the same logic as for workers); the components
marked so in `PROJECT.json`, with reasons. Statistics that nothing reads back (`msg_cnt`,
`succ_cnt`, `fail_cnt`) are left out.

Places met while modelling that are hard to test, and that no module reaches: ids of locks used up
by listeners that restart (`lsn_cycle.c:94`); `procs_svr_alloc` returning with the write lock held
when no id is left (`procs.c:218`); two requests that choose the same idle process (`procs.c:892`),
and requests given to a process that is exiting (`procs.c:861`); a second manager that binds the
command socket before it finds the first one alive (`svc_cycle.c:32`); the index past the end of
`arrFdKeys` (`msg_trans.c:139`).

The models stand for a small share of the repository's lines. Most of the rest is vendored (soap,
json), formats and packing driven by configuration, the monitoring agent's handlers, protocol
plugins with the same cycle as the listeners above, and command line tools: sequential code
without shared state, for which a model would repeat the program.

## 6. Plan

In this order; every module written for TLC first, with its inductive invariant checked before it
is proved.

1. `ProcsDst`: the choice of a process, busy flags and task counts under a reader lock.
2. `LinkList`, incoming direction and packages that keep their link.
3. An abstract specification of a request's way (answered at most once, to the connection it came
   from) that `TcpSS` implements while nothing is late.
4. `Trace`, `Job`, `ShmSlab`, `ThreadPool`.
5. Proofs for `ProcsDst` and the refinement of 3, step by step from the invariant of `TcpSSProofs`.
