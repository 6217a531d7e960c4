------------------------------- MODULE TcpSS -------------------------------
(***************************************************************************)
(* A request's way through the switch: lsn/tcp/tcpss.c, the listener for   *)
(* short TCP links, core/pub_route.c, the routing of commands, and         *)
(* svc_deal_task of svc/svc_pub.c, the services.                           *)
(*                                                                         *)
(* The listener draws a session (mtype) for a request, puts the request    *)
(* into the session's variables in shared memory and sends a command to a  *)
(* service; the services may call each other and the answer comes back to  *)
(* the listener, which writes it to the connection and ends the session.   *)
(* The stack of callers is one of the session's variables.  The listener   *)
(* ends a session on its own when the answer is late; commands under way   *)
(* are not called back, and nobody who gets one compares its trace number  *)
(* with the session's.                                                     *)
(*                                                                         *)
(* A listener process does one thing at a time (cycle_run), but other      *)
(* processes run between its changes of shared memory: pc.  The session    *)
(* table is reduced to what Mtype shows of it, a queue to what MsgTrans    *)
(* shows: a command replaces one of the same mtype.  Requests are numbered *)
(* (trace_no) in the order in which they draw their session.               *)
(*                                                                         *)
(* Variables that outgrow the shared memory go to a file (core/shm_vars.c):*)
(* fflag says so at once, the file is written with the next command that   *)
(* is sent (vars_sync).  Without the file nobody can load the variables,   *)
(* not even to destroy them; a file once written is emptied, not removed.  *)
(***************************************************************************)
EXTENDS Integers, Sequences, FiniteSets

CONSTANTS Lsn,         \* listener processes
          FastLsn,     \* those with fastclose
          Svc,         \* service processes, each the only one of its server
          ConMax,      \* lsn_conf.conmax
          MtypeMax,    \* usable sessions
          SW_MAX_CMD,  \* frames in a stack
          MaxReq       \* bound: requests

ASSUME ProcAssumption == Lsn \cap Svc = {} /\ FastLsn \subseteq Lsn
ASSUME SizeAssumption == {ConMax, MtypeMax, SW_MAX_CMD, MaxReq} \subseteq Nat \ {0}

VARIABLES link,        \* cycle->link_info: use, mtype and trace_no, by index
          pc,          \* where a listener process is in a handler
          slot,        \* the session table: in use, and who drew the session last
          pool,        \* the variables of a session: whose they are, the stack
          file,        \* the file of a session's variables: none, missing though
                       \* fflag is set, or there
          queue,       \* the commands waiting for a process
          work,        \* the command a service is at work on
          n,           \* requests so far
          late,        \* requests older than the listener's timeout
          mixed,       \* a connection got an answer that is not to its request
          torn,        \* a session was drawn between two steps that end it, or
                       \* deleted while its connection waits
          lost         \* requests whose session the listener left behind

ghost == <<late, mixed, torn, lost>>
vars == <<link, pc, slot, pool, file, queue, work, n, ghost>>

Index == 1 .. ConMax
Mtypes == 1 .. MtypeMax
Req == 1 .. MaxReq
Closed == [use |-> 0, m |-> 0, r |-> 0]
Idle == [at |-> "idle", i |-> 0, m |-> 0, r |-> 0]
Empty == [r |-> 0, stack |-> <<>>]
NoCmd == [m |-> 0, r |-> 0, type |-> "none"]
Cmd == [m : Mtypes, r : Req,
        type : {"TASKREQ", "TASKRES", "CALLREQ", "CALLRES", "LINKREQ", "LINKNULL", "over"}]
Frame == [ori : Lsn \cup Svc, type : {"TASKREQ", "CALLREQ"}]

TypeOK ==
    /\ link \in [Lsn -> [Index -> [use : 0 .. 3, m : {0} \cup Mtypes, r : {0} \cup Req]]]
    /\ pc \in [Lsn -> [at : {"idle", "fill", "send", "undo", "drop", "destroy", "delete",
                             "null_destroy", "null_delete", "expire"},
                       i : {0} \cup Index, m : {0} \cup Mtypes, r : {0} \cup Req]]
    /\ slot \in [Mtypes -> [used : BOOLEAN, r : {0} \cup Req]]
    /\ \A m \in Mtypes : /\ pool[m].r \in {0} \cup Req
                         /\ Len(pool[m].stack) <= SW_MAX_CMD
                         /\ \A k \in DOMAIN pool[m].stack : pool[m].stack[k] \in Frame
    /\ file \in [Mtypes -> {"none", "missing", "there"}]
    /\ queue \in [Lsn \cup Svc -> SUBSET Cmd]
    /\ work \in [Svc -> Cmd \cup {NoCmd}]
    /\ n \in 0 .. MaxReq /\ late \subseteq Req /\ lost \subseteq Req
    /\ mixed \in BOOLEAN /\ torn \in BOOLEAN

-----------------------------------------------------------------------------
Init == /\ link = [l \in Lsn |-> [i \in Index |-> Closed]]
        /\ pc = [l \in Lsn |-> Idle]
        /\ slot = [m \in Mtypes |-> [used |-> FALSE, r |-> 0]]
        /\ pool = [m \in Mtypes |-> Empty] /\ file = [m \in Mtypes |-> "none"]
        /\ queue = [p \in Lsn \cup Svc |-> {}]
        /\ work = [s \in Svc |-> NoCmd]
        /\ n = 0 /\ late = {} /\ mixed = FALSE /\ torn = FALSE /\ lost = {}

Goto(l, at) == pc' = [pc EXCEPT ![l].at = at]
Return(l) == pc' = [pc EXCEPT ![l] = Idle]

\* lsn_pub_close_fd
Close(l, i) == link' = [link EXCEPT ![l][i] = Closed]

\* vars_exp_load
Loads(m) == file[m] # "missing"

\* pub_vars_destroy_by_mtype, which has to load the variables first.
Clean(m) == pool' = IF Loads(m) THEN [pool EXCEPT ![m] = Empty] ELSE pool

\* mtype_delete: nothing, unless the slot is in use.
Delete(m) == /\ slot' = [slot EXCEPT ![m].used = FALSE]
             /\ IF slot[m].used THEN Clean(m) ELSE UNCHANGED pool

\* locvar.destroy: the memory is zeroed, and fflag with it, whoever uses it.
Destroy(m) == /\ pool' = [pool EXCEPT ![m] = Empty]
              /\ file' = IF Loads(m) THEN file ELSE [file EXCEPT ![m] = "none"]

\* A variable is set for which there is no memory.
Overflow(m) == file' = IF file[m] = "none" THEN [file EXCEPT ![m] = "missing"] ELSE file

\* serialize writes the file, or fails, which nobody looks at.
Serialize(m) == \/ UNCHANGED file
                \/ ~Loads(m) /\ file' = [file EXCEPT ![m] = "there"]

\* msg_trans_send
Sent(q, c) == {d \in q : d.m # c.m} \cup {c}

-----------------------------------------------------------------------------
(* Connections *)

\* tcpss_accept, with a free entry of link_info (without one the connection
\* is closed at once).
Accept(l, i) ==
    /\ pc[l].at = "idle" /\ link[l][i].use = 0
    /\ link' = [link EXCEPT ![l][i] = [Closed EXCEPT !.use = 1]]
    /\ UNCHANGED <<pc, slot, pool, file, queue, work, n, ghost>>

\* tcpss_req_work, the connection is gone or sends what cannot be received.
\* While its request is at work, a connection with fastclose is closed (and
\* mtype_delete called with the mtype that was just overwritten with -1),
\* another is closed when its answer is there.
HangUp(l, i) ==
    /\ pc[l].at = "idle" /\ link[l][i].use \in {1, 2}
    /\ IF link[l][i].use = 2 /\ l \notin FastLsn
       THEN link' = [link EXCEPT ![l][i].use = 3]
       ELSE Close(l, i)
    /\ lost' = IF link[l][i].use = 2 /\ l \in FastLsn THEN lost \cup {link[l][i].r} ELSE lost
    /\ UNCHANGED <<pc, slot, pool, file, queue, work, n, late, mixed, torn>>

-----------------------------------------------------------------------------
(* A request, tcpss_deal_req *)

\* mtype_new.  The connection may still wait for the answer to a request
\* before this one.
ReqNew(l, i, m) ==
    /\ pc[l].at = "idle" /\ link[l][i].use \in {1, 2}
    /\ n < MaxReq /\ ~slot[m].used
    /\ n' = n + 1
    /\ slot' = [slot EXCEPT ![m] = [used |-> TRUE, r |-> n + 1]]
    /\ Clean(m)
    /\ pc' = [pc EXCEPT ![l] = [at |-> "fill", i |-> i, m |-> m, r |-> n + 1]]
    /\ torn' = (torn \/ \E k \in Lsn : /\ pc[k].m = m
                                       /\ pc[k].at \in {"undo", "null_destroy", "null_delete"})
    /\ lost' = lost \cup ({link[l][i].r} \ {0})
    /\ UNCHANGED <<link, file, queue, work, late, mixed>>

\* mtype_new fails.
ReqNoSlot(l, i) ==
    /\ pc[l].at = "idle" /\ link[l][i].use \in {1, 2}
    /\ n < MaxReq /\ \A m \in Mtypes : slot[m].used
    /\ Close(l, i)
    /\ lost' = lost \cup ({link[l][i].r} \ {0})
    /\ UNCHANGED <<pc, slot, pool, file, queue, work, n, late, mixed, torn>>

\* locvar.create, and the request is unpacked.
ReqFill(l) ==
    /\ pc[l].at = "fill" /\ Loads(pc[l].m)
    /\ pool' = [pool EXCEPT ![pc[l].m] = [Empty EXCEPT !.r = pc[l].r]]
    /\ Overflow(pc[l].m) \/ UNCHANGED file
    /\ Goto(l, "send")
    /\ UNCHANGED <<link, slot, queue, work, n, ghost>>

\* locvar.create fails, or the encryption of a refusal: the connection is
\* closed, the session is left.
ReqLeave(l) ==
    /\ pc[l].at \in {"fill", "send"}
    /\ Close(l, pc[l].i)
    /\ lost' = lost \cup {pc[l].r}
    /\ Return(l)
    /\ UNCHANGED <<slot, pool, file, queue, work, n, late, mixed, torn>>

\* Mutant: the session is not deleted when the request fails.
ReqFailKept(l) ==
    /\ pc[l].at = "send"
    /\ Goto(l, "undo")
    /\ UNCHANGED <<link, slot, pool, file, queue, work, n, ghost>>

\* The request fails: decryption, unpacking, its file, the maps, the number,
\* the trace, a closed gate, or route_snd_dst.  The session is deleted ...
ReqFail(l) ==
    /\ pc[l].at = "send"
    /\ Delete(pc[l].m)
    /\ Goto(l, "undo")
    /\ UNCHANGED <<link, file, queue, work, n, ghost>>

\* ... then its variables are destroyed, and tcpss_req_work closes the
\* connection.
ReqUndo(l) ==
    /\ pc[l].at = "undo"
    /\ Destroy(pc[l].m)
    /\ Close(l, pc[l].i)
    /\ Return(l)
    /\ UNCHANGED <<slot, queue, work, n, ghost>>

\* Mutant: lsn_get_route fails, in the order of the other errors.
ReqNoRouteSwap(l) ==
    /\ pc[l].at = "send"
    /\ Delete(pc[l].m)
    /\ Goto(l, "drop")
    /\ UNCHANGED <<link, file, queue, work, n, ghost>>

\* lsn_get_route fails: the other way round.
ReqNoRoute(l) ==
    /\ pc[l].at = "send"
    /\ Destroy(pc[l].m)
    /\ Goto(l, "drop")
    /\ UNCHANGED <<link, slot, queue, work, n, ghost>>

ReqDrop(l) ==
    /\ pc[l].at = "drop"
    /\ Delete(pc[l].m)
    /\ Close(l, pc[l].i)
    /\ Return(l)
    /\ UNCHANGED <<file, queue, work, n, ghost>>

\* route_add_cmd
Push(m, f) == pool' = [pool EXCEPT ![m].stack = Append(@, f)]

\* The request is sent to its service, with the listener at the bottom of
\* the stack, and the connection waits.
ReqSend(l, s) ==
    /\ pc[l].at = "send"
    /\ Len(pool[pc[l].m].stack) < SW_MAX_CMD
    /\ Push(pc[l].m, [ori |-> l, type |-> "TASKREQ"])
    /\ Serialize(pc[l].m)
    /\ queue' = [queue EXCEPT ![s] = Sent(@, [m |-> pc[l].m, r |-> pc[l].r, type |-> "TASKREQ"])]
    /\ link' = [link EXCEPT ![l][pc[l].i] = [use |-> 2, m |-> pc[l].m, r |-> pc[l].r]]
    /\ Return(l)
    /\ UNCHANGED <<slot, work, n, ghost>>

-----------------------------------------------------------------------------
(* A service, svc_deal_task *)

\* A late request is answered at once; so is a command svc_preanalyze_cmd
\* does not know (the caller's, when a called service ends with LINKNULL).
Taken(c) == IF \/ c.type = "TASKREQ" /\ slot[c.m].r \in late
               \/ c.type = "LINKNULL"
            THEN [c EXCEPT !.type = "over"] ELSE c

Take(s, c) ==
    /\ work[s] = NoCmd /\ Loads(c.m)
    /\ work' = [work EXCEPT ![s] = Taken(c)]
    /\ queue' = [queue EXCEPT ![s] = @ \ {c}]
    /\ UNCHANGED <<link, pc, slot, pool, file, n, ghost>>

\* The variables cannot be loaded: the command is gone.
TakeFails(s, c) ==
    /\ work[s] = NoCmd /\ ~Loads(c.m)
    /\ queue' = [queue EXCEPT ![s] = @ \ {c}]
    /\ UNCHANGED <<link, pc, slot, pool, file, work, n, ghost>>

\* The flow sets a variable for which there is no memory.
Grow(s) ==
    /\ work[s].type \notin {"none", "over"} /\ file[work[s].m] = "none"
    /\ Overflow(work[s].m)
    /\ UNCHANGED <<link, pc, slot, pool, queue, work, n, ghost>>

Top(m) == pool[m].stack[Len(pool[m].stack)]
Pop(m) == pool' = [pool EXCEPT ![m].stack = SubSeq(@, 1, Len(@) - 1)]

\* route_cmd_tpye_change; LINKNULL stays as it is.
ResType(f, null) == IF null THEN "LINKNULL"
                    ELSE IF f.type = "TASKREQ" THEN "TASKRES" ELSE "CALLRES"

\* The flow ends, in success or in error, and route_snd_dst sends the answer
\* to the caller on top of the stack (route_recov_cmd).
Answer(s, null) ==
    LET c == work[s]
        f == Top(c.m)
    IN  /\ c # NoCmd /\ pool[c.m].stack # <<>>
        /\ null => c.type # "over"
        /\ Pop(c.m) /\ Serialize(c.m)
        /\ queue' = [queue EXCEPT ![f.ori] = Sent(@, [c EXCEPT !.type = ResType(f, null)])]
        /\ work' = [work EXCEPT ![s] = NoCmd]
        /\ UNCHANGED <<link, pc, slot, n, ghost>>

\* Mutant: route_add_cmd does not look at the stack's limit.
CallDeep(s, t) ==
    LET c == work[s]
    IN  /\ c.type \notin {"none", "over"}
        /\ Push(c.m, [ori |-> s, type |-> "CALLREQ"]) /\ Serialize(c.m)
        /\ queue' = [queue EXCEPT ![t] = Sent(@, [c EXCEPT !.type = "CALLREQ"])]
        /\ work' = [work EXCEPT ![s] = NoCmd]
        /\ UNCHANGED <<link, pc, slot, n, ghost>>

\* flow_call: the flow is left, its place remembered, t called.
Call(s, t) ==
    LET c == work[s]
    IN  /\ c.type \notin {"none", "over"} /\ Len(pool[c.m].stack) < SW_MAX_CMD
        /\ Push(c.m, [ori |-> s, type |-> "CALLREQ"]) /\ Serialize(c.m)
        /\ queue' = [queue EXCEPT ![t] = Sent(@, [c EXCEPT !.type = "CALLREQ"])]
        /\ work' = [work EXCEPT ![s] = NoCmd]
        /\ UNCHANGED <<link, pc, slot, n, ghost>>

\* flow_link: t goes on in the place of s.
Link(s, t) ==
    LET c == work[s]
    IN  /\ c.type \notin {"none", "over"}
        /\ Serialize(c.m)
        /\ queue' = [queue EXCEPT ![t] = Sent(@, [c EXCEPT !.type = "LINKREQ"])]
        /\ work' = [work EXCEPT ![s] = NoCmd]
        /\ UNCHANGED <<link, pc, slot, pool, n, ghost>>

\* Nothing is sent: the stack is empty or full, the destination is down or its queue is full (the frame may be gone
\* by then), or the service dies.  The variables are not written to their
\* file.
Lose(s) ==
    /\ work[s] # NoCmd
    /\ work' = [work EXCEPT ![s] = NoCmd]
    /\ \/ UNCHANGED pool
       \/ pool[work[s].m].stack # <<>> /\ Pop(work[s].m)
    /\ UNCHANGED <<link, pc, slot, file, queue, n, ghost>>

-----------------------------------------------------------------------------
(* The answer, tcpss_interevt *)

\* Mutant: the connection is not looked for by its mtype.
WaitingFirst(l, m) == {i \in Index : /\ link[l][i].use > 0
                                     /\ \A k \in 1 .. i - 1 : link[l][k].use = 0}

\* lsn_find_index_by_mtype
Waiting(l, m) == {i \in Index : /\ link[l][i].use > 0 /\ link[l][i].m = m
                                /\ \A k \in 1 .. i - 1 : link[l][k].m # m}

Receive(l, c, at) == /\ pc[l].at = "idle" /\ c \in queue[l]
                     /\ queue' = [queue EXCEPT ![l] = @ \ {c}]
                     /\ pc' = [pc EXCEPT ![l] = [at |-> at, i |-> 0, m |-> c.m, r |-> c.r]]

\* tcpss_res_work: the variables are packed and written to the connection,
\* which is closed in every case.
Res(l, c) ==
    /\ c.type = "TASKRES" /\ Loads(c.m) /\ Receive(l, c, "destroy")
    /\ link' = [link EXCEPT ![l] = [i \in Index |-> IF i \in Waiting(l, c.m) THEN Closed ELSE @[i]]]
    /\ mixed' = (mixed \/ \E i \in Waiting(l, c.m) : {link[l][i].r} # {c.r, pool[c.m].r})
    /\ UNCHANGED <<slot, pool, file, work, n, late, torn, lost>>

\* tcpss_deal_linknull: no answer; the session is deleted a first time, if
\* there is a connection.
LinkNull(l, c) ==
    /\ c.type = "LINKNULL" /\ Loads(c.m)
    /\ Receive(l, c, IF Waiting(l, c.m) # {} THEN "null_destroy" ELSE "destroy")
    /\ link' = [link EXCEPT ![l] = [i \in Index |-> IF i \in Waiting(l, c.m) THEN Closed ELSE @[i]]]
    /\ IF Waiting(l, c.m) # {} THEN Delete(c.m) ELSE UNCHANGED <<slot, pool>>
    /\ UNCHANGED <<file, work, n, ghost>>

\* The variables cannot be loaded (their file, or this process's memory):
\* only the session is deleted, the connection waits for its timeout.
NoVars(l, c) ==
    /\ Receive(l, c, "delete")
    /\ torn' = (torn \/ Waiting(l, c.m) # {})
    /\ UNCHANGED <<link, slot, pool, file, work, n, late, mixed, lost>>

DestroyVars(l) ==
    /\ pc[l].at \in {"destroy", "null_destroy"}
    /\ Destroy(pc[l].m)
    /\ Goto(l, IF pc[l].at = "destroy" THEN "delete" ELSE "null_delete")
    /\ UNCHANGED <<link, slot, queue, work, n, ghost>>

DeleteSession(l) ==
    /\ pc[l].at \in {"delete", "null_delete"}
    /\ Delete(pc[l].m)
    /\ Return(l)
    /\ UNCHANGED <<link, file, queue, work, n, ghost>>

-----------------------------------------------------------------------------
(* The timeout, tcpss_timeoutevt *)

\* Time passes.
Age(r) == /\ r \in 1 .. n /\ r \notin late
          /\ late' = late \cup {r}
          /\ UNCHANGED <<link, pc, slot, pool, file, queue, work, n, mixed, torn, lost>>

\* A connection without a request.
TimeoutAccepted(l, i) ==
    /\ pc[l].at = "idle" /\ link[l][i].use = 1
    /\ Close(l, i)
    /\ UNCHANGED <<pc, slot, pool, file, queue, work, n, ghost>>

\* Mutant: a connection the client has left (use 3) is not looked at.
TimeoutOpen(l, i) ==
    /\ pc[l].at = "idle" /\ link[l][i].use = 2 /\ link[l][i].r \in late
    /\ Loads(link[l][i].m) /\ Destroy(link[l][i].m)
    /\ pc' = [pc EXCEPT ![l] = [at |-> "expire", i |-> i, m |-> link[l][i].m, r |-> link[l][i].r]]
    /\ UNCHANGED <<link, slot, queue, work, n, ghost>>

\* The variables are loaded and destroyed; when they cannot be loaded nothing
\* is done, and the connection is looked at again the next time ...
Timeout(l, i) ==
    /\ pc[l].at = "idle" /\ link[l][i].use \in {2, 3} /\ link[l][i].r \in late
    /\ Loads(link[l][i].m) /\ Destroy(link[l][i].m)
    /\ pc' = [pc EXCEPT ![l] = [at |-> "expire", i |-> i, m |-> link[l][i].m, r |-> link[l][i].r]]
    /\ UNCHANGED <<link, slot, queue, work, n, ghost>>

\* ... the session is deleted and the connection closed.
Expire(l) ==
    /\ pc[l].at = "expire"
    /\ Delete(pc[l].m)
    /\ Close(l, pc[l].i)
    /\ Return(l)
    /\ UNCHANGED <<file, queue, work, n, ghost>>

-----------------------------------------------------------------------------
LsnStep(l) == \/ ReqFill(l) \/ ReqLeave(l) \/ ReqFail(l) \/ ReqUndo(l)
              \/ ReqNoRoute(l) \/ ReqDrop(l) \/ (\E s \in Svc : ReqSend(l, s))
              \/ DestroyVars(l) \/ DeleteSession(l) \/ Expire(l)
Next == \/ \E l \in Lsn : \/ \E i \in Index : \/ Accept(l, i) \/ HangUp(l, i) \/ ReqNoSlot(l, i)
                                              \/ TimeoutAccepted(l, i) \/ Timeout(l, i)
                                              \/ \E m \in Mtypes : ReqNew(l, i, m)
                          \/ \E c \in queue[l] : Res(l, c) \/ LinkNull(l, c) \/ NoVars(l, c)
                          \/ LsnStep(l)
        \/ \E s \in Svc : \/ \E c \in queue[s] : Take(s, c) \/ TakeFails(s, c)
                          \/ \E null \in BOOLEAN : Answer(s, null)
                          \/ \E t \in Svc : Call(s, t) \/ Link(s, t)
                          \/ Grow(s) \/ Lose(s)
        \/ \E r \in Req : Age(r)

\* Time passes, handlers run to their end, and cycle_run calls the timeout
\* handler in every round; memory to load the variables is not refused for
\* ever (tcpss.c 61-66).  Nothing obliges a service to answer, or to write
\* the variables' file.
Fairness == /\ \A r \in Req : WF_vars(Age(r))
            /\ \A l \in Lsn : /\ WF_vars(LsnStep(l))
                              /\ \A i \in Index : SF_vars(Timeout(l, i) \/ TimeoutAccepted(l, i))

Spec == Init /\ [][Next]_vars
FairSpec == Spec /\ Fairness
-----------------------------------------------------------------------------
\* A waiting connection's session is its own, and so are the variables, as
\* long as no request outlives its timeout and the listener stays out of its
\* own windows (torn): a session deleted before its variables are destroyed
\* (tcpss.c 450-451) or deleted twice (282 and 392), and drawn again in
\* between; a session deleted without its connection (337).
Intact == late = {} /\ ~torn =>
            \A l \in Lsn : \A i \in Index : LET k == link[l][i] IN
              k.use \in {2, 3} => slot[k.m] = [used |-> TRUE, r |-> k.r] /\ pool[k.m].r = k.r

\* ... and it gets no answer but that to its own request.
AnswerOwn == mixed => late # {} \/ torn

\* A session in use has somebody who will end it, a connection or a handler,
\* whatever becomes of the command that was sent; but for the sessions the
\* listener left: variables that could not be created (tcpss.c:435), a refusal
\* that could not be encrypted (564), a connection that was closed fast (720)
\* or that sent a second request.
NoLeak == \A m \in Mtypes : slot[m].used /\ slot[m].r \notin lost =>
            \E l \in Lsn : pc[l].m = m \/ \E i \in Index : link[l][i].m = m

\* Every connection is closed in the end, whatever becomes of its request and
\* of the services, unless its client keeps sending (MaxReq bounds that).  One
\* case is left, in which the timeout fails in every round (tcpss.c 73-79): the
\* variables' fflag stays set and their file was never written, since the
\* service died or could not send (shm_vars.c 2446, 2651).
Unloadable(l, i) == link[l][i].use \in {2, 3} /\ ~Loads(link[l][i].m)
Closes == \A l \in Lsn : \A i \in Index :
            \/ link[l][i].use > 0 ~> link[l][i].use = 0
            \/ <>[]Unloadable(l, i)
=============================================================================
