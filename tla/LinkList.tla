------------------------------ MODULE LinkList ------------------------------
(***************************************************************************)
(* The link table of an asynchronous listener, lsn/comm/lsn_comm.c.  A     *)
(* request that goes out leaves a link (its key and its session, mtype) in *)
(* shared memory; the process that receives the answer finds the session   *)
(* by the key.  Links whose answer does not come are ended with an error   *)
(* by the sending processes.  Saving and deleting take the table's write   *)
(* lock, looking up and marking a timeout do not.                          *)
(*                                                                         *)
(* The direction of requests going out (O_SEND), in the local table (not   *)
(* in the database or the ares store), answered by a package that clears   *)
(* its link (clearflag 1, resflag 0).  Keys are unique and stand for their *)
(* link: link n is the n-th key stored.                                    *)
(***************************************************************************)
EXTENDS Integers, FiniteSets

CONSTANTS Sender,      \* processes that send requests and watch the timeouts
          Receiver,    \* processes that receive answers
          Mtypes,      \* sessions
          Calls,       \* those whose request is a SW_CALLLSNREQ
          LinkCnt,     \* head.link_cnt
          MaxSave      \* bound: keys stored

ASSUME ProcAssumption == Sender \cap Receiver = {}
ASSUME CallAssumption == Calls \subseteq Mtypes
ASSUME CntAssumption == LinkCnt \in Nat /\ LinkCnt > 0 /\ MaxSave \in Nat

VARIABLES slot,        \* list[i]: use, and the link in it (0 after memset)
          cur_pos,     \* head.cur_pos
          mt,          \* the session of each link saved so far
          old,         \* links past their timeout
          pc,          \* where a process is, its slot and its link
          ended,       \* how links ended: answered, withdrawn or replaced
          answered,    \* answers passed on, for each link
          expired,     \* timeout errors raised, for each link
          hit          \* links stored where a sender was at work on a timeout

vars == <<slot, cur_pos, mt, old, pc, ended, answered, expired, hit>>

Index == 0 .. LinkCnt - 1
Link == 1 .. MaxSave
Saved == DOMAIN mt
Empty == [use |-> 0, link |-> 0]
Idle == [at |-> "idle", i |-> 0, link |-> 0]

\* Slot i holds a link of the session t.
Holds(i, t) == slot[i].use >= 1 /\ slot[i].link # 0 /\ mt[slot[i].link] = t
First(i, t) == Holds(i, t) /\ (\A j \in 0 .. i - 1 : ~Holds(j, t))

Present(n) == \E i \in Index : slot[i].use >= 1 /\ slot[i].link = n

TypeOK == /\ slot \in [Index -> [use : 0 .. 2, link : 0 .. MaxSave]]
          /\ \A i, j \in Index : i # j /\ slot[i].link # 0 => slot[i].link # slot[j].link
          /\ cur_pos \in 0 .. LinkCnt
          /\ \E k \in 0 .. MaxSave : mt \in [1 .. k -> Mtypes]
          /\ old \subseteq Saved /\ ended \subseteq Saved /\ hit \subseteq Saved
          /\ pc \in [Sender \cup Receiver ->
                       [at : {"idle", "full", "seen", "marked", "raised", "loaded"},
                        i : Index, link : 0 .. MaxSave]]
          /\ answered \in [Link -> Nat] /\ expired \in [Link -> Nat]

-----------------------------------------------------------------------------
Init == /\ slot = [i \in Index |-> Empty] /\ cur_pos = 0
        /\ mt = <<>> /\ old = {} /\ ended = {} /\ hit = {}
        /\ pc = [p \in Sender \cup Receiver |-> Idle]
        /\ answered = [n \in Link |-> 0] /\ expired = [n \in Link |-> 0]

Goto(p, r) == pc' = [pc EXCEPT ![p] = r]
\* The next key, stored for the session t.
New == Cardinality(Saved) + 1
Store(t) == /\ New <= MaxSave
            /\ mt' = [n \in 1 .. New |-> IF n = New THEN t ELSE mt[n]]

\* Slot i is one a sender has looked at (971) and is not through with.
AtWork(i) == \E p \in Sender : pc[p].at \in {"seen", "marked", "raised"} /\ pc[p].i = i
StoredAt(i) == hit' = IF AtWork(i) THEN hit \cup {New} ELSE hit

\* A slot lsn_save_linkinfo may take: free, or left over from an earlier
\* request of the same session.
Fits(i, t) == \/ slot[i].use = 0
              \/ slot[i].use = 1 /\ Holds(i, t)

\* Mutant: the search ends at the end of the table.
CandidatesNoWrap(t) == {i \in cur_pos .. LinkCnt - 1 : Fits(i, t)}

\* From cur_pos to the end, then from the beginning.
Candidates(t) == LET ahead == {i \in cur_pos .. LinkCnt - 1 : Fits(i, t)}
                 IN  IF ahead # {} THEN ahead ELSE {i \in 0 .. cur_pos - 1 : Fits(i, t)}

\* Mutant: cur_pos is moved on twice.
SaveSkips(p, t) ==
    /\ pc[p].at = "idle" /\ Store(t)
    /\ \E i \in Candidates(t) :
         /\ \A j \in Candidates(t) : i <= j
         /\ slot' = [slot EXCEPT ![i] = [use |-> 1, link |-> New]]
         /\ cur_pos' = i + 2
         /\ ended' = ended \cup ({slot[i].link} \ {0})
         /\ StoredAt(i)
    /\ UNCHANGED <<old, pc, answered, expired>>

\* lsn_save_linkinfo, under the write lock.
Save(p, t) ==
    /\ pc[p].at = "idle" /\ Store(t)
    /\ \E i \in Candidates(t) :
         /\ \A j \in Candidates(t) : i <= j
         /\ slot' = [slot EXCEPT ![i] = [use |-> 1, link |-> New]]
         /\ cur_pos' = i + 1
         /\ ended' = ended \cup ({slot[i].link} \ {0})
         /\ StoredAt(i)
    /\ UNCHANGED <<old, pc, answered, expired>>

\* No slot: "No enough space!", an error to the caller.
SaveFull(p, t) ==
    /\ pc[p].at = "idle" /\ Candidates(t) = {}
    /\ Goto(p, [Idle EXCEPT !.at = "full"])
    /\ UNCHANGED <<slot, cur_pos, mt, old, ended, answered, expired, hit>>

SaveFailed(p) ==
    /\ pc[p].at = "full"
    /\ Goto(p, Idle)
    /\ UNCHANGED <<slot, cur_pos, mt, old, ended, answered, expired, hit>>

\* lsn_update_linkinfo: the first link of the session gets a new key.
Update(p, t) ==
    /\ pc[p].at = "idle" /\ Store(t)
    /\ \E i \in Index :
         /\ First(i, t)
         /\ slot' = [slot EXCEPT ![i].link = New]
         /\ old' = IF slot[i].link \in old THEN old \cup {New} ELSE old
         /\ ended' = ended \cup {slot[i].link}
         /\ StoredAt(i)
    /\ UNCHANGED <<cur_pos, pc, answered, expired>>

\* lsn_deal_linknull: the service gives the session up, the first link of it
\* is deleted (DEL_NULL_LINK).
LinkNull(p, t) ==
    /\ pc[p].at = "idle"
    /\ \E i \in Index :
         /\ First(i, t)
         /\ slot' = [slot EXCEPT ![i] = Empty]
         /\ ended' = ended \cup {slot[i].link}
    /\ UNCHANGED <<cur_pos, mt, old, pc, answered, expired, hit>>

-----------------------------------------------------------------------------
(* An answer, lsn_deal_recv_work_la. *)

\* lsn_load_linkinfo finds the key, in a link that is being timed out too.
Load(p, n) ==
    /\ pc[p].at = "idle" /\ Present(n)
    /\ Goto(p, [at |-> "loaded", i |-> 0, link |-> n])
    /\ UNCHANGED <<slot, cur_pos, mt, old, ended, answered, expired, hit>>

\* Mutant: the key is not compared (as with DEL_NULL_LINK).
FoundBySession(n) == {i \in Index : n \in Saved /\ First(i, mt[n])}

\* The first slot in use with this link, as lsn_delete_linkinfo looks for it.
Found(n) == {i \in Index : /\ slot[i].use >= 1 /\ slot[i].link = n
                           /\ \A j \in 0 .. i - 1 : ~(slot[j].use >= 1 /\ slot[j].link = n)}
Delete(n) == slot' = [i \in Index |-> IF i \in Found(n) THEN Empty ELSE slot[i]]

\* Mutant: the answer is passed on although its link could not be deleted.
AnswerAnyway(p) ==
    /\ pc[p].at = "loaded"
    /\ Delete(pc[p].link)
    /\ answered' = [answered EXCEPT ![pc[p].link] = @ + 1]
    /\ ended' = ended \cup {pc[p].link}
    /\ Goto(p, Idle)
    /\ UNCHANGED <<cur_pos, mt, old, expired, hit>>

\* The link is deleted and the answer passed on; when somebody else deleted
\* it in the meantime, the answer is dropped.
Answer(p) ==
    /\ pc[p].at = "loaded"
    /\ LET n == pc[p].link
       IN  IF Found(n) # {}
           THEN /\ Delete(n)
                /\ answered' = [answered EXCEPT ![n] = @ + 1]
                /\ ended' = ended \cup {n}
           ELSE UNCHANGED <<slot, answered, ended>>
    /\ Goto(p, Idle)
    /\ UNCHANGED <<cur_pos, mt, old, expired, hit>>

-----------------------------------------------------------------------------
(* lsn_deal_send_timeout_la, without the lock. *)

\* Time passes; how old a link is that is not a call is nowhere asked.
Age(n) == /\ n \in Saved \ old /\ Present(n) /\ mt[n] \in Calls
          /\ old' = old \cup {n}
          /\ UNCHANGED <<slot, cur_pos, mt, pc, ended, answered, expired, hit>>

\* Mutant: the link's age is not looked at.
SeeYoung(p, i) ==
    /\ pc[p].at = "idle" /\ slot[i].use = 1 /\ slot[i].link # 0
    /\ mt[slot[i].link] \in Calls
    /\ Goto(p, [at |-> "seen", i |-> i, link |-> slot[i].link])
    /\ UNCHANGED <<slot, cur_pos, mt, old, ended, answered, expired, hit>>

\* Mutant: the timer does not look at the last slot.
SeeNotLast(p, i) ==
    /\ pc[p].at = "idle" /\ slot[i].use = 1 /\ slot[i].link \in old
    /\ i # LinkCnt - 1 /\ mt[slot[i].link] \in Calls
    /\ Goto(p, [at |-> "seen", i |-> i, link |-> slot[i].link])
    /\ UNCHANGED <<slot, cur_pos, mt, old, ended, answered, expired, hit>>

\* A call past its timeout, which nobody is at work on ...
See(p, i) ==
    /\ pc[p].at = "idle" /\ slot[i].use = 1 /\ slot[i].link \in old
    /\ mt[slot[i].link] \in Calls
    /\ Goto(p, [at |-> "seen", i |-> i, link |-> slot[i].link])
    /\ UNCHANGED <<slot, cur_pos, mt, old, ended, answered, expired, hit>>

\* ... is marked, whatever is in the slot by now ...
Mark(p) ==
    /\ pc[p].at = "seen"
    /\ slot' = [slot EXCEPT ![pc[p].i].use = 2]
    /\ Goto(p, [pc[p] EXCEPT !.at = "marked"])
    /\ UNCHANGED <<cur_pos, mt, old, ended, answered, expired, hit>>

\* ... its session's variables are fetched; without them the slot is left
\* as it is ...
Raise(p) ==
    /\ pc[p].at = "marked"
    /\ LET n == slot[pc[p].i].link
       IN  \/ /\ n # 0
              /\ expired' = [expired EXCEPT ![n] = @ + 1]
              /\ Goto(p, [pc[p] EXCEPT !.at = "raised"])
           \/ Goto(p, Idle) /\ UNCHANGED expired
    /\ UNCHANGED <<slot, cur_pos, mt, old, ended, answered, hit>>

\* ... and after the error the link that is now in the slot is deleted.
Drop(p) ==
    /\ pc[p].at = "raised"
    /\ Delete(slot[pc[p].i].link)
    /\ Goto(p, Idle)
    /\ UNCHANGED <<cur_pos, mt, old, ended, answered, expired, hit>>

-----------------------------------------------------------------------------
TimeoutStep(p) == Mark(p) \/ Raise(p) \/ Drop(p) \/ SaveFailed(p)
Next == \/ \E p \in Sender : \/ \E t \in Mtypes : \/ Save(p, t) \/ SaveFull(p, t)
                                                 \/ Update(p, t) \/ LinkNull(p, t)
                             \/ \E i \in Index : See(p, i)
                             \/ TimeoutStep(p)
        \/ \E p \in Receiver : (\E n \in Saved : Load(p, n)) \/ Answer(p)
        \/ \E n \in Link : Age(n)

\* Time passes, and the senders' timer goes through the whole table again and
\* again.  Nothing obliges the other side to answer.
Fairness == /\ \A n \in Link : WF_vars(Age(n))
            /\ \A p \in Sender : WF_vars(TimeoutStep(p))
            /\ \A i \in Index : SF_vars(\E p \in Sender : See(p, i))

Spec == Init /\ [][Next]_vars
FairSpec == Spec /\ Fairness
-----------------------------------------------------------------------------
\* Of several answers to a request one is passed on: the receivers look the
\* link up without the lock, and the deletion under it decides.
AnsweredOnce == \A n \in Link : answered[n] <= 1

\* A link does not get lost: it is in the table, or it was answered, given up
\* by its service, replaced, or ended with a timeout error.
\* (A link that a second sender stores in a slot while a first one is at work
\* on the slot's timeout is deleted with it, and nobody is told.)
NoneLost == \A n \in Saved \ hit : Present(n) \/ n \in ended \/ expired[n] > 0

\* The timers of several senders work on slots, not on links (lsn_comm.c:971 to
\* 1003, without the lock), and a slot may be emptied, marked by a second timer
\* and taken by a new link meanwhile: the error still goes to a call past its
\* timeout, or to a link that was stored there while a sender was at work.
OnlyOld == \A n \in Saved \ hit : expired[n] > 0 => n \in old /\ mt[n] \in Calls

\* lsn_save_linkinfo fails only when every slot is taken, wherever cur_pos is.
FullWhenFails == [][\A p \in Sender : pc[p].at # "full" /\ pc'[p].at = "full"
                       => \A i \in Index : slot[i].use >= 1]_vars

\* A call leaves the table in the end, by its answer or by its timeout,
\* unless the variables of its session could not be fetched (slot left at 2).
Ends == \A n \in Link : Present(n) /\ mt[n] \in Calls
                          ~> \/ ~Present(n)
                             \/ \E i \in Index : slot[i].use = 2 /\ slot[i].link = n /\ ~AtWork(i)

\* "先修改use状态为2，告诉其他进程正在处理超时，避免MQ等侦听重复工作"
\* (lsn_comm.c:986): use is set to 2 to tell the other processes that the
\* timeout is being handled, so that it is not handled twice.
TimeoutOnce == \A n \in Link : expired[n] <= 1
=============================================================================
