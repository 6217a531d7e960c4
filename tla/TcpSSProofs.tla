---------------------------- MODULE TcpSSProofs ----------------------------
(***************************************************************************)
(* A request's way, for every number of listeners, connections, sessions,  *)
(* services and requests.                                                  *)
(*                                                                         *)
(* No session leaks (LInv): each that is in use and was not left has a     *)
(* listener that will end it, and that listener keeps to its own steps.    *)
(* Neither a command nor a service is needed for that.                     *)
(*                                                                         *)
(* A connection keeps its session and gets its own answer (OInv): as long  *)
(* as no request outlives its timeout and no window of the listener was    *)
(* hit, a request is in one place (Single), what carries its session was   *)
(* sent by the request that drew it (Drawn), the connection that waits     *)
(* still has session and variables (Joined), and the stack of callers in   *)
(* the variables leads back to that connection's listener (Homed).  These  *)
(* four are about one session each, and a step is about one session: the   *)
(* other sessions are untouched (Untouched).                               *)
(***************************************************************************)
EXTENDS TcpSS, TLAPS

USE ProcAssumption, SizeAssumption

Entry == {k \in [use : 0 .. 3, m : {0} \cup Mtypes, r : {0} \cup Req] :
            IF k.use >= 2 THEN k.m \in Mtypes /\ k.r \in Req ELSE k.m = 0 /\ k.r = 0}
OfLink == {"fill", "send", "undo", "drop", "expire"}
Position == {q \in [at : {"idle", "fill", "send", "undo", "drop", "destroy", "delete",
                          "null_destroy", "null_delete", "expire"},
                    i : {0} \cup Index, m : {0} \cup Mtypes, r : {0} \cup Req] :
               /\ q.at = "idle" => q.m = 0
               /\ q.at # "idle" => q.m \in Mtypes /\ q.r \in Req
               /\ q.at \in OfLink => q.i \in Index}
Vars == {v \in [r : {0} \cup Req, stack : Seq(Frame)] : Len(v.stack) <= SW_MAX_CMD}

LinkOK == link \in [Lsn -> [Index -> Entry]]
PcOK == pc \in [Lsn -> Position]
SlotOK == slot \in [Mtypes -> [used : BOOLEAN, r : {0} \cup Req]]
PoolOK == pool \in [Mtypes -> Vars]
QueueOK == queue \in [Lsn \cup Svc -> SUBSET Cmd]
WorkOK == work \in [Svc -> Cmd \cup {NoCmd}]
RestOK == /\ n \in 0 .. MaxReq /\ late \subseteq Req /\ lost \subseteq Req
          /\ mixed \in BOOLEAN /\ torn \in BOOLEAN

\* Nothing but the type depends on the files.
FileOK == file \in [Mtypes -> {"none", "missing", "there"}]
IInv == LinkOK /\ PcOK /\ SlotOK /\ PoolOK /\ QueueOK /\ WorkOK /\ RestOK

LEMMA InvType == IInv /\ FileOK => TypeOK
<1> SUFFICES ASSUME IInv, FileOK PROVE TypeOK
  OBVIOUS
<1>1. link \in [Lsn -> [Index -> [use : 0 .. 3, m : {0} \cup Mtypes, r : {0} \cup Req]]]
  BY DEF IInv, LinkOK, Entry
<1>2. pc \in [Lsn -> [at : {"idle", "fill", "send", "undo", "drop", "destroy", "delete",
                            "null_destroy", "null_delete", "expire"},
                      i : {0} \cup Index, m : {0} \cup Mtypes, r : {0} \cup Req]]
  BY DEF IInv, PcOK, Position
<1>3. \A m \in Mtypes : /\ pool[m].r \in {0} \cup Req
                        /\ Len(pool[m].stack) <= SW_MAX_CMD
                        /\ \A k \in DOMAIN pool[m].stack : pool[m].stack[k] \in Frame
  <2> SUFFICES ASSUME NEW m \in Mtypes
               PROVE  /\ pool[m].r \in {0} \cup Req
                      /\ Len(pool[m].stack) <= SW_MAX_CMD
                      /\ \A k \in DOMAIN pool[m].stack : pool[m].stack[k] \in Frame
    OBVIOUS
  <2>1. pool[m] \in Vars
    BY DEF IInv, PoolOK
  <2>2. pool[m].stack \in Seq(Frame)
    BY <2>1 DEF Vars
  <2> QED BY <2>1, <2>2 DEF Vars
<1> QED BY <1>1, <1>2, <1>3 DEF IInv, SlotOK, QueueOK, WorkOK, RestOK, FileOK, TypeOK

-----------------------------------------------------------------------------
(* What one change does to each variable *)

LinkAt(l, i, k) == /\ link'[l][i] = k
                   /\ \A h \in Lsn, j \in Index : h # l \/ j # i => link'[h][j] = link[h][j]
PcAt(l, q) == pc'[l] = q /\ \A k \in Lsn \ {l} : pc'[k] = pc[k]
SlotAt(m, v) == slot'[m] = v /\ \A k \in Mtypes \ {m} : slot'[k] = slot[k]
PoolAt(m, v) == pool'[m] = v /\ \A k \in Mtypes \ {m} : pool'[k] = pool[k]
QueueAt(p, q) == queue'[p] = q /\ \A o \in (Lsn \cup Svc) \ {p} : queue'[o] = queue[o]
WorkAt(s, c) == work'[s] = c /\ \A t \in Svc \ {s} : work'[t] = work[t]

LEMMA LinkSet ==
  ASSUME LinkOK, NEW l \in Lsn, NEW i \in Index, NEW k \in Entry,
         link' = [link EXCEPT ![l][i] = k]
  PROVE  LinkOK' /\ LinkAt(l, i, k)
BY DEF LinkOK, LinkAt

LEMMA ClosedEntry == Closed \in Entry
BY DEF Closed, Entry

LEMMA CloseSet ==
  ASSUME LinkOK, NEW l \in Lsn, NEW i \in Index, Close(l, i)
  PROVE  LinkOK' /\ LinkAt(l, i, Closed)
<1>1. link' = [link EXCEPT ![l][i] = Closed]
  BY DEF Close
<1> QED BY <1>1, ClosedEntry DEF LinkOK, LinkAt

LEMMA PcSet ==
  ASSUME PcOK, NEW l \in Lsn, NEW q \in Position, pc' = [pc EXCEPT ![l] = q]
  PROVE  PcOK' /\ PcAt(l, q)
BY DEF PcOK, PcAt

LEMMA ReturnSet ==
  ASSUME PcOK, NEW l \in Lsn, Return(l)
  PROVE  PcOK' /\ PcAt(l, Idle)
<1>1. Idle \in Position
  BY DEF Idle, Position, OfLink
<1> QED BY <1>1, PcSet DEF Return

LEMMA GotoSet ==
  ASSUME PcOK, NEW l \in Lsn, pc[l].at # "idle", NEW at, Goto(l, at),
         \/ at \in {"send", "undo", "drop"} /\ pc[l].at \in OfLink
         \/ at \in {"delete", "null_delete"}
  PROVE  PcOK' /\ PcAt(l, [at |-> at, i |-> pc[l].i, m |-> pc[l].m, r |-> pc[l].r])
<1> DEFINE q == [at |-> at, i |-> pc[l].i, m |-> pc[l].m, r |-> pc[l].r]
<1>1. pc[l] \in Position
  BY DEF PcOK
<1>2. [pc[l] EXCEPT !.at = at] = q
  BY <1>1 DEF Position
<1>3. q \in Position
  BY <1>1 DEF Position, OfLink
<1>4. pc' = [pc EXCEPT ![l] = q]
  BY <1>2 DEF Goto
<1> HIDE DEF q
<1>5. PcOK' /\ PcAt(l, q)
  BY <1>3, <1>4, PcSet
<1> QED BY <1>5 DEF q

LEMMA PoolSet ==
  ASSUME PoolOK, NEW m \in Mtypes, NEW v \in Vars, pool' = [pool EXCEPT ![m] = v]
  PROVE  PoolOK' /\ PoolAt(m, v)
BY DEF PoolOK, PoolAt

LEMMA EmptyVars == /\ Empty \in Vars
                   /\ \A r \in Req : [Empty EXCEPT !.r = r] = [r |-> r, stack |-> <<>>]
                                     /\ [r |-> r, stack |-> <<>>] \in Vars
BY DEF Empty, Vars

LEMMA DestroySet ==
  ASSUME PoolOK, NEW m \in Mtypes, Destroy(m)
  PROVE  PoolOK' /\ PoolAt(m, Empty)
BY PoolSet, EmptyVars DEF Destroy

\* What is left of the variables when they may not be loadable.
Cleaned(m) == IF Loads(m) THEN Empty ELSE pool[m]

LEMMA CleanSet ==
  ASSUME PoolOK, NEW m \in Mtypes, Clean(m)
  PROVE  PoolOK' /\ PoolAt(m, Cleaned(m))
BY EmptyVars DEF Clean, Cleaned, PoolOK, PoolAt

LEMMA DeleteSet ==
  ASSUME PoolOK, SlotOK, NEW m \in Mtypes, Delete(m)
  PROVE  /\ PoolOK' /\ PoolAt(m, IF slot[m].used THEN Cleaned(m) ELSE pool[m])
         /\ SlotOK' /\ SlotAt(m, [used |-> FALSE, r |-> slot[m].r])
<1>1. PoolOK' /\ PoolAt(m, IF slot[m].used THEN Cleaned(m) ELSE pool[m])
  BY CleanSet DEF Delete, PoolOK, PoolAt
<1>2. SlotOK' /\ SlotAt(m, [used |-> FALSE, r |-> slot[m].r])
  BY DEF Delete, SlotOK, SlotAt
<1> QED BY <1>1, <1>2

LEMMA NewStack ==
  ASSUME NEW v \in Vars, NEW t
  PROVE  [v EXCEPT !.stack = t] = [r |-> v.r, stack |-> t]
<1>1. v \in [r : {0} \cup Req, stack : Seq(Frame)]
  BY DEF Vars
<1> QED BY <1>1

LEMMA PushSet ==
  ASSUME PoolOK, NEW m \in Mtypes, NEW f \in Frame, Len(pool[m].stack) < SW_MAX_CMD, Push(m, f)
  PROVE  PoolOK' /\ PoolAt(m, [r |-> pool[m].r, stack |-> Append(pool[m].stack, f)])
<1> DEFINE v == [r |-> pool[m].r, stack |-> Append(pool[m].stack, f)]
<1>1. pool[m] \in Vars
  BY DEF PoolOK
<1>2. pool[m].stack \in Seq(Frame) /\ pool[m].r \in {0} \cup Req
  BY <1>1 DEF Vars
<1>3. Append(pool[m].stack, f) \in Seq(Frame) /\ Len(Append(pool[m].stack, f)) = Len(pool[m].stack) + 1
  BY <1>2
<1>4. v \in Vars
  <2>1. Len(pool[m].stack) \in Nat /\ SW_MAX_CMD \in Nat
    BY <1>2
  <2> QED BY <1>2, <1>3, <2>1 DEF Vars
<1>5. [pool[m] EXCEPT !.stack = Append(pool[m].stack, f)] = v
  BY <1>1, NewStack
<1>6. pool' = [pool EXCEPT ![m] = v]
  BY <1>5 DEF Push
<1> HIDE DEF v
<1>7. PoolOK' /\ PoolAt(m, v)
  BY <1>4, <1>6, PoolSet
<1> QED BY <1>7 DEF v

LEMMA PopSet ==
  ASSUME PoolOK, NEW m \in Mtypes, pool[m].stack # <<>>, Pop(m)
  PROVE  PoolOK' /\ PoolAt(m, [r |-> pool[m].r,
                              stack |-> SubSeq(pool[m].stack, 1, Len(pool[m].stack) - 1)])
<1> DEFINE t == SubSeq(pool[m].stack, 1, Len(pool[m].stack) - 1)
           v == [r |-> pool[m].r, stack |-> t]
<1>1. pool[m] \in Vars
  BY DEF PoolOK
<1>2. pool[m].stack \in Seq(Frame) /\ pool[m].r \in {0} \cup Req /\ Len(pool[m].stack) <= SW_MAX_CMD
  BY <1>1 DEF Vars
<1>3. Len(pool[m].stack) \in Nat \ {0}
  BY <1>2
<1>4. t \in Seq(Frame) /\ Len(t) = Len(pool[m].stack) - 1
  BY <1>2, <1>3
<1>5. [pool[m] EXCEPT !.stack = t] = v
  BY <1>1, NewStack
<1>6. pool' = [pool EXCEPT ![m] = v]
  BY <1>5 DEF Pop
<1>7. v \in Vars
  <2> HIDE DEF t
  <2> QED BY <1>2, <1>3, <1>4 DEF Vars
<1> HIDE DEF v
<1>8. PoolOK' /\ PoolAt(m, v)
  BY <1>6, <1>7, PoolSet
<1> QED BY <1>8 DEF v

LEMMA TopFrame ==
  ASSUME PoolOK, NEW m \in Mtypes, pool[m].stack # <<>>
  PROVE  Top(m) \in Frame
<1>1. pool[m] \in Vars
  BY DEF PoolOK
<1>2. pool[m].stack \in Seq(Frame)
  BY <1>1 DEF Vars
<1>3. Len(pool[m].stack) \in 1 .. Len(pool[m].stack)
  BY <1>2
<1> QED BY <1>2, <1>3 DEF Top

LEMMA SentSet ==
  ASSUME QueueOK, NEW p \in Lsn \cup Svc, NEW c \in Cmd,
         queue' = [queue EXCEPT ![p] = Sent(@, c)]
  PROVE  QueueOK' /\ QueueAt(p, {d \in queue[p] : d.m # c.m} \cup {c})
BY DEF QueueOK, Sent, QueueAt

LEMMA TakenSet ==
  ASSUME QueueOK, NEW p \in Lsn \cup Svc, NEW c \in queue[p],
         queue' = [queue EXCEPT ![p] = @ \ {c}]
  PROVE  QueueOK' /\ QueueAt(p, queue[p] \ {c}) /\ c \in Cmd
BY DEF QueueOK, QueueAt

LEMMA WorkSet ==
  ASSUME WorkOK, NEW s \in Svc, NEW c \in Cmd \cup {NoCmd}, work' = [work EXCEPT ![s] = c]
  PROVE  WorkOK' /\ WorkAt(s, c)
BY DEF WorkOK, WorkAt

\* The command a service has at work.
LEMMA AtWork ==
  ASSUME WorkOK, NEW s \in Svc, work[s] # NoCmd
  PROVE  work[s] \in Cmd /\ work[s].m \in Mtypes
BY DEF WorkOK, Cmd

LEMMA NewCmd ==
  ASSUME NEW c \in Cmd, NEW t \in {"TASKREQ", "TASKRES", "CALLREQ", "CALLRES", "LINKREQ", "LINKNULL", "over"}
  PROVE  /\ [c EXCEPT !.type = t] \in Cmd
         /\ [c EXCEPT !.type = t].m = c.m /\ [c EXCEPT !.type = t].r = c.r
BY DEF Cmd

LEMMA NoCmdIs == NoCmd \notin Cmd /\ NoCmd.m \notin Mtypes /\ NoCmd.type = "none"
BY DEF NoCmd, Cmd, Mtypes

-----------------------------------------------------------------------------
(* What each step does, point by point; it keeps the types *)

LEMMA Same ==
  ASSUME IInv
  PROVE  /\ UNCHANGED link => LinkOK'
         /\ UNCHANGED pc => PcOK'
         /\ UNCHANGED slot => SlotOK'
         /\ UNCHANGED pool => PoolOK'
         /\ UNCHANGED queue => QueueOK'
         /\ UNCHANGED work => WorkOK'
         /\ UNCHANGED <<n, ghost>> => RestOK'
BY DEF IInv, LinkOK, PcOK, SlotOK, PoolOK, QueueOK, WorkOK, RestOK, ghost

LEMMA Positions ==
  ASSUME IInv, NEW l \in Lsn
  PROVE  /\ pc[l] \in Position
         /\ pc[l].at = "idle" => pc[l].m = 0
         /\ pc[l].at # "idle" => pc[l].m \in Mtypes /\ pc[l].r \in Req
         /\ pc[l].at \in OfLink => pc[l].i \in Index
BY DEF IInv, PcOK, Position

LEMMA Entries ==
  ASSUME IInv, NEW l \in Lsn, NEW i \in Index
  PROVE  /\ link[l][i] \in Entry /\ link[l][i].use \in 0 .. 3
         /\ link[l][i].use >= 2 => link[l][i].m \in Mtypes /\ link[l][i].r \in Req
         /\ link[l][i].use < 2 => link[l][i].m = 0 /\ link[l][i].r = 0
BY DEF IInv, LinkOK, Entry

LEMMA AcceptDoes ==
  ASSUME IInv, NEW l \in Lsn, NEW i \in Index, Accept(l, i)
  PROVE  /\ IInv' /\ pc[l].at = "idle" /\ link[l][i].use = 0
         /\ LinkAt(l, i, [use |-> 1, m |-> 0, r |-> 0])
         /\ UNCHANGED <<pc, slot, pool, queue, work, n, ghost>>
<1>1. [Closed EXCEPT !.use = 1] = [use |-> 1, m |-> 0, r |-> 0]
  BY DEF Closed
<1>2. [use |-> 1, m |-> 0, r |-> 0] \in Entry
  BY DEF Entry
<1>3. link' = [link EXCEPT ![l][i] = [use |-> 1, m |-> 0, r |-> 0]]
  BY <1>1 DEF Accept
<1>4. LinkOK' /\ LinkAt(l, i, [use |-> 1, m |-> 0, r |-> 0])
  BY <1>2, <1>3 DEF IInv, LinkOK, LinkAt
<1> QED BY <1>4, Same DEF Accept, IInv

LEMMA HangUpDoes ==
  ASSUME IInv, NEW l \in Lsn, NEW i \in Index, HangUp(l, i)
  PROVE  /\ IInv' /\ pc[l].at = "idle" /\ link[l][i].use \in {1, 2}
         /\ \/ LinkAt(l, i, [use |-> 3, m |-> link[l][i].m, r |-> link[l][i].r])
               /\ link[l][i].use = 2 /\ lost' = lost
            \/ LinkAt(l, i, Closed) /\ (link[l][i].use = 2 => lost' = lost \cup {link[l][i].r})
         /\ lost \subseteq lost'
         /\ UNCHANGED <<pc, slot, pool, queue, work, n, late, mixed, torn>>
<1> DEFINE k == [use |-> 3, m |-> link[l][i].m, r |-> link[l][i].r]
<1>1. link[l][i] \in Entry
  BY Entries
<1>2. [link[l][i] EXCEPT !.use = 3] = k
  BY <1>1 DEF Entry
<1>3. link[l][i].use = 2 => k \in Entry
  BY <1>1 DEF Entry
<1>4. /\ pc[l].at = "idle" /\ link[l][i].use \in {1, 2}
      /\ UNCHANGED <<pc, slot, pool, queue, work, n, late, mixed, torn>>
      /\ lost' = IF link[l][i].use = 2 /\ l \in FastLsn THEN lost \cup {link[l][i].r} ELSE lost
  BY DEF HangUp
<1>5. lost' \subseteq Req
  BY <1>4, Entries DEF IInv, RestOK
<1>6. RestOK'
  BY <1>4, <1>5 DEF IInv, RestOK
<1>7. CASE link[l][i].use = 2 /\ l \notin FastLsn
  <2>1. link' = [link EXCEPT ![l][i] = k]
    BY <1>2, <1>7 DEF HangUp
  <2> HIDE DEF k
  <2>2. LinkOK' /\ LinkAt(l, i, k)
    BY <1>3, <1>7, <2>1 DEF IInv, LinkOK, LinkAt
  <2> QED BY <1>4, <1>6, <1>7, <2>2, Same DEF IInv, k
<1>8. CASE ~(link[l][i].use = 2 /\ l \notin FastLsn)
  <2>1. LinkOK' /\ LinkAt(l, i, Closed)
    BY <1>8, CloseSet DEF HangUp, IInv
  <2> QED BY <1>4, <1>6, <1>8, <2>1, Same DEF IInv
<1> QED BY <1>7, <1>8

LEMMA ReqNewDoes ==
  ASSUME IInv, NEW l \in Lsn, NEW i \in Index, NEW m \in Mtypes, ReqNew(l, i, m)
  PROVE  /\ IInv' /\ pc[l].at = "idle" /\ ~slot[m].used /\ n + 1 \in Req
         /\ SlotAt(m, [used |-> TRUE, r |-> n + 1]) /\ PoolAt(m, Cleaned(m))
         /\ PcAt(l, [at |-> "fill", i |-> i, m |-> m, r |-> n + 1])
         /\ torn' = (torn \/ \E k \in Lsn : /\ pc[k].m = m
                                            /\ pc[k].at \in {"undo", "null_destroy", "null_delete"})
         /\ lost' = lost \cup ({link[l][i].r} \ {0})
         /\ UNCHANGED <<link, queue, work, late, mixed>>
<1>1. n + 1 \in Req
  BY DEF ReqNew, IInv, RestOK, Req
<1>2. [at |-> "fill", i |-> i, m |-> m, r |-> n + 1] \in Position
  BY <1>1 DEF Position, OfLink
<1>3. PcOK' /\ PcAt(l, [at |-> "fill", i |-> i, m |-> m, r |-> n + 1])
  BY <1>2 DEF ReqNew, IInv, PcOK, PcAt
<1>4. PoolOK' /\ PoolAt(m, Cleaned(m))
  BY CleanSet DEF ReqNew, IInv
<1>5. SlotOK' /\ SlotAt(m, [used |-> TRUE, r |-> n + 1])
  BY <1>1 DEF ReqNew, IInv, SlotOK, SlotAt
<1>6. /\ pc[l].at = "idle" /\ ~slot[m].used /\ n' = n + 1
      /\ torn' = (torn \/ \E k \in Lsn : /\ pc[k].m = m
                                         /\ pc[k].at \in {"undo", "null_destroy", "null_delete"})
      /\ lost' = lost \cup ({link[l][i].r} \ {0})
      /\ UNCHANGED <<link, queue, work, late, mixed>>
  BY DEF ReqNew
<1>7. lost' \subseteq Req
  BY <1>6, Entries DEF IInv, RestOK
<1>8. n' \in 0 .. MaxReq /\ torn' \in BOOLEAN
  BY <1>1, <1>6 DEF Req
<1>9. RestOK'
  BY <1>6, <1>7, <1>8 DEF IInv, RestOK
<1> QED BY <1>1, <1>3, <1>4, <1>5, <1>6, <1>9, Same DEF IInv

LEMMA ReqNoSlotDoes ==
  ASSUME IInv, NEW l \in Lsn, NEW i \in Index, ReqNoSlot(l, i)
  PROVE  /\ IInv' /\ pc[l].at = "idle" /\ LinkAt(l, i, Closed)
         /\ lost' = lost \cup ({link[l][i].r} \ {0})
         /\ UNCHANGED <<pc, slot, pool, queue, work, n, late, mixed, torn>>
<1>1. /\ pc[l].at = "idle" /\ lost' = lost \cup ({link[l][i].r} \ {0})
      /\ UNCHANGED <<pc, slot, pool, queue, work, n, late, mixed, torn>>
  BY DEF ReqNoSlot
<1>2. LinkOK' /\ LinkAt(l, i, Closed)
  BY CloseSet DEF ReqNoSlot, IInv
<1>3. lost' \subseteq Req
  BY <1>1, Entries DEF IInv, RestOK
<1>4. RestOK'
  BY <1>1, <1>3 DEF IInv, RestOK
<1> QED BY <1>1, <1>2, <1>4, Same DEF IInv

LEMMA ReqFillDoes ==
  ASSUME IInv, NEW l \in Lsn, ReqFill(l)
  PROVE  /\ IInv' /\ pc[l].at = "fill" /\ PoolAt(pc[l].m, [r |-> pc[l].r, stack |-> <<>>])
         /\ PcAt(l, [at |-> "send", i |-> pc[l].i, m |-> pc[l].m, r |-> pc[l].r])
         /\ UNCHANGED <<link, slot, queue, work, n, ghost>>
<1>1. /\ pc[l].at = "fill" /\ Goto(l, "send") /\ UNCHANGED <<link, slot, queue, work, n, ghost>>
      /\ pool' = [pool EXCEPT ![pc[l].m] = [Empty EXCEPT !.r = pc[l].r]]
  BY DEF ReqFill
<1>2. pc[l].m \in Mtypes /\ pc[l].r \in Req
  BY <1>1, Positions
<1>3. PcOK' /\ PcAt(l, [at |-> "send", i |-> pc[l].i, m |-> pc[l].m, r |-> pc[l].r])
  BY <1>1, GotoSet DEF IInv, OfLink
<1>4. PoolOK' /\ PoolAt(pc[l].m, [r |-> pc[l].r, stack |-> <<>>])
  BY <1>1, <1>2, EmptyVars, PoolSet DEF IInv
<1> QED BY <1>1, <1>3, <1>4, Same DEF IInv

LEMMA ReqLeaveDoes ==
  ASSUME IInv, NEW l \in Lsn, ReqLeave(l)
  PROVE  /\ IInv' /\ pc[l].at \in {"fill", "send"} /\ LinkAt(l, pc[l].i, Closed)
         /\ lost' = lost \cup {pc[l].r} /\ PcAt(l, Idle)
         /\ UNCHANGED <<slot, pool, queue, work, n, late, mixed, torn>>
<1>1. /\ pc[l].at \in {"fill", "send"} /\ Close(l, pc[l].i) /\ Return(l)
      /\ lost' = lost \cup {pc[l].r} /\ UNCHANGED <<slot, pool, queue, work, n, late, mixed, torn>>
  BY DEF ReqLeave
<1>2. pc[l].i \in Index /\ pc[l].r \in Req
  BY <1>1, Positions DEF OfLink
<1>3. PcOK' /\ PcAt(l, Idle) /\ LinkOK' /\ LinkAt(l, pc[l].i, Closed)
  BY <1>1, <1>2, ReturnSet, CloseSet DEF IInv
<1>4. RestOK'
  BY <1>1, <1>2 DEF IInv, RestOK
<1> QED BY <1>1, <1>3, <1>4, Same DEF IInv

LEMMA ReqFailDoes ==
  ASSUME IInv, NEW l \in Lsn, ReqFail(l)
  PROVE  /\ IInv' /\ pc[l].at = "send"
         /\ PcAt(l, [at |-> "undo", i |-> pc[l].i, m |-> pc[l].m, r |-> pc[l].r])
         /\ SlotAt(pc[l].m, [used |-> FALSE, r |-> slot[pc[l].m].r])
         /\ PoolAt(pc[l].m, IF slot[pc[l].m].used THEN Cleaned(pc[l].m) ELSE pool[pc[l].m])
         /\ UNCHANGED <<link, queue, work, n, ghost>>
<1>1. /\ pc[l].at = "send" /\ Goto(l, "undo") /\ Delete(pc[l].m)
      /\ UNCHANGED <<link, queue, work, n, ghost>>
  BY DEF ReqFail
<1>2. pc[l].m \in Mtypes
  BY <1>1, Positions
<1>3. PcOK' /\ PcAt(l, [at |-> "undo", i |-> pc[l].i, m |-> pc[l].m, r |-> pc[l].r])
  BY <1>1, GotoSet DEF IInv, OfLink
<1> QED BY <1>1, <1>2, <1>3, DeleteSet, Same DEF IInv

LEMMA ReqUndoDoes ==
  ASSUME IInv, NEW l \in Lsn, ReqUndo(l)
  PROVE  /\ IInv' /\ pc[l].at = "undo" /\ PcAt(l, Idle)
         /\ PoolAt(pc[l].m, Empty) /\ LinkAt(l, pc[l].i, Closed)
         /\ UNCHANGED <<slot, queue, work, n, ghost>>
<1>1. /\ pc[l].at = "undo" /\ Return(l) /\ Destroy(pc[l].m) /\ Close(l, pc[l].i)
      /\ UNCHANGED <<slot, queue, work, n, ghost>>
  BY DEF ReqUndo
<1>2. pc[l].m \in Mtypes /\ pc[l].i \in Index
  BY <1>1, Positions DEF OfLink
<1> QED BY <1>1, <1>2, ReturnSet, DestroySet, CloseSet, Same DEF IInv

LEMMA ReqNoRouteDoes ==
  ASSUME IInv, NEW l \in Lsn, ReqNoRoute(l)
  PROVE  /\ IInv' /\ pc[l].at = "send" /\ PoolAt(pc[l].m, Empty)
         /\ PcAt(l, [at |-> "drop", i |-> pc[l].i, m |-> pc[l].m, r |-> pc[l].r])
         /\ UNCHANGED <<link, slot, queue, work, n, ghost>>
<1>1. /\ pc[l].at = "send" /\ Goto(l, "drop") /\ Destroy(pc[l].m)
      /\ UNCHANGED <<link, slot, queue, work, n, ghost>>
  BY DEF ReqNoRoute
<1>2. pc[l].m \in Mtypes
  BY <1>1, Positions
<1>3. PcOK' /\ PcAt(l, [at |-> "drop", i |-> pc[l].i, m |-> pc[l].m, r |-> pc[l].r])
  BY <1>1, GotoSet DEF IInv, OfLink
<1> QED BY <1>1, <1>2, <1>3, DestroySet, Same DEF IInv

LEMMA ReqDropDoes ==
  ASSUME IInv, NEW l \in Lsn, ReqDrop(l) \/ Expire(l)
  PROVE  /\ IInv' /\ pc[l].at \in {"drop", "expire"} /\ PcAt(l, Idle) /\ LinkAt(l, pc[l].i, Closed)
         /\ SlotAt(pc[l].m, [used |-> FALSE, r |-> slot[pc[l].m].r])
         /\ PoolAt(pc[l].m, IF slot[pc[l].m].used THEN Cleaned(pc[l].m) ELSE pool[pc[l].m])
         /\ UNCHANGED <<queue, work, n, ghost>>
<1>1. /\ pc[l].at \in {"drop", "expire"} /\ Return(l) /\ Delete(pc[l].m) /\ Close(l, pc[l].i)
      /\ UNCHANGED <<queue, work, n, ghost>>
  BY DEF ReqDrop, Expire
<1>2. pc[l].m \in Mtypes /\ pc[l].i \in Index
  BY <1>1, Positions DEF OfLink
<1> QED BY <1>1, <1>2, ReturnSet, DeleteSet, CloseSet, Same DEF IInv

LEMMA ReqSendDoes ==
  ASSUME IInv, NEW l \in Lsn, NEW s \in Svc, ReqSend(l, s)
  PROVE  LET c == [m |-> pc[l].m, r |-> pc[l].r, type |-> "TASKREQ"]
         IN  /\ IInv' /\ pc[l].at = "send" /\ PcAt(l, Idle) /\ c \in Cmd
             /\ LinkAt(l, pc[l].i, [use |-> 2, m |-> pc[l].m, r |-> pc[l].r])
             /\ PoolAt(pc[l].m, [r |-> pool[pc[l].m].r,
                                 stack |-> Append(pool[pc[l].m].stack, [ori |-> l, type |-> "TASKREQ"])])
             /\ QueueAt(s, {d \in queue[s] : d.m # c.m} \cup {c})
             /\ UNCHANGED <<slot, work, n, ghost>>
<1> DEFINE c == [m |-> pc[l].m, r |-> pc[l].r, type |-> "TASKREQ"]
           f == [ori |-> l, type |-> "TASKREQ"]
           k == [use |-> 2, m |-> pc[l].m, r |-> pc[l].r]
<1>1. /\ pc[l].at = "send" /\ Return(l) /\ Len(pool[pc[l].m].stack) < SW_MAX_CMD
      /\ Push(pc[l].m, f) /\ queue' = [queue EXCEPT ![s] = Sent(@, c)]
      /\ link' = [link EXCEPT ![l][pc[l].i] = k]
      /\ UNCHANGED <<slot, work, n, ghost>>
  BY DEF ReqSend
<1>2. pc[l].m \in Mtypes /\ pc[l].i \in Index /\ pc[l].r \in Req
  BY <1>1, Positions DEF OfLink
<1>3. c \in Cmd /\ f \in Frame /\ k \in Entry
  BY <1>2 DEF Cmd, Frame, Entry
<1> HIDE DEF c, f, k
<1>4. LinkOK' /\ LinkAt(l, pc[l].i, k)
  BY <1>1, <1>2, <1>3 DEF IInv, LinkOK, LinkAt
<1>5. PoolOK' /\ PoolAt(pc[l].m, [r |-> pool[pc[l].m].r, stack |-> Append(pool[pc[l].m].stack, f)])
  BY <1>1, <1>2, <1>3, PushSet DEF IInv
<1>6. QueueOK' /\ QueueAt(s, {d \in queue[s] : d.m # c.m} \cup {c})
  BY <1>1, <1>3, SentSet DEF IInv
<1> QED BY <1>1, <1>3, <1>4, <1>5, <1>6, ReturnSet, Same DEF IInv, c, f, k

LEMMA TakeDoes ==
  ASSUME IInv, NEW s \in Svc, NEW c \in queue[s], Take(s, c)
  PROVE  /\ IInv' /\ work[s] = NoCmd /\ c \in Cmd
         /\ QueueAt(s, queue[s] \ {c}) /\ WorkAt(s, Taken(c))
         /\ Taken(c) \in Cmd /\ Taken(c).m = c.m /\ Taken(c).r = c.r
         /\ UNCHANGED <<link, pc, slot, pool, n, ghost>>
<1>1. /\ work[s] = NoCmd /\ work' = [work EXCEPT ![s] = Taken(c)]
      /\ queue' = [queue EXCEPT ![s] = @ \ {c}] /\ UNCHANGED <<link, pc, slot, pool, n, ghost>>
  BY DEF Take
<1>2. QueueOK' /\ QueueAt(s, queue[s] \ {c}) /\ c \in Cmd
  BY <1>1, TakenSet DEF IInv
<1>3. Taken(c) \in Cmd /\ Taken(c).m = c.m /\ Taken(c).r = c.r
  BY <1>2, NewCmd DEF Taken
<1>4. WorkOK' /\ WorkAt(s, Taken(c))
  BY <1>1, <1>3, WorkSet DEF IInv
<1> QED BY <1>1, <1>2, <1>3, <1>4, Same DEF IInv

LEMMA TakeFailsDoes ==
  ASSUME IInv, NEW s \in Svc, NEW c \in queue[s], TakeFails(s, c)
  PROVE  /\ IInv' /\ QueueAt(s, queue[s] \ {c})
         /\ UNCHANGED <<link, pc, slot, pool, work, n, ghost>>
BY TakenSet, Same DEF TakeFails, IInv

LEMMA GrowDoes ==
  ASSUME IInv, NEW s \in Svc, Grow(s)
  PROVE  IInv' /\ UNCHANGED <<link, pc, slot, pool, queue, work, n, ghost>>
BY Same DEF Grow, IInv

LEMMA WorkNone ==
  ASSUME WorkOK, NEW s \in Svc, work' = [work EXCEPT ![s] = NoCmd]
  PROVE  WorkOK' /\ WorkAt(s, NoCmd)
BY WorkSet

\* A service's command goes on to p.
LEMMA AnswerDoes ==
  ASSUME IInv, NEW s \in Svc, NEW null \in BOOLEAN, Answer(s, null)
  PROVE  LET c == work[s]
             f == Top(work[s].m)
         IN  \E d \in Cmd :
             /\ IInv' /\ c \in Cmd /\ pool[c.m].stack # <<>> /\ f \in Frame
             /\ PoolAt(c.m, [r |-> pool[c.m].r,
                             stack |-> SubSeq(pool[c.m].stack, 1, Len(pool[c.m].stack) - 1)])
             /\ d.m = c.m /\ d.r = c.r
             /\ QueueAt(f.ori, {e \in queue[f.ori] : e.m # d.m} \cup {d}) /\ WorkAt(s, NoCmd)
             /\ UNCHANGED <<link, pc, slot, n, ghost>>
<1> DEFINE c == work[s]
           f == Top(work[s].m)
           d == [c EXCEPT !.type = ResType(f, null)]
<1>1. /\ c # NoCmd /\ pool[c.m].stack # <<>> /\ Pop(c.m)
      /\ queue' = [queue EXCEPT ![f.ori] = Sent(@, d)]
      /\ work' = [work EXCEPT ![s] = NoCmd] /\ UNCHANGED <<link, pc, slot, n, ghost>>
  BY DEF Answer
<1>2. c \in Cmd /\ c.m \in Mtypes
  BY <1>1, AtWork DEF IInv
<1>3. f \in Frame
  BY <1>1, <1>2, TopFrame DEF IInv
<1>4. f.ori \in Lsn \cup Svc
  BY <1>3 DEF Frame
<1>5. ResType(f, null) \in {"LINKNULL", "TASKRES", "CALLRES"}
  BY DEF ResType
<1>6. d \in Cmd /\ d.m = c.m /\ d.r = c.r
  BY <1>2, <1>5, NewCmd
<1> HIDE DEF c, f, d
<1>7. PoolOK' /\ PoolAt(c.m, [r |-> pool[c.m].r,
                              stack |-> SubSeq(pool[c.m].stack, 1, Len(pool[c.m].stack) - 1)])
  BY <1>1, <1>2, PopSet DEF IInv
<1>8. QueueOK' /\ QueueAt(f.ori, {e \in queue[f.ori] : e.m # d.m} \cup {d})
  BY <1>1, <1>4, <1>6, SentSet DEF IInv
<1>9. WorkOK' /\ WorkAt(s, NoCmd)
  BY <1>1, WorkNone DEF IInv
<1>10. IInv'
  BY <1>1, <1>7, <1>8, <1>9, Same DEF IInv
<1> QED BY <1>1, <1>2, <1>3, <1>6, <1>7, <1>8, <1>9, <1>10 DEF c, f

LEMMA CallDoes ==
  ASSUME IInv, NEW s \in Svc, NEW t \in Svc, Call(s, t)
  PROVE  LET c == work[s]
         IN  \E d \in Cmd :
             /\ IInv' /\ c \in Cmd
             /\ PoolAt(c.m, [r |-> pool[c.m].r,
                             stack |-> Append(pool[c.m].stack, [ori |-> s, type |-> "CALLREQ"])])
             /\ d.m = c.m /\ d.r = c.r
             /\ QueueAt(t, {e \in queue[t] : e.m # d.m} \cup {d}) /\ WorkAt(s, NoCmd)
             /\ UNCHANGED <<link, pc, slot, n, ghost>>
<1> DEFINE c == work[s]
           f == [ori |-> s, type |-> "CALLREQ"]
           d == [c EXCEPT !.type = "CALLREQ"]
<1>1. /\ c.type # "none" /\ Len(pool[c.m].stack) < SW_MAX_CMD /\ Push(c.m, f)
      /\ queue' = [queue EXCEPT ![t] = Sent(@, d)]
      /\ work' = [work EXCEPT ![s] = NoCmd] /\ UNCHANGED <<link, pc, slot, n, ghost>>
  BY DEF Call
<1>2. c \in Cmd /\ c.m \in Mtypes
  BY <1>1, AtWork, NoCmdIs DEF IInv
<1>3. f \in Frame
  BY DEF Frame
<1>4. d \in Cmd /\ d.m = c.m /\ d.r = c.r
  BY <1>2, NewCmd
<1> HIDE DEF c, f, d
<1>5. PoolOK' /\ PoolAt(c.m, [r |-> pool[c.m].r, stack |-> Append(pool[c.m].stack, f)])
  BY <1>1, <1>2, <1>3, PushSet DEF IInv
<1>6. QueueOK' /\ QueueAt(t, {e \in queue[t] : e.m # d.m} \cup {d})
  BY <1>1, <1>4, SentSet DEF IInv
<1>7. WorkOK' /\ WorkAt(s, NoCmd)
  BY <1>1, WorkNone DEF IInv
<1>8. IInv'
  BY <1>1, <1>5, <1>6, <1>7, Same DEF IInv
<1> QED BY <1>1, <1>2, <1>4, <1>5, <1>6, <1>7, <1>8 DEF c, f

LEMMA LinkDoes ==
  ASSUME IInv, NEW s \in Svc, NEW t \in Svc, Link(s, t)
  PROVE  LET c == work[s]
         IN  \E d \in Cmd :
             /\ IInv' /\ c \in Cmd
             /\ d.m = c.m /\ d.r = c.r
             /\ QueueAt(t, {e \in queue[t] : e.m # d.m} \cup {d}) /\ WorkAt(s, NoCmd)
             /\ UNCHANGED <<link, pc, slot, pool, n, ghost>>
<1> DEFINE c == work[s]
           d == [c EXCEPT !.type = "LINKREQ"]
<1>1. /\ c.type # "none" /\ queue' = [queue EXCEPT ![t] = Sent(@, d)]
      /\ work' = [work EXCEPT ![s] = NoCmd] /\ UNCHANGED <<link, pc, slot, pool, n, ghost>>
  BY DEF Link
<1>2. c \in Cmd
  BY <1>1, AtWork, NoCmdIs DEF IInv
<1>3. d \in Cmd /\ d.m = c.m /\ d.r = c.r
  BY <1>2, NewCmd
<1> HIDE DEF c, d
<1>4. QueueOK' /\ QueueAt(t, {e \in queue[t] : e.m # d.m} \cup {d})
  BY <1>1, <1>3, SentSet DEF IInv
<1>5. WorkOK' /\ WorkAt(s, NoCmd)
  BY <1>1, WorkNone DEF IInv
<1>6. IInv'
  BY <1>1, <1>4, <1>5, Same DEF IInv
<1> QED BY <1>1, <1>2, <1>3, <1>4, <1>5, <1>6 DEF c

LEMMA LoseDoes ==
  ASSUME IInv, NEW s \in Svc, Lose(s)
  PROVE  /\ IInv' /\ work[s] \in Cmd /\ WorkAt(s, NoCmd)
         /\ \/ UNCHANGED pool
            \/ \E t : PoolAt(work[s].m, [r |-> pool[work[s].m].r, stack |-> t])
         /\ UNCHANGED <<link, pc, slot, queue, n, ghost>>
<1>1. /\ work[s] # NoCmd /\ work' = [work EXCEPT ![s] = NoCmd]
      /\ UNCHANGED pool \/ (pool[work[s].m].stack # <<>> /\ Pop(work[s].m))
      /\ UNCHANGED <<link, pc, slot, queue, n, ghost>>
  BY DEF Lose
<1>2. work[s] \in Cmd /\ work[s].m \in Mtypes
  BY <1>1, AtWork DEF IInv
<1>3. PoolOK' /\ (UNCHANGED pool \/ \E t : PoolAt(work[s].m, [r |-> pool[work[s].m].r, stack |-> t]))
  BY <1>1, <1>2, PopSet, Same DEF IInv
<1> QED BY <1>1, <1>2, <1>3, WorkNone, Same DEF IInv

\* The connection of a session is closed.
CloseWaiting(l, m) ==
  \A h \in Lsn, j \in Index :
    link'[h][j] = IF h = l /\ j \in Waiting(l, m) THEN Closed ELSE link[h][j]

LEMMA WaitingSet ==
  ASSUME LinkOK, NEW l \in Lsn, NEW m,
         link' = [link EXCEPT ![l] = [i \in Index |-> IF i \in Waiting(l, m) THEN Closed ELSE @[i]]]
  PROVE  LinkOK' /\ CloseWaiting(l, m)
BY ClosedEntry DEF LinkOK, CloseWaiting

LEMMA ReceiveSet ==
  ASSUME IInv, NEW l \in Lsn, NEW c,
         NEW at \in {"destroy", "delete", "null_destroy"}, Receive(l, c, at)
  PROVE  /\ QueueOK' /\ PcOK' /\ pc[l].at = "idle" /\ c \in queue[l] /\ c \in Cmd
         /\ PcAt(l, [at |-> at, i |-> 0, m |-> c.m, r |-> c.r]) /\ QueueAt(l, queue[l] \ {c})
<1> DEFINE q == [at |-> at, i |-> 0, m |-> c.m, r |-> c.r]
<1>1. /\ pc[l].at = "idle" /\ c \in queue[l] /\ queue' = [queue EXCEPT ![l] = @ \ {c}]
      /\ pc' = [pc EXCEPT ![l] = q]
  BY DEF Receive
<1>2. QueueOK' /\ QueueAt(l, queue[l] \ {c}) /\ c \in Cmd
  BY <1>1, TakenSet DEF IInv
<1>3. q \in Position
  BY <1>2 DEF Position, Cmd, OfLink
<1> HIDE DEF q
<1>4. PcOK' /\ PcAt(l, q)
  BY <1>1, <1>3, PcSet DEF IInv
<1> QED BY <1>1, <1>2, <1>4 DEF q

LEMMA ResDoes ==
  ASSUME IInv, NEW l \in Lsn, NEW c, Res(l, c)
  PROVE  /\ IInv' /\ pc[l].at = "idle" /\ c \in queue[l] /\ c \in Cmd
         /\ PcAt(l, [at |-> "destroy", i |-> 0, m |-> c.m, r |-> c.r])
         /\ QueueAt(l, queue[l] \ {c}) /\ CloseWaiting(l, c.m)
         /\ mixed' = (mixed \/ \E i \in Waiting(l, c.m) : {link[l][i].r} # {c.r, pool[c.m].r})
         /\ UNCHANGED <<slot, pool, work, n, late, torn, lost>>
<1>1. /\ Receive(l, c, "destroy")
      /\ link' = [link EXCEPT ![l] = [i \in Index |-> IF i \in Waiting(l, c.m) THEN Closed ELSE @[i]]]
      /\ mixed' = (mixed \/ \E i \in Waiting(l, c.m) : {link[l][i].r} # {c.r, pool[c.m].r})
      /\ UNCHANGED <<slot, pool, work, n, late, torn, lost>>
  BY DEF Res
<1>2. LinkOK' /\ CloseWaiting(l, c.m)
  BY <1>1, WaitingSet DEF IInv
<1>3. mixed' \in BOOLEAN
  BY <1>1
<1>4. RestOK'
  BY <1>1, <1>3 DEF IInv, RestOK
<1> QED BY <1>1, <1>2, <1>4, ReceiveSet, Same DEF IInv

LEMMA LinkNullDoes ==
  ASSUME IInv, NEW l \in Lsn, NEW c, LinkNull(l, c)
  PROVE  /\ IInv' /\ pc[l].at = "idle" /\ c \in queue[l] /\ c \in Cmd
         /\ QueueAt(l, queue[l] \ {c}) /\ CloseWaiting(l, c.m)
         /\ \/ /\ Waiting(l, c.m) = {} /\ UNCHANGED <<slot, pool>>
               /\ PcAt(l, [at |-> "destroy", i |-> 0, m |-> c.m, r |-> c.r])
            \/ /\ Waiting(l, c.m) # {}
               /\ SlotAt(c.m, [used |-> FALSE, r |-> slot[c.m].r])
               /\ PoolAt(c.m, IF slot[c.m].used THEN Cleaned(c.m) ELSE pool[c.m])
               /\ PcAt(l, [at |-> "null_destroy", i |-> 0, m |-> c.m, r |-> c.r])
         /\ UNCHANGED <<work, n, ghost>>
<1>1. /\ Receive(l, c, IF Waiting(l, c.m) # {} THEN "null_destroy" ELSE "destroy")
      /\ link' = [link EXCEPT ![l] = [i \in Index |-> IF i \in Waiting(l, c.m) THEN Closed ELSE @[i]]]
      /\ IF Waiting(l, c.m) # {} THEN Delete(c.m) ELSE UNCHANGED <<slot, pool>>
      /\ UNCHANGED <<work, n, ghost>>
  BY DEF LinkNull
<1>2. LinkOK' /\ CloseWaiting(l, c.m)
  BY <1>1, WaitingSet DEF IInv
<1>3. CASE Waiting(l, c.m) = {}
  <2>1. Receive(l, c, "destroy") /\ UNCHANGED <<slot, pool>>
    BY <1>1, <1>3
  <2> QED BY <1>1, <1>2, <1>3, <2>1, ReceiveSet, Same DEF IInv
<1>4. CASE Waiting(l, c.m) # {}
  <2>1. Receive(l, c, "null_destroy") /\ Delete(c.m)
    BY <1>1, <1>4
  <2>2. c \in Cmd
    BY <2>1, ReceiveSet
  <2>3. c.m \in Mtypes
    BY <2>2 DEF Cmd
  <2> QED BY <1>1, <1>2, <1>4, <2>1, <2>3, ReceiveSet, DeleteSet, Same DEF IInv
<1> QED BY <1>3, <1>4

LEMMA NoVarsDoes ==
  ASSUME IInv, NEW l \in Lsn, NEW c, NoVars(l, c)
  PROVE  /\ IInv' /\ pc[l].at = "idle" /\ c \in queue[l] /\ c \in Cmd
         /\ PcAt(l, [at |-> "delete", i |-> 0, m |-> c.m, r |-> c.r])
         /\ QueueAt(l, queue[l] \ {c})
         /\ torn' = (torn \/ Waiting(l, c.m) # {})
         /\ UNCHANGED <<link, slot, pool, work, n, late, mixed, lost>>
<1>1. /\ Receive(l, c, "delete") /\ torn' = (torn \/ Waiting(l, c.m) # {})
      /\ UNCHANGED <<link, slot, pool, work, n, late, mixed, lost>>
  BY DEF NoVars
<1>2. torn' \in BOOLEAN
  BY <1>1
<1>3. RestOK'
  BY <1>1, <1>2 DEF IInv, RestOK
<1> QED BY <1>1, <1>3, ReceiveSet, Same DEF IInv

LEMMA DestroyVarsDoes ==
  ASSUME IInv, NEW l \in Lsn, DestroyVars(l)
  PROVE  /\ IInv' /\ pc[l].at \in {"destroy", "null_destroy"} /\ PoolAt(pc[l].m, Empty)
         /\ PcAt(l, [at |-> IF pc[l].at = "destroy" THEN "delete" ELSE "null_delete",
                     i |-> pc[l].i, m |-> pc[l].m, r |-> pc[l].r])
         /\ UNCHANGED <<link, slot, queue, work, n, ghost>>
<1> DEFINE at == IF pc[l].at = "destroy" THEN "delete" ELSE "null_delete"
<1>1. /\ pc[l].at \in {"destroy", "null_destroy"} /\ Destroy(pc[l].m) /\ Goto(l, at)
      /\ UNCHANGED <<link, slot, queue, work, n, ghost>>
  BY DEF DestroyVars
<1>2. pc[l].m \in Mtypes
  BY <1>1, Positions
<1>3. at \in {"delete", "null_delete"}
  OBVIOUS
<1> HIDE DEF at
<1>4. PcOK' /\ PcAt(l, [at |-> at, i |-> pc[l].i, m |-> pc[l].m, r |-> pc[l].r])
  BY <1>1, <1>3, GotoSet DEF IInv
<1> QED BY <1>1, <1>2, <1>4, DestroySet, Same DEF IInv, at

LEMMA DeleteSessionDoes ==
  ASSUME IInv, NEW l \in Lsn, DeleteSession(l)
  PROVE  /\ IInv' /\ pc[l].at \in {"delete", "null_delete"} /\ PcAt(l, Idle)
         /\ SlotAt(pc[l].m, [used |-> FALSE, r |-> slot[pc[l].m].r])
         /\ PoolAt(pc[l].m, IF slot[pc[l].m].used THEN Cleaned(pc[l].m) ELSE pool[pc[l].m])
         /\ UNCHANGED <<link, queue, work, n, ghost>>
<1>1. /\ pc[l].at \in {"delete", "null_delete"} /\ Delete(pc[l].m) /\ Return(l)
      /\ UNCHANGED <<link, queue, work, n, ghost>>
  BY DEF DeleteSession
<1>2. pc[l].m \in Mtypes
  BY <1>1, Positions
<1> QED BY <1>1, <1>2, ReturnSet, DeleteSet, Same DEF IInv

LEMMA AgeDoes ==
  ASSUME IInv, NEW r \in Req, Age(r)
  PROVE  /\ IInv' /\ late' # {}
         /\ UNCHANGED <<link, pc, slot, pool, queue, work, n, mixed, torn, lost>>
<1>1. late' = late \cup {r} /\ UNCHANGED <<link, pc, slot, pool, queue, work, n, mixed, torn, lost>>
  BY DEF Age
<1>2. RestOK'
  BY <1>1 DEF IInv, RestOK
<1> QED BY <1>1, <1>2, Same DEF IInv

LEMMA TimeoutAcceptedDoes ==
  ASSUME IInv, NEW l \in Lsn, NEW i \in Index, TimeoutAccepted(l, i)
  PROVE  /\ IInv' /\ pc[l].at = "idle" /\ link[l][i].use = 1 /\ LinkAt(l, i, Closed)
         /\ UNCHANGED <<pc, slot, pool, queue, work, n, ghost>>
<1>1. /\ pc[l].at = "idle" /\ link[l][i].use = 1 /\ Close(l, i)
      /\ UNCHANGED <<pc, slot, pool, queue, work, n, ghost>>
  BY DEF TimeoutAccepted
<1> QED BY <1>1, CloseSet, Same DEF IInv

LEMMA TimeoutDoes ==
  ASSUME IInv, NEW l \in Lsn, NEW i \in Index, Timeout(l, i)
  PROVE  LET k == link[l][i]
         IN  /\ IInv' /\ pc[l].at = "idle" /\ k.use \in {2, 3} /\ k.r \in late
             /\ PoolAt(k.m, Empty) /\ PcAt(l, [at |-> "expire", i |-> i, m |-> k.m, r |-> k.r])
             /\ UNCHANGED <<link, slot, queue, work, n, ghost>>
<1> DEFINE k == link[l][i]
           q == [at |-> "expire", i |-> i, m |-> k.m, r |-> k.r]
<1>1. /\ pc[l].at = "idle" /\ k.use \in {2, 3} /\ k.r \in late
      /\ Destroy(k.m) /\ pc' = [pc EXCEPT ![l] = q]
      /\ UNCHANGED <<link, slot, queue, work, n, ghost>>
  BY DEF Timeout
<1>2. k.m \in Mtypes /\ k.r \in Req
  BY <1>1, Entries
<1>3. q \in Position
  BY <1>2 DEF Position, OfLink
<1> HIDE DEF q
<1>4. PcOK' /\ PcAt(l, q)
  BY <1>1, <1>3, PcSet DEF IInv
<1> QED BY <1>1, <1>2, <1>4, DestroySet, Same DEF IInv, q

-----------------------------------------------------------------------------
LEMMA InvInit == Init => IInv
<1> SUFFICES ASSUME Init PROVE IInv
  OBVIOUS
<1>1. LinkOK /\ SlotOK /\ QueueOK /\ WorkOK
  BY ClosedEntry DEF Init, LinkOK, SlotOK, QueueOK, WorkOK
<1>4. n \in 0 .. MaxReq /\ late \subseteq Req /\ lost \subseteq Req
  BY DEF Init
<1>5. mixed \in BOOLEAN /\ torn \in BOOLEAN
  BY DEF Init
<1>2. PcOK
  BY DEF Init, PcOK, Position, Idle, OfLink
<1>3. PoolOK
  BY EmptyVars DEF Init, PoolOK
<1> QED BY <1>1, <1>2, <1>3, <1>4, <1>5 DEF IInv, RestOK

LEMMA InvStep == IInv /\ [Next]_vars => IInv'
<1> SUFFICES ASSUME IInv, [Next]_vars PROVE IInv'
  OBVIOUS
<1>1. CASE UNCHANGED vars
  BY <1>1, Same DEF IInv, vars
<1>2. ASSUME NEW l \in Lsn, NEW i \in Index,
             Accept(l, i) \/ HangUp(l, i) \/ ReqNoSlot(l, i) \/ TimeoutAccepted(l, i) \/ Timeout(l, i)
      PROVE  IInv'
  BY <1>2, AcceptDoes, HangUpDoes, ReqNoSlotDoes, TimeoutAcceptedDoes, TimeoutDoes
<1>3. ASSUME NEW l \in Lsn, NEW i \in Index, NEW m \in Mtypes, ReqNew(l, i, m) PROVE IInv'
  BY <1>3, ReqNewDoes
<1>4. ASSUME NEW l \in Lsn, NEW c, Res(l, c) \/ LinkNull(l, c) \/ NoVars(l, c) PROVE IInv'
  BY <1>4, ResDoes, LinkNullDoes, NoVarsDoes
<1>5. ASSUME NEW l \in Lsn, LsnStep(l) PROVE IInv'
  BY <1>5, ReqFillDoes, ReqLeaveDoes, ReqFailDoes, ReqUndoDoes, ReqNoRouteDoes, ReqDropDoes,
     ReqSendDoes, DestroyVarsDoes, DeleteSessionDoes DEF LsnStep
<1>6. ASSUME NEW s \in Svc, NEW c \in queue[s], Take(s, c) PROVE IInv'
  BY <1>6, TakeDoes
<1>7. ASSUME NEW s \in Svc, NEW null \in BOOLEAN, Answer(s, null) PROVE IInv'
  BY <1>7, AnswerDoes
<1>8. ASSUME NEW s \in Svc, NEW t \in Svc, Call(s, t) \/ Link(s, t) PROVE IInv'
  BY <1>8, CallDoes, LinkDoes
<1>9. ASSUME NEW s \in Svc, \/ \E c \in queue[s] : TakeFails(s, c)
                            \/ Grow(s) \/ Lose(s)
      PROVE  IInv'
  BY <1>9, TakeFailsDoes, GrowDoes, LoseDoes
<1>10. ASSUME NEW r \in Req, Age(r) PROVE IInv'
  BY <1>10, AgeDoes
<1> QED BY <1>1, <1>2, <1>3, <1>4, <1>5, <1>6, <1>7, <1>8, <1>9, <1>10 DEF Next

LEMMA FilesStep == IInv /\ FileOK /\ [Next]_vars => FileOK'
<1> SUFFICES ASSUME IInv, FileOK, [Next]_vars PROVE FileOK'
  OBVIOUS
<1>1. CASE UNCHANGED file
  BY <1>1 DEF FileOK
<1>2. ASSUME NEW m, Destroy(m) \/ Overflow(m) \/ Serialize(m) PROVE FileOK'
  BY <1>2 DEF FileOK, Destroy, Overflow, Serialize
<1>3. CASE UNCHANGED vars
  BY <1>1, <1>3 DEF vars
<1>4. ASSUME NEW l \in Lsn, NEW i \in Index,
             Accept(l, i) \/ HangUp(l, i) \/ ReqNoSlot(l, i) \/ TimeoutAccepted(l, i) \/ Timeout(l, i)
      PROVE  FileOK'
  BY <1>1, <1>2, <1>4 DEF Accept, HangUp, ReqNoSlot, TimeoutAccepted, Timeout
<1>5. ASSUME NEW l \in Lsn, NEW i \in Index, NEW m \in Mtypes, ReqNew(l, i, m) PROVE FileOK'
  BY <1>1, <1>5 DEF ReqNew
<1>6. ASSUME NEW l \in Lsn, NEW c, Res(l, c) \/ LinkNull(l, c) \/ NoVars(l, c) PROVE FileOK'
  BY <1>1, <1>6 DEF Res, LinkNull, NoVars
<1>7. ASSUME NEW l \in Lsn, LsnStep(l) PROVE FileOK'
  <2>1. CASE ReqFill(l) \/ ReqUndo(l) \/ ReqNoRoute(l) \/ (\E s \in Svc : ReqSend(l, s)) \/ DestroyVars(l)
    BY <1>1, <1>2, <2>1 DEF ReqFill, ReqUndo, ReqNoRoute, ReqSend, DestroyVars
  <2>2. CASE ReqLeave(l) \/ ReqFail(l) \/ ReqDrop(l) \/ DeleteSession(l) \/ Expire(l)
    BY <1>1, <2>2 DEF ReqLeave, ReqFail, ReqDrop, DeleteSession, Expire
  <2> QED BY <1>7, <2>1, <2>2 DEF LsnStep
<1>8. ASSUME NEW s \in Svc, NEW c, Take(s, c) \/ TakeFails(s, c) \/ Lose(s) PROVE FileOK'
  BY <1>1, <1>8 DEF Take, TakeFails, Lose
<1>9. ASSUME NEW s \in Svc, \/ \E null \in BOOLEAN : Answer(s, null)
                            \/ \E t \in Svc : Call(s, t) \/ Link(s, t)
                            \/ Grow(s)
      PROVE  FileOK'
  BY <1>2, <1>9 DEF Answer, Call, Link, Grow
<1>10. ASSUME NEW r \in Req, Age(r) PROVE FileOK'
  BY <1>1, <1>10 DEF Age
<1> QED BY <1>3, <1>4, <1>5, <1>6, <1>7, <1>8, <1>9, <1>10 DEF Next

LEMMA Invariance == Spec => []IInv
BY InvInit, InvStep, PTL DEF Spec

\* Connections, handlers, sessions, stacks and queues keep their types; no
\* stack of callers grows past SW_MAX_CMD (route_add_cmd), which is the size
\* of the array it is kept in.
THEOREM TypeCorrect == Spec => []TypeOK
<1>1. Init => FileOK
  BY DEF Init, FileOK
<1>2. IInv /\ FileOK /\ [Next]_vars => FileOK'
  BY FilesStep
<1> QED BY <1>1, <1>2, Invariance, InvType, PTL DEF Spec

-----------------------------------------------------------------------------
(* Sessions do not leak *)

\* A handler at work on a request has given up what its connection waited
\* for before; one that ends a late request still has its connection.
Left == \A l \in Lsn :
          /\ pc[l].at \in {"fill", "send", "undo", "drop"} => link[l][pc[l].i].r \in lost \cup {0}
          /\ pc[l].at = "expire" => link[l][pc[l].i].m = pc[l].m

\* Listener l will end session m, which request r drew.
Ending(l, m, r) ==
  \/ pc[l].m = m /\ pc[l].r = r /\ pc[l].at \in {"fill", "send", "drop"}
  \/ pc[l].m = m /\ pc[l].at \in {"destroy", "null_destroy", "delete", "null_delete", "expire"}
  \/ \E i \in Index : link[l][i].m = m /\ link[l][i].r = r
Tended == \A m \in Mtypes : slot[m].used /\ slot[m].r \notin lost =>
            \E l \in Lsn : Ending(l, m, slot[m].r)

LInv == IInv /\ Left /\ Tended

\* A step of listener l, which has to look after its own sessions only.
LEMMA LeakStep ==
  ASSUME LInv, IInv', NEW l \in Lsn, lost \subseteq lost',
         \A k \in Lsn \ {l} : pc'[k] = pc[k] /\ \A j \in Index : link'[k][j] = link[k][j],
         pc'[l].at \in {"fill", "send", "undo", "drop"} => link'[l][pc'[l].i].r \in lost' \cup {0},
         pc'[l].at = "expire" => link'[l][pc'[l].i].m = pc'[l].m,
         \A m \in Mtypes : slot'[m].used /\ slot'[m].r \notin lost' =>
            \/ Ending(l, m, slot[m].r)'
            \/ slot'[m] = slot[m] /\ ~Ending(l, m, slot[m].r)
  PROVE  LInv'
<1>1. Left'
  <2> SUFFICES ASSUME NEW k \in Lsn, k # l
               PROVE  /\ pc'[k].at \in {"fill", "send", "undo", "drop"} => link'[k][pc'[k].i].r \in lost' \cup {0}
                      /\ pc'[k].at = "expire" => link'[k][pc'[k].i].m = pc'[k].m
    BY DEF Left
  <2>1. pc[k].at \in OfLink => pc[k].i \in Index
    BY Positions DEF LInv
  <2> QED BY <2>1 DEF LInv, Left, OfLink
<1>2. Tended'
  <2> SUFFICES ASSUME NEW m \in Mtypes, slot'[m].used, slot'[m].r \notin lost', ~Ending(l, m, slot[m].r)'
               PROVE  \E k \in Lsn : Ending(k, m, slot[m].r)'
    BY DEF Tended
  <2>1. slot'[m] = slot[m] /\ ~Ending(l, m, slot[m].r)
    OBVIOUS
  <2>2. PICK k \in Lsn : Ending(k, m, slot[m].r)
    BY <2>1 DEF LInv, Tended
  <2>3. k # l
    BY <2>1, <2>2
  <2>4. Ending(k, m, slot[m].r)'
    BY <2>1, <2>2, <2>3 DEF Ending
  <2> QED BY <2>4
<1> QED BY <1>1, <1>2 DEF LInv

\* A step that closes or changes connection i of l, and no other.
LEMMA LeakLink ==
  ASSUME LInv, IInv', NEW l \in Lsn, NEW i \in Index, NEW k, LinkAt(l, i, k),
         UNCHANGED <<pc, slot>>, pc[l].at = "idle", lost \subseteq lost',
         \/ k.m = link[l][i].m /\ k.r = link[l][i].r
         \/ link[l][i].r \in lost' \cup {0}
  PROVE  LInv'
<1>1. \A h \in Lsn \ {l} : pc'[h] = pc[h] /\ \A j \in Index : link'[h][j] = link[h][j]
  BY DEF LinkAt
<1>2. ASSUME NEW m \in Mtypes, slot'[m].used, slot'[m].r \notin lost', Ending(l, m, slot[m].r)
      PROVE  Ending(l, m, slot[m].r)'
  <2>1. PICK j \in Index : link[l][j].m = m /\ link[l][j].r = slot[m].r
    BY <1>2 DEF Ending
  <2>2. slot[m].r # 0
    BY <2>1, Entries DEF LInv, Mtypes, Req
  <2>3. link'[l][j].m = m /\ link'[l][j].r = slot[m].r
    BY <1>2, <2>1, <2>2 DEF LinkAt
  <2> QED BY <2>3 DEF Ending
<1> QED BY <1>1, <1>2, LeakStep

LEMMA LeakAccept ==
  ASSUME LInv, NEW l \in Lsn, NEW i \in Index,
         Accept(l, i) \/ HangUp(l, i) \/ ReqNoSlot(l, i) \/ TimeoutAccepted(l, i)
  PROVE  LInv'
<1>1. CASE Accept(l, i)
  BY <1>1, AcceptDoes, Entries, LeakLink DEF LInv, ghost
<1>2. CASE HangUp(l, i)
  <2>1. /\ IInv' /\ pc[l].at = "idle" /\ link[l][i].use \in {1, 2} /\ UNCHANGED <<pc, slot>>
        /\ lost \subseteq lost'
    BY <1>2, HangUpDoes DEF LInv
  <2>2. link[l][i].use = 1 => link[l][i].r = 0
    BY Entries DEF LInv
  <2>3. CASE LinkAt(l, i, [use |-> 3, m |-> link[l][i].m, r |-> link[l][i].r])
    BY <2>1, <2>3, LeakLink
  <2>4. CASE LinkAt(l, i, Closed) /\ (link[l][i].use = 2 => lost' = lost \cup {link[l][i].r})
    BY <2>1, <2>2, <2>4, LeakLink
  <2> QED BY <1>2, <2>3, <2>4, HangUpDoes DEF LInv
<1>3. CASE ReqNoSlot(l, i)
  <2>1. link[l][i].r \in lost' \cup {0}
    BY <1>3, ReqNoSlotDoes DEF LInv
  <2> QED BY <1>3, <2>1, ReqNoSlotDoes, LeakLink DEF LInv
<1>4. CASE TimeoutAccepted(l, i)
  BY <1>4, TimeoutAcceptedDoes, Entries, LeakLink DEF LInv, ghost
<1> QED BY <1>1, <1>2, <1>3, <1>4

LEMMA LeakNew ==
  ASSUME LInv, NEW l \in Lsn, NEW i \in Index, NEW m \in Mtypes, ReqNew(l, i, m)
  PROVE  LInv'
<1> DEFINE q == [at |-> "fill", i |-> i, m |-> m, r |-> n + 1]
<1>1. /\ IInv' /\ pc[l].at = "idle" /\ SlotAt(m, [used |-> TRUE, r |-> n + 1]) /\ PcAt(l, q)
      /\ lost' = lost \cup ({link[l][i].r} \ {0}) /\ link' = link
  BY ReqNewDoes DEF LInv
<1>2. pc'[l] = q /\ \A h \in Lsn \ {l} : pc'[h] = pc[h] /\ \A j \in Index : link'[h][j] = link[h][j]
  BY <1>1 DEF PcAt
<1>3. link'[l][pc'[l].i].r \in lost' \cup {0}
  BY <1>1, <1>2
<1>4. ASSUME NEW t \in Mtypes, slot'[t].used
      PROVE  \/ Ending(l, t, slot[t].r)'
             \/ slot'[t] = slot[t] /\ ~Ending(l, t, slot[t].r)
  <2>1. CASE t = m
    BY <1>1, <1>2, <2>1 DEF SlotAt, Ending
  <2>2. CASE t # m
    <3>1. slot'[t] = slot[t] /\ link'[l] = link[l]
      BY <1>1, <2>2 DEF SlotAt
    <3>2. pc[l].at = "idle"
      BY <1>1
    <3> QED BY <3>1, <3>2 DEF Ending
  <2> QED BY <2>1, <2>2
<1> QED BY <1>1, <1>2, <1>3, <1>4, LeakStep

LEMMA LeakTimeout ==
  ASSUME LInv, NEW l \in Lsn, NEW i \in Index, Timeout(l, i)
  PROVE  LInv'
<1> DEFINE q == [at |-> "expire", i |-> i, m |-> link[l][i].m, r |-> link[l][i].r]
<1>1. IInv' /\ pc[l].at = "idle" /\ PcAt(l, q) /\ UNCHANGED <<link, slot, lost>>
  BY TimeoutDoes DEF LInv, ghost
<1>2. pc'[l] = q /\ \A h \in Lsn \ {l} : pc'[h] = pc[h] /\ \A j \in Index : link'[h][j] = link[h][j]
  BY <1>1 DEF PcAt
<1>3. pc'[l].at = "expire" /\ link'[l][pc'[l].i].m = pc'[l].m
  BY <1>1, <1>2
<1>4. ASSUME NEW m \in Mtypes, Ending(l, m, slot[m].r) PROVE Ending(l, m, slot[m].r)'
  BY <1>1, <1>4 DEF Ending
<1> QED BY <1>1, <1>2, <1>3, <1>4, LeakStep

\* The handler goes on without a change of its connection.
LEMMA LeakGoto ==
  ASSUME LInv, NEW l \in Lsn, ReqFill(l) \/ ReqFail(l) \/ ReqNoRoute(l) \/ DestroyVars(l)
  PROVE  LInv'
<1>1. /\ IInv' /\ UNCHANGED <<link, lost>> /\ pc[l].m \in Mtypes
      /\ \/ UNCHANGED slot
         \/ pc[l].at = "send" /\ SlotAt(pc[l].m, [used |-> FALSE, r |-> slot[pc[l].m].r])
  BY ReqFillDoes, ReqFailDoes, ReqNoRouteDoes, DestroyVarsDoes, Positions DEF LInv, ghost
<1>2. PICK at : /\ PcAt(l, [at |-> at, i |-> pc[l].i, m |-> pc[l].m, r |-> pc[l].r])
                /\ \/ pc[l].at \in {"fill", "send"} /\ at \in {"send", "drop"}
                   \/ pc[l].at = "send" /\ at = "undo" /\ SlotAt(pc[l].m, [used |-> FALSE, r |-> slot[pc[l].m].r])
                   \/ pc[l].at \in {"destroy", "null_destroy"} /\ at \in {"delete", "null_delete"}
  BY ReqFillDoes, ReqFailDoes, ReqNoRouteDoes, DestroyVarsDoes DEF LInv
<1>3. /\ pc'[l].at = at /\ pc'[l].i = pc[l].i /\ pc'[l].m = pc[l].m /\ pc'[l].r = pc[l].r
      /\ \A h \in Lsn \ {l} : pc'[h] = pc[h] /\ \A j \in Index : link'[h][j] = link[h][j]
  BY <1>1, <1>2 DEF PcAt
<1>4. at \in {"send", "undo", "drop"} => link'[l][pc'[l].i].r \in lost' \cup {0}
  BY <1>1, <1>2, <1>3 DEF LInv, Left
<1>5. ASSUME NEW m \in Mtypes, slot'[m].used
      PROVE  \/ Ending(l, m, slot[m].r)'
             \/ slot'[m] = slot[m] /\ ~Ending(l, m, slot[m].r)
  <2>1. slot'[m] = slot[m]
    BY <1>1, <1>5 DEF SlotAt
  <2>2. at = "undo" => m # pc[l].m
    BY <1>2, <1>5 DEF SlotAt
  <2>3. ASSUME Ending(l, m, slot[m].r) PROVE Ending(l, m, slot[m].r)'
    BY <1>1, <1>2, <1>3, <2>1, <2>2, <2>3 DEF Ending
  <2> QED BY <2>1, <2>3
<1> QED BY <1>1, <1>2, <1>3, <1>4, <1>5, LeakStep

\* The handler ends.
LEMMA LeakReturn ==
  ASSUME LInv, NEW l \in Lsn,
         \/ ReqLeave(l) \/ ReqUndo(l) \/ ReqDrop(l) \/ Expire(l) \/ DeleteSession(l)
         \/ \E s \in Svc : ReqSend(l, s)
  PROVE  LInv'
<1> DEFINE i == pc[l].i
           m == pc[l].m
<1>1. /\ IInv' /\ PcAt(l, Idle) /\ lost \subseteq lost' /\ m \in Mtypes
      /\ UNCHANGED slot \/ SlotAt(m, [used |-> FALSE, r |-> slot[m].r])
  BY ReqLeaveDoes, ReqUndoDoes, ReqDropDoes, DeleteSessionDoes, ReqSendDoes, Positions DEF LInv, ghost
<1>2. /\ pc'[l].at = "idle" /\ \A h \in Lsn \ {l} : pc'[h] = pc[h]
      /\ \A h \in Lsn \ {l} : \A j \in Index : link'[h][j] = link[h][j]
  <2>1. UNCHANGED link \/ \E k : LinkAt(l, i, k)
    BY ReqLeaveDoes, ReqUndoDoes, ReqDropDoes, DeleteSessionDoes, ReqSendDoes DEF LInv
  <2> QED BY <1>1, <2>1 DEF PcAt, Idle, LinkAt
<1>3. ASSUME NEW t \in Mtypes, slot'[t].used, slot'[t].r \notin lost', Ending(l, t, slot[t].r)
      PROVE  Ending(l, t, slot[t].r)'
  <2>1. slot'[t] = slot[t]
    BY <1>1, <1>3 DEF SlotAt
  <2>2. SlotAt(m, [used |-> FALSE, r |-> slot[m].r]) => t # m
    BY <1>3 DEF SlotAt
  <2>3. \A j \in Index : link[l][j].m = t /\ link[l][j].r = slot[t].r => slot[t].r \in Req /\ slot[t].r # 0
    BY Entries DEF LInv, Mtypes, Req
  <2>4. CASE ReqLeave(l)
    <3>1. /\ pc[l].at \in {"fill", "send"} /\ LinkAt(l, i, Closed) /\ lost' = lost \cup {pc[l].r}
          /\ i \in Index
      BY <2>4, ReqLeaveDoes, Positions DEF LInv, OfLink
    <3>2. PICK j \in Index : link[l][j].m = t /\ link[l][j].r = slot[t].r
      BY <1>3, <2>1, <3>1 DEF Ending
    <3>3. link[l][i].r \in lost' \cup {0}
      BY <3>1 DEF LInv, Left
    <3>4. j # i
      BY <1>3, <2>1, <2>3, <3>2, <3>3
    <3> QED BY <2>1, <3>1, <3>2, <3>4 DEF Ending, LinkAt
  <2>5. CASE ReqUndo(l) \/ ReqDrop(l) \/ Expire(l)
    <3>1. /\ pc[l].at \in {"undo", "drop", "expire"} /\ LinkAt(l, i, Closed) /\ i \in Index
          /\ pc[l].at = "undo" \/ SlotAt(m, [used |-> FALSE, r |-> slot[m].r])
      BY <2>5, ReqUndoDoes, ReqDropDoes, Positions DEF LInv, OfLink
    <3>2. PICK j \in Index : link[l][j].m = t /\ link[l][j].r = slot[t].r
      BY <1>3, <2>1, <2>2, <3>1 DEF Ending
    <3>3. link[l][i].r \in lost' \cup {0} \/ (link[l][i].m = m /\ t # m)
      BY <1>1, <2>2, <3>1 DEF LInv, Left
    <3>4. j # i
      BY <1>3, <2>1, <2>3, <3>2, <3>3
    <3> QED BY <2>1, <3>1, <3>2, <3>4 DEF Ending, LinkAt
  <2>6. CASE DeleteSession(l)
    <3>1. pc[l].at \in {"delete", "null_delete"} /\ link' = link /\ t # m
      BY <2>2, <2>6, DeleteSessionDoes DEF LInv
    <3> QED BY <1>3, <2>1, <3>1 DEF Ending
  <2>7. ASSUME NEW s \in Svc, ReqSend(l, s) PROVE Ending(l, t, slot[t].r)'
    <3>1. /\ pc[l].at = "send" /\ LinkAt(l, i, [use |-> 2, m |-> m, r |-> pc[l].r]) /\ i \in Index
      BY <2>7, ReqSendDoes, Positions DEF LInv, OfLink
    <3>2. CASE m = t /\ pc[l].r = slot[t].r
      BY <2>1, <3>1, <3>2 DEF Ending, LinkAt
    <3>3. CASE ~(m = t /\ pc[l].r = slot[t].r)
      <4>1. PICK j \in Index : link[l][j].m = t /\ link[l][j].r = slot[t].r
        BY <1>3, <2>1, <3>1, <3>3 DEF Ending
      <4>2. link[l][i].r \in lost' \cup {0}
        BY <1>1, <3>1 DEF LInv, Left
      <4>3. j # i
        BY <1>3, <2>1, <2>3, <4>1, <4>2
      <4> QED BY <2>1, <3>1, <4>1, <4>3 DEF Ending, LinkAt
    <3> QED BY <3>2, <3>3
  <2> QED BY <2>4, <2>5, <2>6, <2>7
<1>4. ASSUME NEW t \in Mtypes, slot'[t].used PROVE slot'[t] = slot[t]
  BY <1>1, <1>4 DEF SlotAt
<1> QED BY <1>1, <1>2, <1>3, <1>4, LeakStep

\* A command comes back.
LEMMA LeakReceive ==
  ASSUME LInv, NEW l \in Lsn, NEW c, Res(l, c) \/ LinkNull(l, c) \/ NoVars(l, c)
  PROVE  LInv'
<1>1. IInv' /\ pc[l].at = "idle" /\ lost' = lost /\ c \in Cmd
  BY ResDoes, LinkNullDoes, NoVarsDoes DEF LInv, ghost
<1>2. CloseWaiting(l, c.m) \/ UNCHANGED link
  BY ResDoes, LinkNullDoes, NoVarsDoes DEF LInv
<1>3. PICK at \in {"destroy", "delete", "null_destroy"} :
         /\ PcAt(l, [at |-> at, i |-> 0, m |-> c.m, r |-> c.r])
         /\ \/ UNCHANGED slot
            \/ SlotAt(c.m, [used |-> FALSE, r |-> slot[c.m].r])
  BY ResDoes, LinkNullDoes, NoVarsDoes DEF LInv
<1>4. /\ pc'[l].at = at /\ pc'[l].m = c.m /\ c.m \in Mtypes
      /\ \A h \in Lsn \ {l} : pc'[h] = pc[h] /\ \A j \in Index : link'[h][j] = link[h][j]
  BY <1>1, <1>2, <1>3 DEF PcAt, CloseWaiting, Cmd
<1>5. ASSUME NEW m \in Mtypes, slot'[m].used
      PROVE  \/ Ending(l, m, slot[m].r)'
             \/ slot'[m] = slot[m] /\ ~Ending(l, m, slot[m].r)
  <2>1. slot'[m] = slot[m]
    BY <1>3, <1>4, <1>5 DEF SlotAt
  <2>2. CASE m = c.m
    BY <1>4, <2>2 DEF Ending
  <2>3. CASE m # c.m
    <3>1. ASSUME Ending(l, m, slot[m].r) PROVE Ending(l, m, slot[m].r)'
      <4>1. PICK j \in Index : link[l][j].m = m /\ link[l][j].r = slot[m].r
        BY <1>1, <3>1 DEF Ending
      <4>2. link'[l][j] = link[l][j]
        BY <1>2, <2>3, <4>1 DEF CloseWaiting, Waiting
      <4> QED BY <2>1, <4>1, <4>2 DEF Ending
    <3> QED BY <2>1, <3>1
  <2> QED BY <2>2, <2>3
<1> QED BY <1>1, <1>4, <1>5, LeakStep

LEMMA LeakOther ==
  ASSUME LInv, IInv', UNCHANGED <<link, pc, slot, lost>>
  PROVE  LInv'
BY DEF LInv, Left, Tended, Ending

LEMMA LeakNext == LInv /\ [Next]_vars => LInv'
<1> SUFFICES ASSUME LInv, [Next]_vars PROVE LInv'
  OBVIOUS
<1>0. IInv /\ IInv'
  BY InvStep DEF LInv
<1>1. CASE UNCHANGED vars
  BY <1>0, <1>1, LeakOther DEF vars, ghost
<1>2. ASSUME NEW l \in Lsn, NEW i \in Index,
             Accept(l, i) \/ HangUp(l, i) \/ ReqNoSlot(l, i) \/ TimeoutAccepted(l, i) \/ Timeout(l, i)
      PROVE  LInv'
  BY <1>2, LeakAccept, LeakTimeout
<1>3. ASSUME NEW l \in Lsn, NEW i \in Index, NEW m \in Mtypes, ReqNew(l, i, m) PROVE LInv'
  BY <1>3, LeakNew
<1>4. ASSUME NEW l \in Lsn, NEW c, Res(l, c) \/ LinkNull(l, c) \/ NoVars(l, c) PROVE LInv'
  BY <1>4, LeakReceive
<1>5. ASSUME NEW l \in Lsn, LsnStep(l) PROVE LInv'
  BY <1>5, LeakGoto, LeakReturn DEF LsnStep
<1>6. ASSUME NEW s \in Svc, NEW c \in queue[s], Take(s, c) PROVE LInv'
  BY <1>0, <1>6, LeakOther DEF Take, ghost
<1>7. ASSUME NEW s \in Svc, NEW null \in BOOLEAN, Answer(s, null) PROVE LInv'
  BY <1>0, <1>7, LeakOther DEF Answer, ghost
<1>8. ASSUME NEW s \in Svc, NEW t \in Svc, Call(s, t) \/ Link(s, t) PROVE LInv'
  BY <1>0, <1>8, LeakOther DEF Call, Link, ghost
<1>9. ASSUME NEW s \in Svc, \/ \E c \in queue[s] : TakeFails(s, c)
                            \/ Grow(s) \/ Lose(s)
      PROVE  LInv'
  BY <1>0, <1>9, LeakOther DEF TakeFails, Grow, Lose, ghost
<1>10. ASSUME NEW r \in Req, Age(r) PROVE LInv'
  BY <1>0, <1>10, LeakOther DEF Age
<1> QED BY <1>1, <1>2, <1>3, <1>4, <1>5, <1>6, <1>7, <1>8, <1>9, <1>10 DEF Next

\* Every session in use is ended by a connection or a handler, but for those
\* the listener left: whatever is lost, late or sent twice.
THEOREM Ended == Spec => []NoLeak
<1>1. Init => LInv
  BY InvInit DEF Init, LInv, Left, Tended, Idle
<1>2. LInv => NoLeak
  BY DEF LInv, Tended, Ending, NoLeak
<1> QED BY <1>1, <1>2, LeakNext, PTL DEF Spec

-----------------------------------------------------------------------------
(* A connection keeps its session and gets its own answer *)

Procs == Lsn \cup Svc
Calm == late = {} /\ ~torn
\* A handler that has the session for itself, and one that has deleted it.
Own == {"fill", "send", "drop", "destroy", "delete"}
Gone == {"undo", "null_destroy", "null_delete"}
Owns(l, m) == pc[l].at \in Own /\ pc[l].m = m
Waits(l, i, m) == link[l][i].use >= 2 /\ link[l][i].m = m
Is(m, r) == slot[m].used /\ slot[m].r = r

\* The request that drew session m is in one place: a handler owns it, or a
\* command is in a queue, or at work.
Single(m) ==
  /\ \A k, l \in Lsn : Owns(k, m) /\ Owns(l, m) => k = l
  /\ \A l \in Lsn : Owns(l, m) => /\ \A p \in Procs : \A c \in queue[p] : c.m # m
                                  /\ \A s \in Svc : work[s].m # m
  /\ \A p, q \in Procs : \A c \in queue[p], d \in queue[q] : c.m = m /\ d.m = m => p = q /\ c = d
  /\ \A p \in Procs : \A c \in queue[p] : c.m = m => \A s \in Svc : work[s].m # m
  /\ \A s, t \in Svc : work[s].m = m /\ work[t].m = m => s = t

\* Handlers and commands have the session their request drew.
Drawn(m) ==
  /\ \A l \in Lsn : /\ Owns(l, m) => Is(m, pc[l].r)
                    /\ pc[l].at \in Gone /\ pc[l].m = m => ~slot[m].used
                    /\ pc[l].at = "send" /\ pc[l].m = m
                         => pool[m].r = pc[l].r /\ pool[m].stack = <<>>
  /\ \A p \in Procs : \A c \in queue[p] : c.m = m => Is(m, c.r)
  /\ \A s \in Svc : work[s].m = m => Is(m, work[s].r)

\* So has a connection, and while it waits no handler ends the session.
Joined(m) ==
  \A l \in Lsn, i \in Index : Waits(l, i, m) =>
    /\ Is(m, link[l][i].r) /\ pool[m].r = link[l][i].r
    /\ \A k \in Lsn : ~Owns(k, m)
    /\ \A k \in Lsn, j \in Index : Waits(k, j, m) => k = l /\ j = i

\* The stack of callers leads back to the listener whose connection waits.
HomeAt(m, l) == \A k \in Lsn, i \in Index : Waits(k, i, m) => k = l
Stacked(m) == LET t == pool[m].stack
              IN  /\ t # <<>> /\ t[1].ori \in Lsn /\ HomeAt(m, t[1].ori)
                  /\ \A j \in 2 .. Len(t) : t[j].ori \in Svc
Homed(m) ==
  /\ \A l \in Lsn : \A c \in queue[l] : c.m = m => HomeAt(m, l)
  /\ \A s \in Svc : \A c \in queue[s] : c.m = m => Stacked(m)
  /\ \A s \in Svc : work[s].m = m => Stacked(m)

Good(m) == Single(m) /\ Drawn(m) /\ Joined(m) /\ Homed(m)
Still == (\A l \in Lsn : pc[l].at # "expire") /\ ~mixed

CInv == IInv /\ Still /\ \A m \in Mtypes : Good(m)
OInv == IInv /\ (Calm => CInv)

\* Once late or torn, always so.
LEMMA CalmBefore == ASSUME IInv, [Next]_vars, Calm' PROVE Calm
<1>1. CASE UNCHANGED <<late, torn>>
  BY <1>1 DEF Calm
<1>2. ASSUME NEW l \in Lsn, NEW i \in Index, NEW m \in Mtypes, ReqNew(l, i, m) PROVE Calm
  BY <1>2, ReqNewDoes DEF Calm
<1>3. ASSUME NEW l \in Lsn, NEW c, NoVars(l, c) PROVE Calm
  BY <1>3, NoVarsDoes DEF Calm
<1>4. ASSUME NEW r \in Req, Age(r) PROVE Calm
  BY <1>4, AgeDoes DEF Calm
<1>5. ASSUME NEW l \in Lsn, NEW i \in Index,
             Accept(l, i) \/ HangUp(l, i) \/ ReqNoSlot(l, i) \/ TimeoutAccepted(l, i) \/ Timeout(l, i)
      PROVE  UNCHANGED <<late, torn>>
  BY <1>5 DEF Accept, HangUp, ReqNoSlot, TimeoutAccepted, Timeout, ghost
<1>6. ASSUME NEW l \in Lsn, NEW c, Res(l, c) \/ LinkNull(l, c) PROVE UNCHANGED <<late, torn>>
  BY <1>6 DEF Res, LinkNull, ghost
<1>7. ASSUME NEW l \in Lsn, LsnStep(l) PROVE UNCHANGED <<late, torn>>
  BY <1>7 DEF LsnStep, ReqFill, ReqLeave, ReqFail, ReqUndo, ReqNoRoute, ReqDrop, ReqSend,
     DestroyVars, DeleteSession, Expire, ghost
<1>8. ASSUME NEW s \in Svc, \/ \E c \in queue[s] : Take(s, c) \/ TakeFails(s, c)
                            \/ \E null \in BOOLEAN : Answer(s, null)
                            \/ \E t \in Svc : Call(s, t) \/ Link(s, t)
                            \/ Grow(s) \/ Lose(s)
      PROVE  UNCHANGED <<late, torn>>
  BY <1>8 DEF Take, TakeFails, Grow, Answer, Call, Link, Lose, ghost
<1>9. CASE UNCHANGED vars
  BY <1>1, <1>9 DEF vars, ghost
<1> QED BY <1>1, <1>2, <1>3, <1>4, <1>5, <1>6, <1>7, <1>8, <1>9 DEF Next

\* A step that has nothing to do with session m but, at most, takes away
\* what refers to it.
LinkLess(m) == \A l \in Lsn, i \in Index :
                 Waits(l, i, m)' => Waits(l, i, m) /\ link'[l][i].r = link[l][i].r
Untouched(m) ==
  /\ slot'[m] = slot[m] /\ pool'[m] = pool[m] /\ LinkLess(m)
  /\ \A l \in Lsn : pc'[l].m = m => pc'[l] = pc[l]
  /\ \A p \in Procs : \A c \in queue'[p] : c.m = m => c \in queue[p]
  /\ \A s \in Svc : work'[s].m = m => work'[s] = work[s]

LEMMA UntouchedGood == ASSUME NEW m \in Mtypes, Good(m), Untouched(m) PROVE Good(m)'
<1>1. \A l \in Lsn : Owns(l, m)' => Owns(l, m)
  BY DEF Untouched, Owns
<1>2. Single(m)'
  BY <1>1 DEF Good, Single, Untouched
<1>3. Drawn(m)'
  BY DEF Good, Drawn, Untouched, Owns, Is
<1>4. Joined(m)'
  BY <1>1 DEF Good, Joined, Untouched, LinkLess, Is
<1>5. \A l \in Lsn : HomeAt(m, l) => HomeAt(m, l)'
  BY DEF Untouched, LinkLess, HomeAt
<1>6. Stacked(m) => Stacked(m)'
  BY <1>5 DEF Stacked, Untouched, HomeAt, LinkLess
<1>7. Homed(m)'
  BY <1>5, <1>6 DEF Good, Homed, Untouched, Procs
<1> QED BY <1>2, <1>3, <1>4, <1>7 DEF Good

\* Nothing refers to session m but handlers that have deleted it.
LEMMA DeadGood ==
  ASSUME NEW m \in Mtypes, ~slot'[m].used,
         \A l \in Lsn : ~Owns(l, m)',
         \A p \in Procs : \A c \in queue'[p] : c.m # m,
         \A s \in Svc : work'[s].m # m,
         \A l \in Lsn, i \in Index : ~Waits(l, i, m)'
  PROVE  Good(m)'
BY DEF Good, Single, Drawn, Joined, Homed, Owns, Own, Procs

\* Nothing refers to session m but one handler.
LEMMA AloneGood ==
  ASSUME NEW m \in Mtypes, NEW l \in Lsn, Owns(l, m)', Is(m, pc[l].r)',
         pc'[l].at = "send" => pool'[m].r = pc'[l].r /\ pool'[m].stack = <<>>,
         \A k \in Lsn \ {l} : pc'[k].m # m,
         \A p \in Procs : \A c \in queue'[p] : c.m # m,
         \A s \in Svc : work'[s].m # m,
         \A k \in Lsn, i \in Index : ~Waits(k, i, m)'
  PROVE  Good(m)'
BY DEF Good, Single, Drawn, Joined, Homed, Owns, Own, Gone, Procs

\* Who owns a session is alone with it.
LEMMA OwnAlone ==
  ASSUME NEW m \in Mtypes, Good(m), NEW l \in Lsn, Owns(l, m)
  PROVE  /\ Is(m, pc[l].r)
         /\ \A k \in Lsn \ {l} : pc[k].m = m => pc[k].at \notin Own \cup Gone
         /\ \A p \in Procs : \A c \in queue[p] : c.m # m
         /\ \A s \in Svc : work[s].m # m
         /\ \A k \in Lsn, i \in Index : ~Waits(k, i, m)
BY DEF Good, Single, Drawn, Joined, Owns, Is

\* Nobody has a session that is not in use.
LEMMA UnusedDead ==
  ASSUME NEW m \in Mtypes, Good(m), ~slot[m].used
  PROVE  /\ \A k \in Lsn : ~Owns(k, m)
         /\ \A p \in Procs : \A c \in queue[p] : c.m # m
         /\ \A s \in Svc : work[s].m # m
         /\ \A k \in Lsn, i \in Index : ~Waits(k, i, m)
BY DEF Good, Drawn, Joined, Is

\* No other handler has to do with a session in use.
LEMMA Absent ==
  ASSUME CInv, NEW m \in Mtypes, slot[m].used, NEW k \in Lsn, ~Owns(k, m)
  PROVE  pc[k].m # m
<1>1. pc[k] \in Position /\ (pc[k].at = "idle" => pc[k].m = 0)
  BY Positions DEF CInv
<1>2. pc[k].at \in Own \cup Gone \cup {"idle", "expire"}
  BY <1>1 DEF Position, Own, Gone
<1>3. pc[k].at # "expire" /\ Good(m)
  BY DEF CInv, Still
<1> QED BY <1>1, <1>2, <1>3 DEF Good, Drawn, Owns, Mtypes

\* A step on connections only.
LEMMA OwnLink ==
  ASSUME CInv, NEW l \in Lsn, NEW i \in Index,
         Accept(l, i) \/ HangUp(l, i) \/ ReqNoSlot(l, i) \/ TimeoutAccepted(l, i)
  PROVE  CInv'
<1>1. IInv' /\ UNCHANGED <<pc, slot, pool, queue, work, mixed>>
  BY AcceptDoes, HangUpDoes, ReqNoSlotDoes, TimeoutAcceptedDoes DEF CInv, ghost
<1>2. PICK k : /\ LinkAt(l, i, k)
               /\ k.use < 2 \/ (link[l][i].use = 2 /\ k.m = link[l][i].m /\ k.r = link[l][i].r)
  <2>1. CASE Accept(l, i)
    <3>1. LinkAt(l, i, [use |-> 1, m |-> 0, r |-> 0])
      BY <2>1, AcceptDoes DEF CInv
    <3> QED BY <3>1
  <2>2. CASE HangUp(l, i)
    <3>1. \/ LinkAt(l, i, [use |-> 3, m |-> link[l][i].m, r |-> link[l][i].r]) /\ link[l][i].use = 2
          \/ LinkAt(l, i, Closed)
      BY <2>2, HangUpDoes DEF CInv
    <3> QED BY <3>1 DEF Closed
  <2>3. CASE ReqNoSlot(l, i) \/ TimeoutAccepted(l, i)
    <3>1. LinkAt(l, i, Closed)
      BY <2>3, ReqNoSlotDoes, TimeoutAcceptedDoes DEF CInv
    <3> QED BY <3>1 DEF Closed
  <2> QED BY <2>1, <2>2, <2>3
<1>3. ASSUME NEW m \in Mtypes PROVE Good(m)'
  <2>1. LinkLess(m)
    <3> SUFFICES ASSUME NEW h \in Lsn, NEW j \in Index, Waits(h, j, m)'
                 PROVE  Waits(h, j, m) /\ link'[h][j].r = link[h][j].r
      BY DEF LinkLess
    <3>1. CASE h = l /\ j = i
      <4>1. link'[h][j] = k
        BY <1>2, <3>1 DEF LinkAt
      <4>2. link[l][i].use = 2 /\ k.m = link[l][i].m /\ k.r = link[l][i].r
        <5>1. k.use \in 0 .. 3 /\ k.use >= 2
          <6>1. link'[h][j].use \in 0 .. 3
            BY <1>1 DEF IInv, LinkOK, Entry
          <6> QED BY <4>1, <6>1 DEF Waits
        <5> QED BY <1>2, <5>1
      <4> QED BY <3>1, <4>1, <4>2 DEF Waits
    <3>2. CASE ~(h = l /\ j = i)
      BY <1>2, <3>2 DEF LinkAt, Waits
    <3> QED BY <3>1, <3>2
  <2>2. Untouched(m)
    BY <1>1, <2>1 DEF Untouched
  <2> QED BY <2>2, UntouchedGood DEF CInv
<1> QED BY <1>1, <1>3 DEF CInv, Still

LEMMA OwnNew ==
  ASSUME CInv, ~torn', NEW l \in Lsn, NEW i \in Index, NEW m \in Mtypes, ReqNew(l, i, m)
  PROVE  CInv'
<1> DEFINE q == [at |-> "fill", i |-> i, m |-> m, r |-> n + 1]
<1>1. /\ IInv' /\ pc[l].at = "idle" /\ ~slot[m].used
      /\ SlotAt(m, [used |-> TRUE, r |-> n + 1]) /\ PoolAt(m, Cleaned(m)) /\ PcAt(l, q)
      /\ ~ \E k \in Lsn : pc[k].m = m /\ pc[k].at \in Gone
      /\ UNCHANGED <<link, queue, work, mixed>>
  BY ReqNewDoes DEF CInv, Gone
<1>2. pc'[l] = q /\ \A k \in Lsn \ {l} : pc'[k] = pc[k]
  BY <1>1 DEF PcAt
<1>3. Good(m)'
  <2>1. /\ \A k \in Lsn : ~Owns(k, m)
        /\ \A p \in Procs : \A c \in queue[p] : c.m # m
        /\ \A s \in Svc : work[s].m # m
        /\ \A k \in Lsn, j \in Index : ~Waits(k, j, m)
    BY <1>1, UnusedDead DEF CInv
  <2>2. Owns(l, m)' /\ Is(m, pc[l].r)' /\ pc'[l].at # "send"
    BY <1>1, <1>2 DEF Owns, Own, Is, SlotAt
  <2>3. ASSUME NEW k \in Lsn \ {l} PROVE pc'[k].m # m
    <3>1. pc[k] \in Position /\ (pc[k].at = "idle" => pc[k].m = 0) /\ pc[k].at # "expire"
      BY Positions DEF CInv, Still
    <3>2. pc[k].at \in Own \cup Gone \cup {"idle"}
      BY <3>1 DEF Position, Own, Gone
    <3> QED BY <1>1, <1>2, <2>1, <3>1, <3>2 DEF Owns, Mtypes
  <2>4. \A k \in Lsn, j \in Index : ~Waits(k, j, m)'
    BY <1>1, <2>1 DEF Waits
  <2> QED BY <1>1, <2>1, <2>2, <2>3, <2>4, AloneGood
<1>4. ASSUME NEW t \in Mtypes, t # m PROVE Good(t)'
  <2>1. Untouched(t)
    BY <1>1, <1>2, <1>4 DEF Untouched, SlotAt, PoolAt, LinkLess, Waits
  <2> QED BY <2>1, UntouchedGood DEF CInv
<1>5. Still'
  BY <1>1, <1>2 DEF CInv, Still
<1> QED BY <1>1, <1>3, <1>4, <1>5 DEF CInv

\* The handler stays the owner.
LEMMA OwnGoto ==
  ASSUME CInv, NEW l \in Lsn,
         ReqFill(l) \/ ReqNoRoute(l) \/ (DestroyVars(l) /\ pc[l].at = "destroy")
  PROVE  CInv'
<1>0. PICK m : m = pc[l].m
  OBVIOUS
<1>1. /\ IInv' /\ UNCHANGED <<link, slot, queue, work, mixed>> /\ m \in Mtypes /\ Owns(l, m)
  BY <1>0, ReqFillDoes, ReqNoRouteDoes, DestroyVarsDoes, Positions DEF CInv, Owns, Own, ghost
<1>2. PICK at \in {"send", "drop", "delete"} :
         /\ PcAt(l, [at |-> at, i |-> pc[l].i, m |-> m, r |-> pc[l].r])
         /\ \/ PoolAt(m, Empty) /\ at # "send"
            \/ PoolAt(m, [r |-> pc[l].r, stack |-> <<>>])
  BY <1>0, ReqFillDoes, ReqNoRouteDoes, DestroyVarsDoes DEF CInv
<1>3. /\ pc'[l].at = at /\ pc'[l].m = m /\ pc'[l].r = pc[l].r
      /\ \A k \in Lsn \ {l} : pc'[k] = pc[k]
      /\ at = "send" => pool'[m] = [r |-> pc[l].r, stack |-> <<>>]
      /\ \A t \in Mtypes \ {m} : pool'[t] = pool[t]
  BY <1>2 DEF PcAt, PoolAt
<1>4. Good(m)'
  <2>1. /\ Is(m, pc[l].r)
        /\ \A k \in Lsn \ {l} : ~Owns(k, m)
        /\ \A p \in Procs : \A c \in queue[p] : c.m # m
        /\ \A s \in Svc : work[s].m # m
        /\ \A k \in Lsn, i \in Index : ~Waits(k, i, m)
    BY <1>1, OwnAlone DEF CInv, Owns
  <2>2. \A k \in Lsn \ {l} : pc'[k].m # m
    BY <1>1, <1>3, <2>1, Absent DEF Is
  <2>3. Owns(l, m)' /\ Is(m, pc[l].r)'
    BY <1>1, <1>3, <2>1 DEF Owns, Own, Is
  <2>4. pc'[l].at = "send" => pool'[m].r = pc'[l].r /\ pool'[m].stack = <<>>
    BY <1>2, <1>3
  <2>5. \A k \in Lsn, j \in Index : ~Waits(k, j, m)'
    BY <1>1, <2>1 DEF Waits
  <2> QED BY <1>1, <2>1, <2>2, <2>3, <2>4, <2>5, AloneGood
<1>5. ASSUME NEW t \in Mtypes, t # m PROVE Good(t)'
  <2>1. Untouched(t)
    BY <1>1, <1>3, <1>5 DEF Untouched, LinkLess, Waits
  <2> QED BY <2>1, UntouchedGood DEF CInv
<1>6. Still'
  BY <1>1, <1>2, <1>3 DEF CInv, Still
<1> QED BY <1>1, <1>4, <1>5, <1>6 DEF CInv

LEMMA OwnLeave == ASSUME CInv, NEW l \in Lsn, ReqLeave(l) PROVE CInv'
<1>1. /\ IInv' /\ LinkAt(l, pc[l].i, Closed) /\ PcAt(l, Idle)
      /\ UNCHANGED <<slot, pool, queue, work, mixed>>
  BY ReqLeaveDoes DEF CInv
<1>2. pc'[l].m = 0 /\ pc'[l].at = "idle" /\ \A k \in Lsn \ {l} : pc'[k] = pc[k]
  BY <1>1 DEF PcAt, Idle
<1>3. ASSUME NEW m \in Mtypes PROVE Good(m)'
  <2>1. LinkLess(m)
    BY <1>1 DEF LinkLess, LinkAt, Waits, Closed
  <2>2. Untouched(m)
    BY <1>1, <1>2, <2>1 DEF Untouched, Mtypes
  <2> QED BY <2>2, UntouchedGood DEF CInv
<1> QED BY <1>1, <1>2, <1>3 DEF CInv, Still

\* The session is deleted, or was before.
LEMMA OwnEnd ==
  ASSUME CInv, NEW l \in Lsn,
         \/ ReqFail(l) \/ ReqUndo(l) \/ ReqDrop(l) \/ Expire(l) \/ DeleteSession(l)
         \/ DestroyVars(l) /\ pc[l].at = "null_destroy"
  PROVE  CInv'
<1>0. PICK m : m = pc[l].m
  OBVIOUS
<1>1. /\ IInv' /\ UNCHANGED <<queue, work, mixed>> /\ m \in Mtypes /\ pc[l].at \in Own \cup Gone
      /\ pc[l].at \in Own => SlotAt(m, [used |-> FALSE, r |-> slot[m].r])
      /\ UNCHANGED slot \/ SlotAt(m, [used |-> FALSE, r |-> slot[m].r])
  <2>1. pc[l].at # "expire"
    BY DEF CInv, Still
  <2> QED BY <1>0, <2>1, ReqFailDoes, ReqUndoDoes, ReqDropDoes, DeleteSessionDoes, DestroyVarsDoes,
             Positions DEF CInv, Own, Gone, ghost
<1>2. PICK q : PcAt(l, q) /\ q.at \in Gone \cup {"idle"} /\ q.m \in {0, m}
  <2>1. Idle.at = "idle" /\ Idle.m = 0
    BY DEF Idle
  <2>2. CASE PcAt(l, Idle)
    BY <2>1, <2>2
  <2>3. CASE ReqFail(l)
    <3>1. PcAt(l, [at |-> "undo", i |-> pc[l].i, m |-> m, r |-> pc[l].r])
      BY <1>0, <2>3, ReqFailDoes DEF CInv
    <3> QED BY <3>1 DEF Gone
  <2>4. CASE DestroyVars(l) /\ pc[l].at = "null_destroy"
    <3>1. PcAt(l, [at |-> "null_delete", i |-> pc[l].i, m |-> m, r |-> pc[l].r])
      BY <1>0, <2>4, DestroyVarsDoes DEF CInv
    <3> QED BY <3>1 DEF Gone
  <2> QED BY <2>2, <2>3, <2>4, ReqUndoDoes, ReqDropDoes, DeleteSessionDoes DEF CInv
<1>3. UNCHANGED link \/ LinkAt(l, pc[l].i, Closed)
  BY ReqFailDoes, ReqUndoDoes, ReqDropDoes, DeleteSessionDoes, DestroyVarsDoes DEF CInv
<1>4. \A t \in Mtypes \ {m} : pool'[t] = pool[t]
  BY <1>0, ReqFailDoes, ReqUndoDoes, ReqDropDoes, DeleteSessionDoes, DestroyVarsDoes DEF CInv, PoolAt
<1>5. \A t \in Mtypes : LinkLess(t)
  BY <1>3 DEF LinkLess, LinkAt, Waits, Closed
<1>6. pc'[l] = q /\ (\A k \in Lsn \ {l} : pc'[k] = pc[k])
  BY <1>2 DEF PcAt
<1>7. Good(m)'
  <2>1. Good(m)
    BY <1>1 DEF CInv
  <2>2. /\ \A k \in Lsn \ {l} : ~Owns(k, m)
        /\ \A p \in Procs : \A c \in queue[p] : c.m # m
        /\ \A s \in Svc : work[s].m # m
        /\ \A k \in Lsn, i \in Index : ~Waits(k, i, m)
    <3>1. CASE pc[l].at \in Own
      BY <1>0, <1>1, <2>1, <3>1, OwnAlone DEF Owns
    <3>2. CASE pc[l].at \in Gone
      <4>1. ~slot[m].used
        BY <1>0, <2>1, <3>2 DEF Good, Drawn
      <4> QED BY <1>1, <2>1, <4>1, UnusedDead
    <3> QED BY <1>1, <3>1, <3>2
  <2>3. ~slot'[m].used
    <3>1. CASE pc[l].at \in Own
      BY <1>1, <3>1 DEF SlotAt
    <3>2. CASE pc[l].at \in Gone
      <4>1. ~slot[m].used
        BY <1>0, <2>1, <3>2 DEF Good, Drawn
      <4> QED BY <1>1, <4>1 DEF SlotAt
    <3> QED BY <1>1, <3>1, <3>2
  <2>4. \A k \in Lsn : ~Owns(k, m)'
    BY <1>2, <1>6, <2>2 DEF Owns, Own, Gone
  <2>5. \A k \in Lsn, i \in Index : ~Waits(k, i, m)'
    BY <1>1, <1>5, <2>2 DEF LinkLess
  <2> QED BY <1>1, <2>2, <2>3, <2>4, <2>5, DeadGood
<1>8. ASSUME NEW t \in Mtypes, t # m PROVE Good(t)'
  <2>1. slot'[t] = slot[t]
    BY <1>1, <1>8 DEF SlotAt
  <2>2. Untouched(t)
    BY <1>1, <1>2, <1>4, <1>5, <1>6, <1>8, <2>1 DEF Untouched, Mtypes
  <2> QED BY <2>2, UntouchedGood DEF CInv
<1>9. Still'
  BY <1>1, <1>2, <1>6 DEF CInv, Still, Gone
<1> QED BY <1>1, <1>7, <1>8, <1>9 DEF CInv

\* The command of a session in a queue.
LEMMA QueueGood ==
  ASSUME NEW m \in Mtypes, NEW p \in Procs, NEW d, Is(m, d.r)', Joined(m)',
         \A o \in Procs : \A e \in queue'[o] : e.m = m => o = p /\ e = d,
         \A s \in Svc : work'[s].m # m,
         \A k \in Lsn : pc'[k].m # m,
         p \in Lsn => HomeAt(m, p)', p \in Svc => Stacked(m)'
  PROVE  Good(m)'
<1>1. Single(m)'
  BY DEF Single, Owns
<1>2. Drawn(m)'
  BY DEF Drawn, Owns
<1>3. Homed(m)'
  BY DEF Homed, Procs
<1> QED BY <1>1, <1>2, <1>3 DEF Good

\* At work, and after it was lost.
LEMMA WorkGood ==
  ASSUME NEW m \in Mtypes, NEW s \in Svc, Joined(m)',
         \A t \in Svc : work'[t].m = m => t = s,
         work'[s].m = m => Is(m, work[s].r)' /\ Stacked(m)',
         \A p \in Procs : \A c \in queue'[p] : c.m # m,
         \A k \in Lsn : pc'[k].m # m
  PROVE  Good(m)'
<1>1. Single(m)'
  BY DEF Single, Owns
<1>2. Drawn(m)'
  BY DEF Drawn, Owns
<1>3. Homed(m)'
  BY DEF Homed, Procs
<1> QED BY <1>1, <1>2, <1>3 DEF Good

LEMMA JoinedKept ==
  ASSUME NEW m \in Mtypes, Joined(m), slot'[m] = slot[m], pool'[m].r = pool[m].r, link' = link,
         \A k \in Lsn : pc'[k].m # m
  PROVE  Joined(m)'
BY DEF Joined, Waits, Owns, Is

LEMMA CmdAlone ==
  ASSUME CInv, NEW m \in Mtypes, NEW s \in Svc, work[s].m = m
  PROVE  /\ Is(m, work[s].r) /\ Joined(m) /\ Stacked(m)
         /\ \A p \in Procs : \A c \in queue[p] : c.m # m
         /\ \A t \in Svc : work[t].m = m => t = s
         /\ \A k \in Lsn : pc[k].m # m
<1>1. Good(m)
  BY DEF CInv
<1>2. /\ Is(m, work[s].r) /\ Joined(m) /\ Stacked(m)
      /\ \A p \in Procs : \A c \in queue[p] : c.m # m
      /\ \A t \in Svc : work[t].m = m => t = s
      /\ \A k \in Lsn : ~Owns(k, m)
  BY <1>1 DEF Good, Single, Drawn, Homed
<1> QED BY <1>2, Absent DEF Is

LEMMA QueuedAlone ==
  ASSUME CInv, NEW m \in Mtypes, NEW p \in Procs, NEW c \in queue[p], c.m = m
  PROVE  /\ Is(m, c.r) /\ Joined(m)
         /\ p \in Lsn => HomeAt(m, p)
         /\ p \in Svc => Stacked(m)
         /\ \A o \in Procs : \A e \in queue[o] : e.m = m => o = p /\ e = c
         /\ \A s \in Svc : work[s].m # m
         /\ \A k \in Lsn : pc[k].m # m
<1>1. Good(m)
  BY DEF CInv
<1>2. /\ Is(m, c.r) /\ Joined(m)
      /\ p \in Lsn => HomeAt(m, p)
      /\ p \in Svc => Stacked(m)
      /\ \A o \in Procs : \A e \in queue[o] : e.m = m => o = p /\ e = c
      /\ \A s \in Svc : work[s].m # m
      /\ \A k \in Lsn : ~Owns(k, m)
  BY <1>1 DEF Good, Single, Drawn, Homed
<1> QED BY <1>2, Absent DEF Is

\* The request goes out, its connection waits.
LEMMA OwnSend == ASSUME CInv, NEW l \in Lsn, NEW s \in Svc, ReqSend(l, s) PROVE CInv'
<1>0. PICK m, i, r : m = pc[l].m /\ i = pc[l].i /\ r = pc[l].r
  OBVIOUS
<1> DEFINE c == [m |-> m, r |-> r, type |-> "TASKREQ"]
           f == [ori |-> l, type |-> "TASKREQ"]
<1>1. /\ IInv' /\ pc[l].at = "send" /\ PcAt(l, Idle)
      /\ LinkAt(l, i, [use |-> 2, m |-> m, r |-> r])
      /\ PoolAt(m, [r |-> pool[m].r, stack |-> Append(pool[m].stack, f)])
      /\ QueueAt(s, {d \in queue[s] : d.m # m} \cup {c})
      /\ UNCHANGED <<slot, work, mixed>>
  BY <1>0, ReqSendDoes DEF CInv, ghost
<1>2. m \in Mtypes /\ i \in Index /\ r \in Req /\ Owns(l, m)
  BY <1>0, <1>1, Positions DEF CInv, Owns, Own, OfLink
<1>3. /\ pc'[l].m = 0 /\ pc'[l].at = "idle" /\ \A k \in Lsn \ {l} : pc'[k] = pc[k]
      /\ link'[l][i].use = 2 /\ link'[l][i].m = m /\ link'[l][i].r = r
      /\ \A h \in Lsn, j \in Index : h # l \/ j # i => link'[h][j] = link[h][j]
      /\ pool'[m].r = pool[m].r /\ pool'[m].stack = Append(pool[m].stack, f)
      /\ \A t \in Mtypes \ {m} : pool'[t] = pool[t]
      /\ queue'[s] = {d \in queue[s] : d.m # m} \cup {c}
      /\ \A p \in Procs \ {s} : queue'[p] = queue[p]
  BY <1>1 DEF PcAt, Idle, LinkAt, PoolAt, QueueAt, Procs
<1>4. Good(m)'
  <2>1. Good(m)
    BY <1>2 DEF CInv
  <2>2. /\ Is(m, r) /\ pool[m].r = r /\ pool[m].stack = <<>>
    BY <1>0, <1>1, <1>2, <2>1 DEF Good, Drawn
  <2>3. /\ \A k \in Lsn \ {l} : pc[k].m # m
        /\ \A p \in Procs : \A e \in queue[p] : e.m # m
        /\ \A t \in Svc : work[t].m # m
        /\ \A k \in Lsn, j \in Index : ~Waits(k, j, m)
    <3>1. /\ \A k \in Lsn \ {l} : ~Owns(k, m)
          /\ \A p \in Procs : \A e \in queue[p] : e.m # m
          /\ \A t \in Svc : work[t].m # m
          /\ \A k \in Lsn, j \in Index : ~Waits(k, j, m)
      BY <1>2, <2>1, OwnAlone DEF Owns
    <3> QED BY <1>2, <2>2, <3>1, Absent DEF Is
  <2>4. \A k \in Lsn : pc'[k].m # m
    BY <1>2, <1>3, <2>3 DEF Mtypes
  <2>5. \A k \in Lsn, j \in Index : Waits(k, j, m)' => k = l /\ j = i
    BY <1>3, <2>3 DEF Waits
  <2>6. Is(m, r)'
    BY <1>1, <2>2 DEF Is
  <2>7. Joined(m)'
    BY <1>3, <2>2, <2>4, <2>5, <2>6 DEF Joined, Owns
  <2>8. Stacked(m)'
    <3>1. pool'[m].stack = <<f>>
      BY <1>3, <2>2
    <3>2. <<f>> # <<>> /\ <<f>>[1].ori = l /\ Len(<<f>>) = 1
      OBVIOUS
    <3>3. \A j \in 2 .. Len(<<f>>) : FALSE
      BY <3>2
    <3>4. HomeAt(m, l)'
      BY <2>5 DEF HomeAt
    <3> HIDE DEF f
    <3> QED BY <3>1, <3>2, <3>3, <3>4 DEF Stacked, HomeAt
  <2>9. \A o \in Procs : \A e \in queue'[o] : e.m = m => o = s /\ e = c
    BY <1>3, <2>3
  <2>10. c.r = r /\ s \in Procs /\ s \notin Lsn
    BY DEF Procs
  <2>11. \A t \in Svc : work'[t].m # m
    BY <1>1, <2>3
  <2> HIDE DEF c
  <2> QED BY <1>2, <2>4, <2>6, <2>7, <2>8, <2>9, <2>10, <2>11, QueueGood
<1>5. ASSUME NEW t \in Mtypes, t # m PROVE Good(t)'
  <2>1. slot'[t] = slot[t] /\ pool'[t] = pool[t]
    BY <1>1, <1>3, <1>5
  <2>2. LinkLess(t)
    BY <1>3, <1>5 DEF LinkLess, Waits
  <2>3. \A p \in Procs : \A e \in queue'[p] : e.m = t => e \in queue[p]
    BY <1>3, <1>5
  <2>4. \A h \in Lsn : pc'[h].m = t => pc'[h] = pc[h]
    BY <1>3 DEF Mtypes
  <2>5. Untouched(t)
    BY <1>1, <2>1, <2>2, <2>3, <2>4 DEF Untouched
  <2> QED BY <2>5, UntouchedGood DEF CInv
<1>6. Still'
  BY <1>1, <1>3 DEF CInv, Still
<1> QED BY <1>1, <1>4, <1>5, <1>6 DEF CInv

LEMMA OwnTake == ASSUME CInv, NEW s \in Svc, NEW c \in queue[s], Take(s, c) PROVE CInv'
<1>1. /\ IInv' /\ c \in Cmd /\ QueueAt(s, queue[s] \ {c}) /\ WorkAt(s, Taken(c))
      /\ Taken(c).m = c.m /\ Taken(c).r = c.r
      /\ UNCHANGED <<link, pc, slot, pool, mixed>>
  BY TakeDoes DEF CInv, ghost
<1>2. PICK m \in Mtypes : m = c.m
  BY <1>1 DEF Cmd
<1>3. /\ queue'[s] = queue[s] \ {c} /\ \A p \in Procs \ {s} : queue'[p] = queue[p]
      /\ work'[s].m = m /\ work'[s].r = c.r /\ \A t \in Svc \ {s} : work'[t] = work[t]
      /\ s \in Procs
  BY <1>1, <1>2 DEF QueueAt, WorkAt, Procs
<1>4. Good(m)'
  <2>1. /\ Is(m, c.r) /\ Joined(m) /\ Stacked(m)
        /\ \A o \in Procs : \A e \in queue[o] : e.m = m => o = s /\ e = c
        /\ \A t \in Svc : work[t].m # m
        /\ \A k \in Lsn : pc[k].m # m
    BY <1>2, <1>3, QueuedAlone
  <2>2. Is(m, work[s].r)' /\ Stacked(m)' /\ Joined(m)'
    BY <1>1, <1>3, <2>1 DEF Is, Stacked, HomeAt, Waits, Joined, Owns
  <2>3. \A p \in Procs : \A e \in queue'[p] : e.m # m
    BY <1>3, <2>1
  <2> QED BY <1>1, <1>3, <2>1, <2>2, <2>3, WorkGood
<1>5. ASSUME NEW t \in Mtypes, t # m PROVE Good(t)'
  <2>1. Untouched(t)
    BY <1>1, <1>3, <1>5 DEF Untouched, LinkLess, Waits
  <2> QED BY <2>1, UntouchedGood DEF CInv
<1>6. Still'
  BY <1>1 DEF CInv, Still
<1> QED BY <1>1, <1>4, <1>5, <1>6 DEF CInv

\* A service sends its command on, as d, to p.
LEMMA OwnPass ==
  ASSUME CInv, IInv', NEW s \in Svc, NEW p \in Procs, NEW m \in Mtypes, NEW d,
         work[s].m = m, d.m = m, d.r = work[s].r, WorkAt(s, NoCmd),
         QueueAt(p, {e \in queue[p] : e.m # m} \cup {d}),
         UNCHANGED <<link, pc, slot, mixed>>,
         pool'[m].r = pool[m].r, \A t \in Mtypes \ {m} : pool'[t] = pool[t],
         p \in Lsn => HomeAt(m, p), p \in Svc => Stacked(m)'
  PROVE  CInv'
<1>1. /\ queue'[p] = {e \in queue[p] : e.m # m} \cup {d} /\ \A o \in Procs \ {p} : queue'[o] = queue[o]
      /\ work'[s].m = 0 /\ \A t \in Svc \ {s} : work'[t] = work[t]
  BY DEF QueueAt, WorkAt, Procs, NoCmd
<1>2. Good(m)'
  <2>1. /\ Is(m, work[s].r) /\ Joined(m)
        /\ \A o \in Procs : \A e \in queue[o] : e.m # m
        /\ \A t \in Svc : work[t].m = m => t = s
        /\ \A k \in Lsn : pc[k].m # m
    BY CmdAlone
  <2>2. Is(m, d.r)'
    BY <2>1 DEF Is
  <2>3. Joined(m)'
    BY <2>1, JoinedKept
  <2>4. \A o \in Procs : \A e \in queue'[o] : e.m = m => o = p /\ e = d
    BY <1>1, <2>1
  <2>5. \A t \in Svc : work'[t].m # m
    BY <1>1, <2>1 DEF Mtypes
  <2>6. p \in Lsn => HomeAt(m, p)'
    BY DEF HomeAt, Waits
  <2> QED BY <2>1, <2>2, <2>3, <2>4, <2>5, <2>6, QueueGood
<1>3. ASSUME NEW t \in Mtypes, t # m PROVE Good(t)'
  <2>1. \A o \in Procs : \A e \in queue'[o] : e.m = t => e \in queue[o]
    BY <1>1, <1>3
  <2>2. \A o \in Svc : work'[o].m = t => work'[o] = work[o]
    BY <1>1 DEF Mtypes
  <2>3. Untouched(t)
    BY <1>3, <2>1, <2>2 DEF Untouched, LinkLess, Waits
  <2> QED BY <2>3, UntouchedGood DEF CInv
<1>4. Still'
  BY DEF CInv, Still
<1> QED BY <1>2, <1>3, <1>4 DEF CInv

LEMMA OwnAnswer == ASSUME CInv, NEW s \in Svc, NEW null \in BOOLEAN, Answer(s, null) PROVE CInv'
<1>1. PICK d \in Cmd :
        LET c == work[s]
            f == Top(work[s].m)
        IN  /\ IInv' /\ c \in Cmd /\ pool[c.m].stack # <<>> /\ f \in Frame
            /\ PoolAt(c.m, [r |-> pool[c.m].r,
                            stack |-> SubSeq(pool[c.m].stack, 1, Len(pool[c.m].stack) - 1)])
            /\ d.m = c.m /\ d.r = c.r
            /\ QueueAt(f.ori, {e \in queue[f.ori] : e.m # d.m} \cup {d}) /\ WorkAt(s, NoCmd)
            /\ UNCHANGED <<link, pc, slot, n, ghost>>
  BY AnswerDoes DEF CInv
<1>2. PICK m \in Mtypes : m = work[s].m
  BY <1>1 DEF Cmd
<1>3. PICK t \in Seq(Frame) : t = pool[m].stack
  BY <1>2 DEF CInv, IInv, PoolOK, Vars
<1>4. PICK p \in Procs : p = Top(m).ori
  BY <1>1, <1>2 DEF Frame, Procs
<1>5. /\ pool'[m].r = pool[m].r /\ pool'[m].stack = SubSeq(t, 1, Len(t) - 1)
      /\ \A k \in Mtypes \ {m} : pool'[k] = pool[k]
  BY <1>1, <1>2, <1>3 DEF PoolAt
<1>6. Stacked(m)
  BY <1>2, CmdAlone
<1>7. /\ t # <<>> /\ t[1].ori \in Lsn /\ HomeAt(m, t[1].ori) /\ Len(t) \in Nat \ {0}
      /\ \A j \in 2 .. Len(t) : t[j].ori \in Svc
  BY <1>3, <1>6 DEF Stacked
<1>8. p = t[Len(t)].ori
  BY <1>3, <1>4 DEF Top
<1>9. p \in Lsn => HomeAt(m, p)
  <2>1. Len(t) # 1 => Len(t) \in 2 .. Len(t)
    <3>1. \A k \in Nat \ {0} : k # 1 => k \in 2 .. k
      OBVIOUS
    <3> QED BY <1>7, <3>1
  <2>2. Len(t) # 1 => p \in Svc
    BY <1>7, <1>8, <2>1
  <2>3. p \in Lsn => Len(t) = 1
    BY <2>2
  <2> QED BY <1>7, <1>8, <2>3
<1>10. p \in Svc => Stacked(m)'
  <2> SUFFICES ASSUME p \in Svc PROVE Stacked(m)'
    OBVIOUS
  <2>1. Len(t) >= 2
    BY <1>7, <1>8
  <2>2. PICK u \in Seq(Frame) : u = SubSeq(t, 1, Len(t) - 1)
    <3>1. SubSeq(t, 1, Len(t) - 1) \in Seq(Frame)
      BY <1>3, <1>7
    <3> QED BY <3>1
  <2>3. Len(u) = Len(t) - 1 /\ \A j \in 1 .. Len(u) : u[j] = t[j]
    BY <1>3, <1>7, <2>1, <2>2
  <2>4. u # <<>> /\ u[1] = t[1] /\ \A j \in 2 .. Len(u) : u[j].ori \in Svc
    BY <1>7, <2>1, <2>3
  <2>5. pool'[m].stack = u /\ link' = link
    BY <1>1, <1>5, <2>2
  <2> QED BY <1>7, <2>4, <2>5 DEF Stacked, HomeAt, Waits
<1>11. /\ IInv' /\ d.m = m /\ d.r = work[s].r /\ WorkAt(s, NoCmd)
       /\ QueueAt(p, {e \in queue[p] : e.m # m} \cup {d}) /\ UNCHANGED <<link, pc, slot, mixed>>
  BY <1>1, <1>2, <1>4 DEF ghost
<1> QED BY <1>2, <1>5, <1>9, <1>10, <1>11, OwnPass

LEMMA OwnCall ==
  ASSUME CInv, NEW s \in Svc, NEW t \in Svc, Call(s, t) \/ Link(s, t) PROVE CInv'
<1>1. CASE Call(s, t)
  <2>1. PICK d \in Cmd :
          LET c == work[s]
          IN  /\ IInv' /\ c \in Cmd
              /\ PoolAt(c.m, [r |-> pool[c.m].r,
                              stack |-> Append(pool[c.m].stack, [ori |-> s, type |-> "CALLREQ"])])
              /\ d.m = c.m /\ d.r = c.r
              /\ QueueAt(t, {e \in queue[t] : e.m # d.m} \cup {d}) /\ WorkAt(s, NoCmd)
              /\ UNCHANGED <<link, pc, slot, n, ghost>>
    BY <1>1, CallDoes DEF CInv
  <2>2. PICK m \in Mtypes : m = work[s].m
    BY <2>1 DEF Cmd
  <2>3. PICK u \in Seq(Frame) : u = pool[m].stack
    BY <2>2 DEF CInv, IInv, PoolOK, Vars
  <2>4. PICK f \in Frame : f = [ori |-> s, type |-> "CALLREQ"]
    BY DEF Frame
  <2>5. PICK w \in Seq(Frame) : w = Append(u, f)
    <3>1. Append(u, f) \in Seq(Frame)
      OBVIOUS
    <3> QED BY <3>1
  <2>6. Len(w) = Len(u) + 1 /\ w[Len(u) + 1].ori = s /\ \A j \in 1 .. Len(u) : w[j] = u[j]
    BY <2>3, <2>4, <2>5
  <2>7. pool'[m].r = pool[m].r /\ pool'[m].stack = w /\ \A k \in Mtypes \ {m} : pool'[k] = pool[k]
    BY <2>1, <2>2, <2>3, <2>4, <2>5 DEF PoolAt
  <2>8. Stacked(m)
    BY <2>2, CmdAlone
  <2>9. /\ u # <<>> /\ u[1].ori \in Lsn /\ HomeAt(m, u[1].ori) /\ Len(u) \in Nat \ {0}
        /\ \A j \in 2 .. Len(u) : u[j].ori \in Svc
    BY <2>3, <2>8 DEF Stacked
  <2>10. w # <<>> /\ w[1] = u[1] /\ \A j \in 2 .. Len(w) : w[j].ori \in Svc
    BY <2>5, <2>6, <2>9
  <2>11. Stacked(m)'
    BY <2>1, <2>7, <2>9, <2>10 DEF Stacked, HomeAt, Waits
  <2>12. t \in Procs /\ t \notin Lsn
    BY DEF Procs
  <2> QED BY <2>1, <2>2, <2>7, <2>11, <2>12, OwnPass DEF ghost
<1>2. CASE Link(s, t)
  <2>1. PICK d \in Cmd :
          LET c == work[s]
          IN  /\ IInv' /\ c \in Cmd
              /\ d.m = c.m /\ d.r = c.r
              /\ QueueAt(t, {e \in queue[t] : e.m # d.m} \cup {d}) /\ WorkAt(s, NoCmd)
              /\ UNCHANGED <<link, pc, slot, pool, n, ghost>>
    BY <1>2, LinkDoes DEF CInv
  <2>2. PICK m \in Mtypes : m = work[s].m
    BY <2>1 DEF Cmd
  <2>3. Stacked(m)
    BY <2>2, CmdAlone
  <2>4. Stacked(m)'
    BY <2>1, <2>3 DEF Stacked, HomeAt, Waits
  <2>5. t \in Procs /\ t \notin Lsn
    BY DEF Procs
  <2> QED BY <2>1, <2>2, <2>4, <2>5, OwnPass DEF ghost
<1> QED BY <1>1, <1>2

LEMMA OwnLose == ASSUME CInv, NEW s \in Svc, Lose(s) PROVE CInv'
<1>1. /\ IInv' /\ work[s] \in Cmd /\ WorkAt(s, NoCmd)
      /\ \/ UNCHANGED pool
         \/ \E t : PoolAt(work[s].m, [r |-> pool[work[s].m].r, stack |-> t])
      /\ UNCHANGED <<link, pc, slot, queue, mixed>>
  BY LoseDoes DEF CInv, ghost
<1>2. PICK m \in Mtypes : m = work[s].m
  BY <1>1 DEF Cmd
<1>3. /\ pool'[m].r = pool[m].r /\ \A k \in Mtypes \ {m} : pool'[k] = pool[k]
      /\ work'[s].m = 0 /\ \A t \in Svc \ {s} : work'[t] = work[t]
  <2>1. work'[s].m = 0 /\ \A t \in Svc \ {s} : work'[t] = work[t]
    BY <1>1 DEF WorkAt, NoCmd
  <2>2. CASE UNCHANGED pool
    BY <2>1, <2>2
  <2>3. ASSUME NEW t, PoolAt(m, [r |-> pool[m].r, stack |-> t])
        PROVE  pool'[m].r = pool[m].r /\ \A k \in Mtypes \ {m} : pool'[k] = pool[k]
    BY <2>3 DEF PoolAt
  <2> QED BY <1>1, <1>2, <2>1, <2>2, <2>3
<1>4. Good(m)'
  <2>1. /\ Joined(m)
        /\ \A p \in Procs : \A c \in queue[p] : c.m # m
        /\ \A t \in Svc : work[t].m = m => t = s
        /\ \A k \in Lsn : pc[k].m # m
    BY <1>2, CmdAlone
  <2>2. Joined(m)'
    BY <1>1, <1>3, <2>1, JoinedKept
  <2>3. \A t \in Svc : work'[t].m # m
    BY <1>3, <2>1 DEF Mtypes
  <2> QED BY <1>1, <2>1, <2>2, <2>3, WorkGood
<1>5. ASSUME NEW t \in Mtypes, t # m PROVE Good(t)'
  <2>1. \A o \in Svc : work'[o].m = t => work'[o] = work[o]
    BY <1>3 DEF Mtypes
  <2>2. Untouched(t)
    BY <1>1, <1>3, <1>5, <2>1 DEF Untouched, LinkLess, Waits
  <2> QED BY <2>2, UntouchedGood DEF CInv
<1>6. Still'
  BY <1>1 DEF CInv, Still
<1> QED BY <1>1, <1>4, <1>5, <1>6 DEF CInv

\* A command comes back to the listener whose connection waits, if any does:
\* after the step none does.
LEMMA NoneWaits ==
  ASSUME CInv, NEW l \in Lsn, NEW c \in queue[l], NEW m \in Mtypes, c.m = m,
         CloseWaiting(l, m) \/ (UNCHANGED link /\ Waiting(l, m) = {})
  PROVE  \A k \in Lsn, i \in Index : ~Waits(k, i, m)'
<1>1. Joined(m) /\ HomeAt(m, l)
  BY QueuedAlone DEF Procs
<1> SUFFICES ASSUME NEW k \in Lsn, NEW i \in Index, Waits(k, i, m)' PROVE FALSE
  OBVIOUS
<1>2. Waits(k, i, m)
  BY DEF CloseWaiting, Waits, Closed
<1>3. k = l
  BY <1>1, <1>2 DEF HomeAt
<1>4. i \in Waiting(l, m)
  <2>1. \A j \in 1 .. i - 1 : link[l][j].m # m
    <3> SUFFICES ASSUME NEW j \in 1 .. i - 1, link[l][j].m = m PROVE FALSE
      OBVIOUS
    <3>1. j \in Index /\ j # i
      BY DEF Index
    <3>2. link[l][j].use \in 0 .. 3 /\ (link[l][j].use < 2 => link[l][j].m = 0)
      BY <3>1, Entries DEF CInv
    <3>3. Waits(l, j, m)
      BY <3>2 DEF Waits, Mtypes
    <3> QED BY <1>1, <1>2, <1>3, <3>1, <3>3 DEF Joined
  <2>2. link[l][i].use \in 0 .. 3
    BY Entries DEF CInv
  <2> QED BY <1>2, <1>3, <2>1, <2>2 DEF Waiting, Waits
<1> QED BY <1>3, <1>4 DEF CloseWaiting, Waits, Closed

\* It has the variables of its own request.
LEMMA OwnAnswered ==
  ASSUME CInv, NEW l \in Lsn, NEW c \in queue[l], c \in Cmd, NEW i \in Waiting(l, c.m)
  PROVE  link[l][i].r = c.r /\ pool[c.m].r = c.r
<1>1. PICK m \in Mtypes : m = c.m
  BY DEF Cmd
<1>2. i \in Index /\ link[l][i].m = m
  BY <1>1 DEF Waiting
<1>3. Waits(l, i, m)
  <2>1. link[l][i].use \in 0 .. 3 /\ (link[l][i].use < 2 => link[l][i].m = 0)
    BY <1>2, Entries DEF CInv
  <2> QED BY <1>2, <2>1 DEF Waits, Mtypes
<1>4. Is(m, c.r) /\ Joined(m)
  BY <1>1, QueuedAlone DEF Procs
<1> QED BY <1>1, <1>2, <1>3, <1>4 DEF Joined, Is

LEMMA OwnReceive ==
  ASSUME CInv, ~torn', NEW l \in Lsn, NEW c, Res(l, c) \/ LinkNull(l, c) \/ NoVars(l, c)
  PROVE  CInv'
<1>1. IInv' /\ c \in queue[l] /\ c \in Cmd /\ QueueAt(l, queue[l] \ {c}) /\ UNCHANGED work
  BY ResDoes, LinkNullDoes, NoVarsDoes DEF CInv
<1>2. PICK m \in Mtypes : m = c.m
  BY <1>1 DEF Cmd
<1>3. CloseWaiting(l, m) \/ (UNCHANGED link /\ Waiting(l, m) = {})
  BY <1>2, ResDoes, LinkNullDoes, NoVarsDoes DEF CInv
<1>4. PICK at \in {"destroy", "delete", "null_destroy"} :
        /\ PcAt(l, [at |-> at, i |-> 0, m |-> m, r |-> c.r])
        /\ at # "null_destroy" => UNCHANGED <<slot, pool>>
        /\ at = "null_destroy" => /\ SlotAt(m, [used |-> FALSE, r |-> slot[m].r])
                                  /\ \A t \in Mtypes \ {m} : pool'[t] = pool[t]
  <2>1. CASE Res(l, c)
    BY <1>2, <2>1, ResDoes DEF CInv
  <2>2. CASE NoVars(l, c)
    BY <1>2, <2>2, NoVarsDoes DEF CInv
  <2>3. CASE LinkNull(l, c)
    BY <1>2, <2>3, LinkNullDoes DEF CInv, PoolAt
  <2> QED BY <2>1, <2>2, <2>3
<1>5. /\ pc'[l].at = at /\ pc'[l].m = m /\ pc'[l].r = c.r /\ \A k \in Lsn \ {l} : pc'[k] = pc[k]
      /\ queue'[l] = queue[l] \ {c} /\ \A p \in Procs \ {l} : queue'[p] = queue[p]
      /\ l \in Procs
  BY <1>1, <1>4 DEF PcAt, QueueAt, Procs
<1>6. Good(m)'
  <2>1. /\ Is(m, c.r)
        /\ \A o \in Procs : \A e \in queue[o] : e.m = m => o = l /\ e = c
        /\ \A s \in Svc : work[s].m # m
        /\ \A k \in Lsn : pc[k].m # m
    BY <1>1, <1>2, <1>5, QueuedAlone
  <2>2. \A p \in Procs : \A e \in queue'[p] : e.m # m
    BY <1>5, <2>1
  <2>3. \A s \in Svc : work'[s].m # m
    BY <1>1, <2>1
  <2>4. \A k \in Lsn \ {l} : pc'[k].m # m
    BY <1>5, <2>1
  <2>5. \A k \in Lsn, i \in Index : ~Waits(k, i, m)'
    BY <1>1, <1>2, <1>3, NoneWaits
  <2>6. CASE at = "null_destroy"
    <3>1. ~slot'[m].used
      BY <1>4, <2>6 DEF SlotAt
    <3>2. \A k \in Lsn : ~Owns(k, m)'
      BY <1>5, <2>4, <2>6 DEF Owns, Own
    <3> QED BY <2>2, <2>3, <2>5, <3>1, <3>2, DeadGood
  <2>7. CASE at # "null_destroy"
    <3>1. Owns(l, m)' /\ Is(m, pc[l].r)' /\ pc'[l].at # "send"
      BY <1>4, <1>5, <2>1, <2>7 DEF Owns, Own, Is
    <3> QED BY <2>2, <2>3, <2>4, <2>5, <3>1, AloneGood
  <2> QED BY <2>6, <2>7
<1>7. ASSUME NEW t \in Mtypes, t # m PROVE Good(t)'
  <2>1. slot'[t] = slot[t] /\ pool'[t] = pool[t]
    BY <1>4, <1>7 DEF SlotAt
  <2>2. LinkLess(t)
    BY <1>3, <1>7 DEF LinkLess, Waits, CloseWaiting, Closed
  <2>3. Untouched(t)
    BY <1>1, <1>5, <1>7, <2>1, <2>2 DEF Untouched
  <2> QED BY <2>3, UntouchedGood DEF CInv
<1>8. ~mixed'
  <2>1. ~mixed
    BY DEF CInv, Still
  <2>2. CASE Res(l, c)
    <3>1. mixed' = (mixed \/ \E i \in Waiting(l, c.m) : {link[l][i].r} # {c.r, pool[c.m].r})
      BY <2>2, ResDoes DEF CInv
    <3>2. \A i \in Waiting(l, c.m) : link[l][i].r = c.r /\ pool[c.m].r = c.r
      BY <1>1, OwnAnswered
    <3> QED BY <2>1, <3>1, <3>2
  <2>3. CASE LinkNull(l, c) \/ NoVars(l, c)
    BY <2>1, <2>3, LinkNullDoes, NoVarsDoes DEF CInv, ghost
  <2> QED BY <2>2, <2>3
<1>9. Still'
  BY <1>5, <1>8 DEF CInv, Still
<1> QED BY <1>1, <1>6, <1>7, <1>9 DEF CInv

LEMMA OwnNext == OInv /\ [Next]_vars => OInv'
<1> SUFFICES ASSUME OInv, [Next]_vars PROVE OInv'
  OBVIOUS
<1>0. IInv /\ IInv'
  BY InvStep DEF OInv
<1> SUFFICES ASSUME Calm' PROVE CInv'
  BY <1>0 DEF OInv
<1>1. Calm /\ CInv
  BY <1>0, CalmBefore DEF OInv
<1>2. ~torn' /\ late = {} /\ late' = {}
  BY <1>1 DEF Calm
<1>3. CASE UNCHANGED vars
  <2>1. \A m \in Mtypes : Untouched(m)
    BY <1>3 DEF vars, Untouched, LinkLess, Waits
  <2>2. Still'
    BY <1>1, <1>3 DEF CInv, Still, vars, ghost
  <2> QED BY <1>0, <1>1, <2>1, <2>2, UntouchedGood DEF CInv
<1>4. ASSUME NEW l \in Lsn, NEW i \in Index,
             Accept(l, i) \/ HangUp(l, i) \/ ReqNoSlot(l, i) \/ TimeoutAccepted(l, i)
      PROVE  CInv'
  BY <1>1, <1>4, OwnLink
<1>5. ASSUME NEW l \in Lsn, NEW i \in Index, Timeout(l, i) PROVE CInv'
  BY <1>0, <1>2, <1>5, TimeoutDoes
<1>6. ASSUME NEW l \in Lsn, NEW i \in Index, NEW m \in Mtypes, ReqNew(l, i, m) PROVE CInv'
  BY <1>1, <1>2, <1>6, OwnNew
<1>7. ASSUME NEW l \in Lsn, NEW c, Res(l, c) \/ LinkNull(l, c) \/ NoVars(l, c) PROVE CInv'
  BY <1>1, <1>2, <1>7, OwnReceive
<1>8. ASSUME NEW l \in Lsn, LsnStep(l) PROVE CInv'
  <2>1. DestroyVars(l) => pc[l].at \in {"destroy", "null_destroy"}
    BY DEF DestroyVars
  <2> QED BY <1>1, <1>8, <2>1, OwnGoto, OwnLeave, OwnEnd, OwnSend DEF LsnStep
<1>9. ASSUME NEW s \in Svc, NEW c \in queue[s], Take(s, c) PROVE CInv'
  BY <1>1, <1>9, OwnTake
<1>10. ASSUME NEW s \in Svc, NEW null \in BOOLEAN, Answer(s, null) PROVE CInv'
  BY <1>1, <1>10, OwnAnswer
<1>11. ASSUME NEW s \in Svc, NEW t \in Svc, Call(s, t) \/ Link(s, t) PROVE CInv'
  BY <1>1, <1>11, OwnCall
<1>12. ASSUME NEW s \in Svc, Lose(s) PROVE CInv'
  BY <1>1, <1>12, OwnLose
<1>13. ASSUME NEW r \in Req, Age(r) PROVE CInv'
  BY <1>0, <1>2, <1>13, AgeDoes
<1>14. ASSUME NEW s \in Svc, Grow(s) \/ \E c \in queue[s] : TakeFails(s, c) PROVE CInv'
  <2>1. /\ UNCHANGED <<link, pc, slot, pool, work, ghost>>
        /\ UNCHANGED queue \/ \E c \in queue[s] : QueueAt(s, queue[s] \ {c})
    BY <1>0, <1>14, GrowDoes, TakeFailsDoes
  <2>2. \A p \in Procs : \A c \in queue'[p] : c \in queue[p]
    BY <2>1 DEF QueueAt, Procs
  <2>3. \A m \in Mtypes : Untouched(m)
    BY <2>1, <2>2 DEF Untouched, LinkLess, Waits
  <2>4. Still'
    BY <1>1, <2>1 DEF CInv, Still, ghost
  <2> QED BY <1>0, <1>1, <2>3, <2>4, UntouchedGood DEF CInv
<1> QED BY <1>3, <1>4, <1>5, <1>6, <1>7, <1>8, <1>9, <1>10, <1>11, <1>12, <1>13, <1>14 DEF Next

LEMMA OwnInit == Init => OInv
<1> SUFFICES ASSUME Init PROVE CInv
  BY InvInit DEF OInv, CInv
<1>1. \A l \in Lsn : pc[l] = Idle /\ \A i \in Index : link[l][i] = Closed
  BY DEF Init
<1>2. Still
  BY <1>1 DEF Init, Still, Idle
<1>3. ASSUME NEW m \in Mtypes PROVE Good(m)
  <2>1. /\ \A k \in Lsn : ~Owns(k, m) /\ pc[k].at = "idle"
        /\ \A k \in Lsn, i \in Index : ~Waits(k, i, m)
    BY <1>1 DEF Idle, Closed, Owns, Own, Waits
  <2>2. /\ \A p \in Procs : queue[p] = {}
        /\ \A s \in Svc : work[s].m # m
    BY DEF Init, NoCmd, Procs, Mtypes
  <2> QED BY <2>1, <2>2 DEF Good, Single, Drawn, Joined, Homed, Gone, Procs
<1> QED BY <1>2, <1>3, InvInit DEF CInv

LEMMA OwnInvariance == Spec => []OInv
BY OwnInit, OwnNext, PTL DEF Spec

\* While no request is late and the listener stays out of its windows, a
\* waiting connection has its session, and the session the variables of its
\* request, for any number of listeners, services and sessions: the stack of
\* callers leads every answer back to the listener it belongs to.
THEOREM Untorn == Spec => []Intact
<1>1. OInv => Intact
  <2> SUFFICES ASSUME OInv, late = {}, ~torn, NEW l \in Lsn, NEW i \in Index, link[l][i].use \in {2, 3}
               PROVE  /\ slot[link[l][i].m] = [used |-> TRUE, r |-> link[l][i].r]
                      /\ pool[link[l][i].m].r = link[l][i].r
    BY DEF Intact
  <2>1. PICK m \in Mtypes : m = link[l][i].m
    BY Entries DEF OInv
  <2>2. Good(m)
    BY DEF OInv, CInv, Calm
  <2>3. Waits(l, i, m)
    BY <2>1 DEF Waits
  <2>4. Is(m, link[l][i].r) /\ pool[m].r = link[l][i].r
    BY <2>2, <2>3 DEF Good, Joined
  <2>5. slot[m] \in [used : BOOLEAN, r : {0} \cup Req]
    BY DEF OInv, IInv, SlotOK
  <2> QED BY <2>1, <2>4, <2>5 DEF Is
<1> QED BY <1>1, OwnInvariance, PTL

\* ... and the answer a connection gets is the answer to its own request
\* (lsn_find_index_by_mtype looks only for the session).
THEOREM OwnAnswers == Spec => []AnswerOwn
<1>1. OInv => AnswerOwn
  BY DEF OInv, CInv, Calm, Still, AnswerOwn
<1> QED BY <1>1, OwnInvariance, PTL
=============================================================================
