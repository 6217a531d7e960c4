------------------------------ MODULE MsgTrans ------------------------------
(***************************************************************************)
(* core/msg_trans.c: how commands travel between the processes of the      *)
(* switch.  Each process receives on a System V message queue of its own,  *)
(* and because select cannot wait for such a queue, a named pipe carries   *)
(* one byte per message: msg_trans_send puts the message and then the      *)
(* byte, msg_trans_rcv runs when the pipe is readable, takes a byte and    *)
(* then a message.  Before it puts a message, the sender throws away the   *)
(* messages of the same mtype it finds, whose bytes stay in the pipe.      *)
(*                                                                         *)
(* One queue with its receiver; nothing here blocks, a full queue or pipe  *)
(* is an error to the sender.  Messages are numbered in the order of their *)
(* msgsnd, so that the kernel's queue is a set of numbers.                 *)
(***************************************************************************)
EXTENDS Integers, FiniteSets

CONSTANTS Sender,      \* processes that send to this queue
          Mtypes,      \* the sessions their commands belong to
          None,        \* no session
          QueueMax,    \* messages that fit in msg_qbytes
          FifoMax,     \* bytes that fit in the pipe
          MaxSend,     \* bound: messages put
          MaxCrash     \* bound: senders that die between message and byte

ASSUME SenderAssumption == IsFiniteSet(Sender)
ASSUME NoneAssumption == None \notin Mtypes
ASSUME SizeAssumption == QueueMax \in Nat /\ FifoMax \in Nat
\* A pipe holds 65536 bytes, a queue of 65536 bytes about thirty commands.
ASSUME PipeAssumption == QueueMax <= FifoMax
ASSUME BoundAssumption == MaxSend \in Nat /\ MaxCrash \in Nat

VARIABLES queue,       \* the messages in the queue
          mt,          \* the mtype of each message ever put
          fifo,        \* bytes in the pipe
          open,        \* the queue exists
          snd,         \* where a sender is, and the mtype it sends
          rcv,         \* "idle" or "token": the receiver has taken a byte
          got,         \* the messages msg_trans_rcv has returned
          overlap,     \* mtypes for which two senders were at work at once
          torn         \* senders that died between the message and its byte

vars == <<queue, mt, fifo, open, snd, rcv, got, overlap, torn>>

Msg == 1 .. MaxSend
Put == DOMAIN mt
Away == [at |-> "idle", mtype |-> None]
Pending == {p \in Sender : snd[p].at = "byte"}
OfType(t) == {n \in queue : mt[n] = t}

TypeOK == /\ queue \subseteq Put
          /\ \E k \in 0 .. MaxSend : mt \in [1 .. k -> Mtypes]
          /\ fifo \in 0 .. FifoMax /\ open \in BOOLEAN
          /\ snd \in [Sender -> [at : {"idle", "clear", "put", "byte"}, mtype : Mtypes \cup {None}]]
          /\ rcv \in {"idle", "token"}
          /\ got \subseteq Put /\ got \cap queue = {}
          /\ overlap \subseteq Mtypes /\ torn \in 0 .. MaxCrash
          /\ Cardinality(queue) <= QueueMax

-----------------------------------------------------------------------------
\* msg_trans_create
Init == /\ queue = {} /\ mt = <<>> /\ fifo = 0 /\ open = TRUE
        /\ snd = [p \in Sender |-> Away]
        /\ rcv = "idle" /\ got = {} /\ overlap = {} /\ torn = 0

Goto(p, at) == snd' = [snd EXCEPT ![p].at = at]
Return(p) == snd' = [snd EXCEPT ![p] = Away]

\* A process calls msg_trans_send (route_snd_dst) for the session t.
SendCall(p, t) ==
    /\ snd[p].at = "idle"
    /\ snd' = [snd EXCEPT ![p] = [at |-> "clear", mtype |-> t]]
    /\ overlap' = IF \E q \in Sender : snd[q].mtype = t THEN overlap \cup {t} ELSE overlap
    /\ UNCHANGED <<queue, mt, fifo, open, rcv, got, torn>>

\* Mutant: only a full queue is cleared.
SendClearLazy(p) ==
    /\ snd[p].at = "clear"
    /\ IF Cardinality(queue) = QueueMax
       THEN queue' = queue \ OfType(snd[p].mtype) ELSE UNCHANGED queue
    /\ Goto(p, "put")
    /\ UNCHANGED <<mt, fifo, open, rcv, got, overlap, torn>>

\* pub_msq_clear: one message after the other of this mtype is taken out.
SendClear(p) ==
    /\ snd[p].at = "clear"
    /\ IF OfType(snd[p].mtype) # {}
       THEN /\ \E n \in OfType(snd[p].mtype) :
                  /\ \A k \in OfType(snd[p].mtype) : n <= k
                  /\ queue' = queue \ {n}
            /\ UNCHANGED snd
       ELSE Goto(p, "put") /\ UNCHANGED queue
    /\ UNCHANGED <<mt, fifo, open, rcv, got, overlap, torn>>

\* pub_msq_put with IPC_NOWAIT: a queue that is full, or gone, is an error.
CanPut == open /\ Cardinality(queue) < QueueMax
SendPut(p) ==
    /\ snd[p].at = "put" /\ CanPut
    /\ Cardinality(Put) < MaxSend
    /\ LET n == Cardinality(Put) + 1
       IN  /\ mt' = [k \in 1 .. n |-> IF k = n THEN snd[p].mtype ELSE mt[k]]
           /\ queue' = queue \cup {n}
    /\ Goto(p, "byte")
    /\ UNCHANGED <<fifo, open, rcv, got, overlap, torn>>

\* (When the file for the cleared messages cannot be opened, pub_msq_clear
\* 143-147, the call returns before it has done anything.)
SendFails(p) ==
    /\ snd[p].at = "put" /\ ~CanPut
    /\ Return(p)
    /\ UNCHANGED <<queue, mt, fifo, open, rcv, got, overlap, torn>>

\* Mutant: no byte for a pipe that is readable anyway.
SendByteOnce(p) ==
    /\ snd[p].at = "byte"
    /\ fifo' = IF fifo = 0 THEN 1 ELSE fifo
    /\ Return(p)
    /\ UNCHANGED <<queue, mt, open, rcv, got, overlap, torn>>

\* pub_fifo_put: a full pipe is an error, and the message stays in the queue.
SendByte(p) ==
    /\ snd[p].at = "byte"
    /\ fifo' = IF fifo < FifoMax THEN fifo + 1 ELSE fifo
    /\ Return(p)
    /\ UNCHANGED <<queue, mt, open, rcv, got, overlap, torn>>

-----------------------------------------------------------------------------
\* Mutant: the pipe is read empty.
RcvByteAll ==
    /\ open /\ rcv = "idle" /\ fifo > 0
    /\ fifo' = 0
    /\ rcv' = "token"
    /\ UNCHANGED <<queue, mt, open, snd, got, overlap, torn>>

\* The pipe is readable, msg_trans_rcv takes a byte ...
RcvByte ==
    /\ open /\ rcv = "idle" /\ fifo > 0
    /\ fifo' = fifo - 1
    /\ rcv' = "token"
    /\ UNCHANGED <<queue, mt, open, snd, got, overlap, torn>>

\* Mutant: the message is read and not taken out.
RcvMsgCopy ==
    /\ rcv = "token"
    /\ got' = IF queue = {} THEN got ELSE got \cup {CHOOSE n \in queue : \A k \in queue : n <= k}
    /\ rcv' = "idle"
    /\ UNCHANGED <<queue, mt, fifo, open, snd, overlap, torn>>

\* ... and the first message of any mtype.  There may be none (ENOMSG): the
\* command stays zeroed, and its handler drops it for want of an mtype.
RcvMsg ==
    /\ rcv = "token"
    /\ IF queue = {} THEN UNCHANGED <<queue, got>>
       ELSE \E n \in queue : /\ \A k \in queue : n <= k
                             /\ queue' = queue \ {n} /\ got' = got \cup {n}
    /\ rcv' = "idle"
    /\ UNCHANGED <<mt, fifo, open, snd, overlap, torn>>

\* The receiver ends (lsn_cycle, svc_cycle): msg_trans_rm.  Senders that
\* still have the queue's id run into SendFails.
Remove ==
    /\ open /\ rcv = "idle"
    /\ open' = FALSE /\ queue' = {}
    /\ UNCHANGED <<mt, fifo, snd, rcv, got, overlap, torn>>

\* A sender dies on its way.
Crash(p) ==
    /\ snd[p].at # "idle" /\ torn < MaxCrash
    /\ torn' = IF snd[p].at = "byte" THEN torn + 1 ELSE torn
    /\ Return(p)
    /\ UNCHANGED <<queue, mt, fifo, open, rcv, got, overlap>>

SendStep(p) == SendClear(p) \/ SendPut(p) \/ SendFails(p) \/ SendByte(p)
RcvStep == RcvByte \/ RcvMsg
Next == \/ \E p \in Sender : \/ \E t \in Mtypes : SendCall(p, t)
                             \/ SendStep(p) \/ Crash(p)
        \/ RcvStep \/ Remove

\* Senders run on, and the receiver's select loop comes by the pipe.
Fairness == WF_vars(RcvStep) /\ \A p \in Sender : WF_vars(SendStep(p))

Spec == Init /\ [][Next]_vars
FairSpec == Spec /\ Fairness
-----------------------------------------------------------------------------
\* Every message in the queue has a byte that will wake the receiver: in the
\* pipe, in the receiver's hand or still to be written.  Only a sender that
\* dies between the two leaves a message without one (msg_trans_send 211-218,
\* msg_trans_rcv 166-175); messages thrown away and a full pipe do not.
TokenCover ==
    Cardinality(queue) <= fifo + Cardinality(Pending)
                          + (IF rcv = "token" THEN 1 ELSE 0) + torn

\* "先取出队列中残留的同类型消息": a session has one command in the queue,
\* unless two processes sent for it at the same time.
OnePerMtype == \A t \in Mtypes \ overlap : Cardinality(OfType(t)) <= 1

\* A message that was put is received, or thrown away for a newer one (or
\* with the queue): none is left behind while its receiver sleeps, as long
\* as no sender dies between message and byte.
Delivered == \A n \in Msg : (n \in queue /\ torn = 0) ~> (n \notin queue \/ torn > 0)
=============================================================================
