--------------------------- MODULE MsgTransProofs ---------------------------
(***************************************************************************)
(* Theorems about MsgTrans for every number of senders and sessions, every *)
(* size of the queue and every pipe at least as large.                     *)
(***************************************************************************)
EXTENDS MsgTrans, FiniteSetTheorems, TLAPS

\* A sender names its session from msg_trans_send's call to its return.
Busy == \A p \in Sender : snd[p].at # "idle" <=> snd[p].mtype \in Mtypes

\* Without overlap one process sends for a session, finds its old commands
\* gone when it puts the new one, and leaves that one alone in the queue.
Alone == \A t \in Mtypes \ overlap : \A p, q \in Sender :
            snd[p].mtype = t /\ snd[q].mtype = t => p = q
Cleared == \A p \in Sender : snd[p].at = "put" /\ snd[p].mtype \notin overlap
                                => OfType(snd[p].mtype) = {}
Single == \A t \in Mtypes \ overlap : \A n, k \in OfType(t) : n = k

Sessions == Busy /\ Alone /\ Cleared /\ Single
IInv == TypeOK /\ TokenCover /\ Sessions

-----------------------------------------------------------------------------
\* The numbers that TokenCover adds up.
LEMMA Counts ==
  ASSUME TypeOK
  PROVE  /\ IsFiniteSet(queue) /\ Cardinality(queue) \in Nat
         /\ IsFiniteSet(Pending) /\ Cardinality(Pending) \in Nat
         /\ fifo \in Nat /\ torn \in Nat /\ QueueMax \in Nat /\ FifoMax \in Nat
<1>1. PICK k \in 0 .. MaxSend : mt \in [1 .. k -> Mtypes]
  BY DEF TypeOK
<1>2. IsFiniteSet(Put)
  BY <1>1, FS_Interval, BoundAssumption DEF Put
<1>3. IsFiniteSet(queue)
  BY <1>2, FS_Subset DEF TypeOK
<1>4. IsFiniteSet(Pending)
  BY FS_Subset, SenderAssumption DEF Pending
<1>5. fifo \in Nat /\ torn \in Nat
  BY SizeAssumption, BoundAssumption DEF TypeOK
<1> QED  BY <1>3, <1>4, <1>5, FS_CardinalityType, SizeAssumption

\* Nothing is pending, in the queue or overlapping at the start.
LEMMA InitIInv == Init => IInv
<1> SUFFICES ASSUME Init PROVE IInv
  OBVIOUS
<1>1. mt \in [1 .. 0 -> Mtypes] /\ Put = {} /\ Pending = {} /\ \A t : OfType(t) = {}
  <2>1. mt \in [1 .. 0 -> Mtypes]
    <3>1. mt = [i \in 1 .. 0 |-> None]
      BY DEF Init
    <3> QED  BY <3>1
  <2>2. Put = {}
    BY <2>1 DEF Put
  <2> QED  BY <2>1, <2>2 DEF Init, Pending, OfType, Away
<1>2. Cardinality({}) = 0
  BY FS_EmptySet
<1>3. TypeOK
  BY <1>1, <1>2, SizeAssumption, BoundAssumption DEF Init, TypeOK, Away
<1>4. TokenCover
  BY <1>1, <1>2 DEF Init, TokenCover
<1>5. Sessions
  BY <1>1, NoneAssumption DEF Init, Sessions, Busy, Alone, Cleared, Single, Away
<1> QED  BY <1>3, <1>4, <1>5 DEF IInv

\* A message more, and a byte still to be written for it.
LEMMA PutStep == ASSUME IInv, NEW p \in Sender, SendPut(p) PROVE IInv'
<1> USE SizeAssumption, BoundAssumption
<1>1. PICK k \in 0 .. MaxSend : mt \in [1 .. k -> Mtypes]
  BY DEF IInv, TypeOK
<1>2. Put = 1 .. k /\ Cardinality(Put) = k
  BY <1>1, FS_Interval DEF Put
<1> DEFINE n == k + 1
           t == snd[p].mtype
<1>3. /\ snd[p].at = "put" /\ CanPut /\ n \in 1 .. MaxSend
      /\ mt' = [i \in 1 .. n |-> IF i = n THEN t ELSE mt[i]]
      /\ queue' = queue \cup {n}
      /\ snd' = [snd EXCEPT ![p].at = "byte"]
      /\ UNCHANGED <<fifo, open, rcv, got, overlap, torn>>
  BY <1>2 DEF SendPut, Goto
<1>4. t \in Mtypes /\ snd \in [Sender -> [at : {"idle", "clear", "put", "byte"},
                                          mtype : Mtypes \cup {None}]]
  BY <1>3 DEF IInv, Sessions, Busy, TypeOK
<1>5. n \notin queue /\ queue \subseteq 1 .. k /\ got \subseteq 1 .. k
  BY <1>2 DEF IInv, TypeOK
<1>6. Cardinality(queue') = Cardinality(queue) + 1
  BY <1>3, <1>5, Counts, FS_AddElement DEF IInv
<1>7. TypeOK'
  <2>1. mt' \in [1 .. n -> Mtypes] /\ Put' = 1 .. n
    BY <1>1, <1>3, <1>4 DEF Put
  <2>2. snd' \in [Sender -> [at : {"idle", "clear", "put", "byte"}, mtype : Mtypes \cup {None}]]
    BY <1>3, <1>4
  <2>3. Cardinality(queue') <= QueueMax
    BY <1>3, <1>6, Counts DEF CanPut, IInv
  <2>4. queue' \subseteq Put' /\ got' \subseteq Put' /\ got' \cap queue' = {}
    BY <1>3, <1>5, <2>1 DEF IInv, TypeOK
  <2>5. \E j \in 0 .. MaxSend : mt' \in [1 .. j -> Mtypes]
    BY <1>3, <2>1
  <2> QED  BY <1>3, <2>2, <2>3, <2>4, <2>5 DEF IInv, TypeOK
<1>8. TokenCover'
  <2>1. Pending' = Pending \cup {p} /\ p \notin Pending
    BY <1>3, <1>4 DEF Pending
  <2>2. Cardinality(Pending') = Cardinality(Pending) + 1
    BY <2>1, Counts, FS_AddElement DEF IInv
  <2> QED  BY <1>3, <1>6, <2>2, Counts DEF IInv, TokenCover
<1>9. Sessions'
  <2>1. \A q \in Sender : snd'[q].mtype = snd[q].mtype
                          /\ (snd'[q].at = "put" => q # p /\ snd[q].at = "put")
                          /\ (snd'[q].at = "idle" <=> snd[q].at = "idle")
    BY <1>3, <1>4
  <2>2. \A u : OfType(u)' = IF u = t THEN OfType(u) \cup {n} ELSE OfType(u)
    <3>1. \A i \in queue : mt'[i] = mt[i]
      BY <1>3, <1>5
    <3>2. mt'[n] = t
      BY <1>3
    <3> QED  BY <1>3, <3>1, <3>2 DEF OfType
  <2>3. t \notin overlap => OfType(t) = {}
    BY <1>3 DEF IInv, Sessions, Cleared
  <2>4. Busy' /\ Alone'
    BY <1>3, <2>1 DEF IInv, Sessions, Busy, Alone
  <2>5. Cleared'
    <3> SUFFICES ASSUME NEW q \in Sender, snd'[q].at = "put", snd'[q].mtype \notin overlap
                 PROVE  OfType(snd[q].mtype)' = {}
      BY <1>3, <2>1 DEF Cleared
    <3>1. snd[q].mtype # t
      BY <1>4, <2>1 DEF IInv, Sessions, Alone
    <3> QED  BY <2>1, <2>2, <3>1 DEF IInv, Sessions, Cleared
  <2>6. Single'
    BY <1>3, <2>2, <2>3 DEF IInv, Sessions, Single
  <2> QED  BY <2>4, <2>5, <2>6 DEF Sessions
<1> QED  BY <1>7, <1>8, <1>9 DEF IInv

\* Steps that put nothing: messages leave, senders go on or return.
LEMMA SessionsKept ==
  ASSUME IInv, UNCHANGED mt, queue' \subseteq queue, overlap' = overlap,
         \A q \in Sender :
            \/ snd'[q].at = "idle" /\ snd'[q].mtype = None
            \/ /\ snd'[q].mtype = snd[q].mtype /\ (snd'[q].at = "idle" <=> snd[q].at = "idle")
               /\ snd'[q].at = "put" => snd[q].at = "put" \/ OfType(snd[q].mtype) = {}
  PROVE  Sessions'
<1>1. \A t : OfType(t)' \subseteq OfType(t)
  BY DEF OfType
<1>2. Busy' /\ Alone'
  BY NoneAssumption DEF IInv, Sessions, Busy, Alone
<1>3. Cleared'
  <2> SUFFICES ASSUME NEW q \in Sender, snd'[q].at = "put", snd'[q].mtype \notin overlap
               PROVE  OfType(snd[q].mtype)' = {} /\ snd'[q].mtype = snd[q].mtype
    BY DEF Cleared
  <2>1. OfType(snd[q].mtype) = {} /\ snd'[q].mtype = snd[q].mtype
    BY DEF IInv, Sessions, Cleared
  <2> QED  BY <1>1, <2>1
<1>4. Single'
  BY <1>1 DEF IInv, Sessions, Single
<1> QED  BY <1>2, <1>3, <1>4 DEF Sessions

\* A smaller queue stays within the sizes and the numbers put.
LEMMA QueueShrinks ==
  ASSUME IInv, NEW Q, Q \subseteq queue
  PROVE  Cardinality(Q) \in Nat /\ Cardinality(Q) <= Cardinality(queue)
  BY Counts, FS_Subset, FS_CardinalityType DEF IInv

\* A call of msg_trans_send marks its session if it is not alone.
LEMMA CallStep == ASSUME IInv, NEW p \in Sender, NEW t \in Mtypes, SendCall(p, t) PROVE IInv'
<1>1. /\ snd[p].at = "idle" /\ snd' = [snd EXCEPT ![p] = [at |-> "clear", mtype |-> t]]
      /\ overlap' = IF \E q \in Sender : snd[q].mtype = t THEN overlap \cup {t} ELSE overlap
      /\ UNCHANGED <<queue, mt, fifo, open, rcv, got, torn>>
  BY DEF SendCall
<1>2. snd \in [Sender -> [at : {"idle", "clear", "put", "byte"}, mtype : Mtypes \cup {None}]]
  BY DEF IInv, TypeOK
<1>3. TypeOK'
  BY <1>1, <1>2 DEF IInv, TypeOK, Put
<1>4. TokenCover'
  <2>1. Pending' = Pending
    BY <1>1, <1>2 DEF Pending
  <2> QED  BY <1>1, <2>1 DEF IInv, TokenCover
<1>5. \A u : OfType(u)' = OfType(u)
  BY <1>1 DEF OfType
<1>6. /\ snd'[p].at = "clear" /\ snd'[p].mtype = t
      /\ \A q \in Sender \ {p} : snd'[q] = snd[q]
  BY <1>1, <1>2
<1>7. Sessions'
  <2>1. Busy'
    BY <1>6 DEF IInv, Sessions, Busy
  <2>2. Alone'
    BY <1>1, <1>6 DEF IInv, Sessions, Alone
  <2>3. Cleared'
    BY <1>1, <1>5, <1>6 DEF IInv, Sessions, Cleared
  <2>4. Single'
    BY <1>1, <1>5 DEF IInv, Sessions, Single
  <2> QED  BY <2>1, <2>2, <2>3, <2>4 DEF Sessions
<1> QED  BY <1>3, <1>4, <1>7 DEF IInv

\* Commands of the same session are thrown away, their bytes stay.
LEMMA ClearStep == ASSUME IInv, NEW p \in Sender, SendClear(p) PROVE IInv'
<1>1. /\ snd[p].at = "clear" /\ queue' \subseteq queue
      /\ UNCHANGED <<mt, fifo, open, rcv, got, overlap, torn>>
      /\ \/ snd' = snd
         \/ OfType(snd[p].mtype) = {} /\ snd' = [snd EXCEPT ![p].at = "put"]
  BY DEF SendClear, Goto
<1>2. snd \in [Sender -> [at : {"idle", "clear", "put", "byte"}, mtype : Mtypes \cup {None}]]
  BY DEF IInv, TypeOK
<1>3. TypeOK'
  <2>1. Cardinality(queue') <= QueueMax
    BY <1>1, QueueShrinks, Counts DEF IInv, TypeOK
  <2>2. snd' \in [Sender -> [at : {"idle", "clear", "put", "byte"}, mtype : Mtypes \cup {None}]]
    BY <1>1, <1>2
  <2> QED  BY <1>1, <2>1, <2>2 DEF IInv, TypeOK, Put
<1>4. TokenCover'
  <2>1. Pending' = Pending
    BY <1>1, <1>2 DEF Pending
  <2> QED  BY <1>1, <2>1, QueueShrinks, Counts DEF IInv, TokenCover
<1>5. Sessions'
  BY <1>1, <1>2, SessionsKept
<1> QED  BY <1>3, <1>4, <1>5 DEF IInv

\* A sender that returns without having put a message.
LEMMA ReturnStep ==
  ASSUME IInv, NEW p \in Sender, snd[p].at # "byte", Return(p),
         UNCHANGED <<queue, mt, fifo, open, rcv, got, overlap, torn>>
  PROVE  IInv'
<1>1. snd \in [Sender -> [at : {"idle", "clear", "put", "byte"}, mtype : Mtypes \cup {None}]]
      /\ snd' = [snd EXCEPT ![p] = [at |-> "idle", mtype |-> None]]
  BY DEF IInv, TypeOK, Return, Away
<1>2. TypeOK'
  BY <1>1 DEF IInv, TypeOK, Put
<1>3. TokenCover'
  <2>1. Pending' = Pending
    BY <1>1 DEF Pending
  <2> QED  BY <2>1 DEF IInv, TokenCover
<1>4. Sessions'
  BY <1>1, SessionsKept
<1> QED  BY <1>2, <1>3, <1>4 DEF IInv

\* A sender that no longer owes a byte: it has written it, found the pipe
\* full, or died.
LEMMA OwesNone ==
  ASSUME IInv, NEW p \in Sender, snd[p].at = "byte", Return(p)
  PROVE  /\ snd' \in [Sender -> [at : {"idle", "clear", "put", "byte"}, mtype : Mtypes \cup {None}]]
         /\ Cardinality(Pending') = Cardinality(Pending) - 1
         /\ UNCHANGED <<queue, mt, overlap>> => Sessions'
<1>1. snd \in [Sender -> [at : {"idle", "clear", "put", "byte"}, mtype : Mtypes \cup {None}]]
      /\ snd' = [snd EXCEPT ![p] = [at |-> "idle", mtype |-> None]]
  BY DEF IInv, TypeOK, Return, Away
<1>2. Pending' = Pending \ {p} /\ p \in Pending
  BY <1>1 DEF Pending
<1>3. Cardinality(Pending') = Cardinality(Pending) - 1
  BY <1>2, Counts, FS_RemoveElement DEF IInv
<1>4. UNCHANGED <<queue, mt, overlap>> => Sessions'
  BY <1>1, SessionsKept
<1> QED  BY <1>1, <1>3, <1>4

\* The byte is written; a full pipe has enough of them for the whole queue.
LEMMA ByteStep == ASSUME IInv, NEW p \in Sender, SendByte(p) PROVE IInv'
<1>1. /\ snd[p].at = "byte" /\ Return(p)
      /\ fifo' = IF fifo < FifoMax THEN fifo + 1 ELSE fifo
      /\ UNCHANGED <<queue, mt, open, rcv, got, overlap, torn>>
  BY DEF SendByte
<1>2. fifo \in 0 .. FifoMax /\ fifo' \in 0 .. FifoMax
  BY <1>1, SizeAssumption DEF IInv, TypeOK
<1>3. TypeOK'
  BY <1>1, <1>2, OwesNone DEF IInv, TypeOK, Put
<1>4. TokenCover'
  <2>1. CASE fifo < FifoMax
    BY <1>1, <2>1, OwesNone, Counts DEF IInv, TokenCover
  <2>2. CASE fifo = FifoMax
    <3>1. Cardinality(queue) <= fifo
      BY <2>2, PipeAssumption, Counts DEF IInv, TypeOK
    <3>2. Cardinality(Pending') \in Nat
      BY <1>3, Counts, FS_Subset, FS_CardinalityType, SenderAssumption DEF Pending
    <3> QED  BY <1>1, <2>2, <3>1, <3>2, Counts DEF IInv, TokenCover
  <2> QED  BY <1>2, <2>1, <2>2, SizeAssumption
<1> QED  BY <1>1, <1>3, <1>4, OwesNone DEF IInv

\* The byte that a dead sender owed is accounted for by torn.
LEMMA CrashStep == ASSUME IInv, NEW p \in Sender, Crash(p) PROVE IInv'
<1>1. CASE snd[p].at # "byte"
  BY <1>1, ReturnStep DEF Crash
<1>2. CASE snd[p].at = "byte"
  <2>1. /\ Return(p) /\ torn' = torn + 1 /\ torn < MaxCrash
        /\ UNCHANGED <<queue, mt, fifo, open, rcv, got, overlap>>
    BY <1>2 DEF Crash
  <2>2. TypeOK'
    <3>1. torn' \in 0 .. MaxCrash
      BY <2>1, BoundAssumption DEF IInv, TypeOK
    <3> QED  BY <1>2, <2>1, <3>1, OwesNone DEF IInv, TypeOK, Put
  <2>3. TokenCover'
    BY <1>2, <2>1, OwesNone, Counts DEF IInv, TokenCover
  <2> QED  BY <1>2, <2>1, <2>2, <2>3, OwesNone DEF IInv
<1> QED  BY <1>1, <1>2

\* The receiver's byte moves from the pipe to its hand ...
LEMMA RcvByteStep == ASSUME IInv, RcvByte PROVE IInv'
<1>1. TypeOK'
  BY SizeAssumption DEF IInv, TypeOK, RcvByte, Put
<1>2. TokenCover'
  <2>1. Pending' = Pending
    BY DEF RcvByte, Pending
  <2> QED  BY <2>1, Counts DEF IInv, TokenCover, RcvByte
<1>3. Sessions'
  BY SessionsKept DEF RcvByte
<1> QED  BY <1>1, <1>2, <1>3 DEF IInv

\* ... and is given for one message, if there is any.
LEMMA RcvMsgStep == ASSUME IInv, RcvMsg PROVE IInv'
<1>1. /\ rcv = "token" /\ rcv' = "idle"
      /\ UNCHANGED <<mt, fifo, open, snd, overlap, torn>>
  BY DEF RcvMsg
<1>2. /\ queue' \subseteq queue /\ got' \subseteq Put /\ got' \cap queue' = {}
      /\ queue = {} \/ Cardinality(queue') = Cardinality(queue) - 1
  <2>1. CASE queue = {}
    BY <2>1 DEF RcvMsg, IInv, TypeOK
  <2>2. CASE queue # {}
    <3>1. PICK n \in queue : queue' = queue \ {n} /\ got' = got \cup {n}
      BY <2>2 DEF RcvMsg
    <3>2. Cardinality(queue') = Cardinality(queue) - 1
      BY <3>1, Counts, FS_RemoveElement DEF IInv
    <3> QED  BY <3>1, <3>2 DEF IInv, TypeOK
  <2> QED  BY <2>1, <2>2
<1>3. TypeOK'
  <2>1. Cardinality(queue') <= QueueMax
    BY <1>2, QueueShrinks, Counts DEF IInv, TypeOK
  <2> QED  BY <1>1, <1>2, <2>1 DEF IInv, TypeOK, Put
<1>4. TokenCover'
  <2>1. Pending' = Pending
    BY <1>1 DEF Pending
  <2>2. CASE queue = {}
    <3>1. Cardinality(queue') = 0
      BY <1>2, <2>2, FS_EmptySet
    <3> QED  BY <1>1, <2>1, <3>1, Counts DEF IInv, TokenCover
  <2>3. CASE Cardinality(queue') = Cardinality(queue) - 1
    BY <1>1, <2>1, <2>3, Counts DEF IInv, TokenCover
  <2> QED  BY <1>2, <2>2, <2>3
<1>5. Sessions'
  BY <1>1, <1>2, SessionsKept
<1> QED  BY <1>3, <1>4, <1>5 DEF IInv

\* The queue goes with everything in it.
LEMMA RemoveStep == ASSUME IInv, Remove PROVE IInv'
<1>1. Cardinality(queue') = 0
  BY FS_EmptySet DEF Remove
<1>2. TypeOK'
  <2>1. queue' = {} /\ open' \in BOOLEAN /\ UNCHANGED <<mt, fifo, snd, rcv, got, overlap, torn>>
    BY DEF Remove
  <2> QED  BY <1>1, <2>1, SizeAssumption DEF IInv, TypeOK, Put
<1>3. TokenCover'
  <2>1. Pending' = Pending
    BY DEF Remove, Pending
  <2> QED  BY <1>1, <2>1, Counts DEF IInv, TokenCover, Remove
<1>4. Sessions'
  BY SessionsKept DEF Remove
<1> QED  BY <1>2, <1>3, <1>4 DEF IInv

LEMMA NextIInv == IInv /\ [Next]_vars => IInv'
<1> SUFFICES ASSUME IInv, [Next]_vars PROVE IInv'
  OBVIOUS
<1>1. CASE UNCHANGED vars
  BY <1>1 DEF vars, IInv, TypeOK, TokenCover, Sessions, Busy, Alone, Cleared, Single,
              Put, Pending, OfType
<1>2. ASSUME NEW p \in Sender, NEW t \in Mtypes, SendCall(p, t) PROVE IInv'
  BY <1>2, CallStep
<1>3. ASSUME NEW p \in Sender, SendClear(p) PROVE IInv'
  BY <1>3, ClearStep
<1>4. ASSUME NEW p \in Sender, SendPut(p) PROVE IInv'
  BY <1>4, PutStep
<1>5. ASSUME NEW p \in Sender, SendFails(p) PROVE IInv'
  BY <1>5, ReturnStep DEF SendFails
<1>6. ASSUME NEW p \in Sender, SendByte(p) PROVE IInv'
  BY <1>6, ByteStep
<1>7. ASSUME NEW p \in Sender, Crash(p) PROVE IInv'
  BY <1>7, CrashStep
<1> QED  BY <1>1, <1>2, <1>3, <1>4, <1>5, <1>6, <1>7, RcvByteStep, RcvMsgStep, RemoveStep, Zenon
         DEF Next, SendStep, RcvStep

\* The invariant holds in every reachable state of a queue.
THEOREM Invariance == Spec => []IInv
  BY InitIInv, NextIInv, PTL DEF Spec

\* Type correctness: queue and pipe stay within their sizes, and a message
\* that was received is not in the queue any more.
THEOREM TypeCorrect == Spec => []TypeOK
<1>1. IInv => TypeOK
  BY DEF IInv
<1> QED  BY <1>1, Invariance, PTL

\* No message is in the queue without a byte to wake the receiver, but for
\* those of senders that died in between.
THEOREM Covered == Spec => []TokenCover
<1>1. IInv => TokenCover
  BY DEF IInv
<1> QED  BY <1>1, Invariance, PTL

\* A session that one process at a time sends for has one command waiting.
THEOREM OneWaiting == Spec => []OnePerMtype
<1>1. IInv => OnePerMtype
  <2> SUFFICES ASSUME IInv, NEW t \in Mtypes \ overlap PROVE Cardinality(OfType(t)) <= 1
    BY DEF OnePerMtype
  <2>1. \A n, k \in OfType(t) : n = k
    BY DEF IInv, Sessions, Single
  <2>2. CASE OfType(t) = {}
    BY <2>2, FS_EmptySet
  <2>3. CASE OfType(t) # {}
    <3>1. PICK n \in OfType(t) : TRUE
      BY <2>3
    <3>2. OfType(t) = {n}
      BY <2>1, <3>1
    <3>3. Cardinality(OfType(t)) = 1
      BY <3>2, FS_Singleton, Zenon
    <3> QED  BY <3>3
  <2> QED  BY <2>2, <2>3
<1> QED  BY <1>1, Invariance, PTL
=============================================================================
