----------------------------- MODULE MtypeLimit -----------------------------
(***************************************************************************)
(* Admission of requests, core/mtype_limit.c: a counter in shared memory   *)
(* holds the sessions of a product, and lsn_get_route refuses a request    *)
(* when it has reached the product's limit.  The counter goes up in        *)
(* mtype_limit_check, when the session has no name yet, and down in        *)
(* mtype_limit_free, by the name mtype_set_info gave the session; neither  *)
(* takes a lock.                                                           *)
(*                                                                         *)
(* mtype_delete subtracts before it looks whether the session is still     *)
(* there, and the name stays: an answer that comes after the timeout, or   *)
(* the second deletion of a LINKNULL, subtracts once more, and closes the  *)
(* session of whoever was given the slot since.                            *)
(*                                                                         *)
(* The session table is reduced to what Mtype shows of it: a free slot, or *)
(* that of a dead owner, is given out under a mutex.  One product and one  *)
(* listener; the listener's own counter appears as the choice LsnFull.     *)
(***************************************************************************)
EXTENDS Integers, FiniteSets

CONSTANTS Proc,        \* processes of the listener
          Session,     \* usable slots of the table
          None,        \* no session
          Limit,       \* limit of the product
          MaxCrash,    \* bound: how many processes die
          MaxAgain,    \* bound: answers LINKNULL and answers after the timeout
          MaxMeet      \* bound: times two processes meet at the counter

ASSUME NoneAssumption == None \notin Session
ASSUME LimitAssumption == Limit \in Nat /\ Limit > 0
ASSUME BoundAssumption == MaxCrash \in Nat /\ MaxAgain \in Nat /\ MaxMeet \in Nat

VARIABLES use,         \* prdt_limit->use
          used,        \* slots marked MTYPE_USED
          named,       \* slots with a prdt_name
          mine,        \* sessions of the connections a process keeps open
          late,        \* slots for which the answer to a closed session may come
          st,          \* where a process is in a request, its session and load
          met,         \* times a process compared or loaded use while another
                       \* had done so and had not stored it
          torn,        \* sessions that were subtracted and not yet closed when
                       \* their process died
          twice,       \* subtractions by the deletion of a session that was
                       \* closed already or never counted
          again, crashes

ghost == <<met, torn, twice, again, crashes>>
vars == <<use, used, named, mine, late, st, ghost>>

Place(at, m, tmp, own, more) == [at |-> at, m |-> m, tmp |-> tmp, own |-> own, more |-> more]
Idle == Place("idle", None, 0, FALSE, FALSE)
At == {"idle", "check", "inc", "store", "lsn", "set", "del", "free", "mark",
       "reclaim", "zero"}
Held(p) == mine[p] \cup {st[p].m}

\* Between the comparison or the load of use and its store.
Window == {"inc", "store", "free", "reclaim"}
Meet(p) == IF \E q \in Proc \ {p} : st[q].at \in Window
           THEN met < MaxMeet /\ met' = met + 1 ELSE met' = met
\* The mutex of the table is held by who takes a slot over.
TableFree == \A q \in Proc : st[q].at \notin {"reclaim", "zero"}

TypeOK == /\ use \in Int
          /\ used \subseteq Session /\ named \subseteq Session /\ late \subseteq Session
          /\ mine \in [Proc -> SUBSET Session]
          /\ st \in [Proc -> [at : At, m : Session \cup {None}, tmp : Int,
                              own : BOOLEAN, more : BOOLEAN]]
          /\ met \in 0 .. MaxMeet /\ torn \in Nat /\ twice \in Nat
          /\ again \in 0 .. MaxAgain /\ crashes \in 0 .. MaxCrash

-----------------------------------------------------------------------------
Init == /\ use = 0 /\ used = {} /\ named = {} /\ late = {}
        /\ mine = [p \in Proc |-> {}]
        /\ st = [p \in Proc |-> Idle]
        /\ met = 0 /\ torn = 0 /\ twice = 0 /\ again = 0 /\ crashes = 0

Goto(p, at) == st' = [st EXCEPT ![p].at = at]
Load(p, at) == st' = [st EXCEPT ![p].at = at, ![p].tmp = use]

\* mtype_new finds a free slot and zeroes it, the name too.
New(p, m) ==
    /\ st[p].at = "idle" /\ m \notin used /\ TableFree
    /\ used' = used \cup {m}
    /\ named' = named \ {m}
    /\ st' = [st EXCEPT ![p] = Place("check", m, 0, FALSE, FALSE)]
    /\ UNCHANGED <<use, mine, late, ghost>>

\* mtype_new finds a slot of a dead owner, over age.  If it has a name the
\* product's counter goes down ...
NewReclaim(p, m) ==
    /\ st[p].at = "idle" /\ m \in used /\ TableFree
    /\ \A q \in Proc : m \notin Held(q)
    /\ st' = [st EXCEPT ![p] = Place(IF m \in named THEN "reclaim" ELSE "zero", m, use, FALSE, FALSE)]
    /\ IF m \in named THEN Meet(p) ELSE met' = met
    /\ UNCHANGED <<use, used, named, mine, late, torn, twice, again, crashes>>

NewReclaimStore(p) ==
    /\ st[p].at = "reclaim"
    /\ use' = st[p].tmp - 1
    /\ Goto(p, "zero")
    /\ UNCHANGED <<used, named, mine, late, ghost>>

\* ... before the slot is zeroed for its new owner.
NewZero(p) ==
    /\ st[p].at = "zero"
    /\ named' = named \ {st[p].m}
    /\ Goto(p, "check")
    /\ UNCHANGED <<use, used, mine, late, ghost>>

\* Mutant: a limit that allows one more.
CheckLate(p) ==
    /\ st[p].at = "check"
    /\ Goto(p, IF use > Limit THEN "del" ELSE "inc")
    /\ IF use <= Limit THEN Meet(p) ELSE met' = met
    /\ UNCHANGED <<use, used, named, mine, late, torn, twice, again, crashes>>

\* mtype_limit_check: the limit is compared; over it, lsn_get_route fails and
\* its caller deletes the session.
Check(p) ==
    /\ st[p].at = "check"
    /\ Goto(p, IF use >= Limit THEN "del" ELSE "inc")
    /\ IF use < Limit THEN Meet(p) ELSE met' = met
    /\ UNCHANGED <<use, used, named, mine, late, torn, twice, again, crashes>>

\* prdt_limit->use ++ is a load and a store.
IncLoad(p) ==
    /\ st[p].at = "inc"
    /\ Load(p, "store")
    /\ UNCHANGED <<use, used, named, mine, late, ghost>>

IncStore(p) ==
    /\ st[p].at = "store"
    /\ use' = st[p].tmp + 1
    /\ Goto(p, "lsn")
    /\ UNCHANGED <<used, named, mine, late, ghost>>

\* The listener has room too: the route is found.
LsnOk(p) ==
    /\ st[p].at = "lsn"
    /\ Goto(p, "set")
    /\ UNCHANGED <<use, used, named, mine, late, ghost>>

\* The process is gone; what it did to the shared memory stays, and so do the
\* answers to what it asked for.
Die(p) ==
    /\ crashes < MaxCrash /\ crashes' = crashes + 1
    /\ torn' = IF st[p].at \in {"mark", "zero"} /\ st[p].m \in named \cap used THEN torn + 1 ELSE torn
    /\ late' = late \cup mine[p]
    /\ st' = [st EXCEPT ![p] = Idle]
    /\ mine' = [mine EXCEPT ![p] = {}]
    /\ UNCHANGED <<use, used, named, met, twice, again>>

\* The listener's limit is reached: prdt_limit, which is NULL by then, is
\* dereferenced and the process dies.
LsnFull(p) == st[p].at = "lsn" /\ Die(p)

\* The gate, the trace number, the server map or the trace fails, and the
\* session is deleted before it has a name (tcpss_deal_req 526-646).
RequestFails(p) ==
    /\ st[p].at = "set"
    /\ st' = [st EXCEPT ![p].at = "del", ![p].own = TRUE]
    /\ UNCHANGED <<use, used, named, mine, late, ghost>>

\* mtype_set_info, and the request is sent to its service.  A connection that
\* lost this slot to a late answer may still wait: its end is one more.
SetInfo(p) ==
    /\ st[p].at = "set"
    /\ named' = named \cup {st[p].m}
    /\ mine' = [mine EXCEPT ![p] = @ \cup {st[p].m}]
    /\ late' = IF st[p].m \in mine[p] THEN late \cup {st[p].m} ELSE late
    /\ st' = [st EXCEPT ![p] = Idle]
    /\ UNCHANGED <<use, used, ghost>>

Deleting(p, m, own, more) ==
    st' = [st EXCEPT ![p] = Place("del", m, 0, own, more)]

\* The response came, or failed: mtype_delete.
Delete(p, m) ==
    /\ st[p].at = "idle" /\ m \in mine[p]
    /\ mine' = [mine EXCEPT ![p] = @ \ {m}]
    /\ Deleting(p, m, TRUE, FALSE)
    /\ UNCHANGED <<use, used, named, late, ghost>>

\* No response in time: tcpss_timeoutevt deletes the session; the answer may
\* still come.
Timeout(p, m) ==
    /\ st[p].at = "idle" /\ m \in mine[p]
    /\ mine' = [mine EXCEPT ![p] = @ \ {m}]
    /\ late' = late \cup {m}
    /\ Deleting(p, m, TRUE, FALSE)
    /\ UNCHANGED <<use, used, named, ghost>>

\* It does, at any process of the listener and whoever has the slot by then:
\* tcpss_interevt deletes the session, with or without its variables.
LateAnswer(p, m) ==
    /\ st[p].at = "idle" /\ m \in late /\ again < MaxAgain
    /\ again' = again + 1
    /\ late' = late \ {m}
    /\ Deleting(p, m, FALSE, FALSE)
    /\ UNCHANGED <<use, used, named, mine, met, torn, twice, crashes>>

\* The answer is LINKNULL, there is nothing to tell the client: the session is
\* deleted in tcpss_deal_linknull and by its caller.
LinkNull(p, m) ==
    /\ st[p].at = "idle" /\ m \in mine[p] /\ again < MaxAgain
    /\ again' = again + 1
    /\ mine' = [mine EXCEPT ![p] = @ \ {m}]
    /\ Deleting(p, m, TRUE, TRUE)
    /\ UNCHANGED <<use, used, named, late, met, torn, twice, crashes>>

\* mtype_limit_free: nothing without a name, otherwise use -- ...
FreeLoad(p) ==
    /\ st[p].at = "del"
    /\ IF st[p].m \in named THEN Load(p, "free") ELSE Goto(p, "mark")
    /\ IF st[p].m \in named THEN Meet(p) ELSE met' = met
    /\ UNCHANGED <<use, used, named, mine, late, torn, twice, again, crashes>>

FreeStore(p) ==
    /\ st[p].at = "free" /\ (st[p].own \/ twice < MaxAgain)
    /\ use' = st[p].tmp - 1
    /\ twice' = IF st[p].own THEN twice ELSE twice + 1
    /\ Goto(p, "mark")
    /\ UNCHANGED <<used, named, mine, late, met, torn, again, crashes>>

AfterMark(p) == IF st[p].more THEN Place("del", st[p].m, 0, FALSE, FALSE) ELSE Idle

\* ... and the slot is freed under the table's mutex, if it is still in use.
Mark(p) ==
    /\ st[p].at = "mark" /\ TableFree
    /\ used' = used \ {st[p].m}
    /\ st' = [st EXCEPT ![p] = AfterMark(p)]
    /\ UNCHANGED <<use, named, mine, late, ghost>>

Crash(p) == (st[p].at # "idle" \/ mine[p] # {}) /\ Die(p)

Next == \E p \in Proc :
          \/ \E m \in Session : \/ New(p, m) \/ NewReclaim(p, m) \/ Delete(p, m)
                               \/ Timeout(p, m) \/ LateAnswer(p, m) \/ LinkNull(p, m)
          \/ NewReclaimStore(p) \/ NewZero(p)
          \/ Check(p) \/ IncLoad(p) \/ IncStore(p) \/ LsnOk(p) \/ LsnFull(p)
          \/ RequestFails(p) \/ SetInfo(p)
          \/ FreeLoad(p) \/ FreeStore(p) \/ Mark(p) \/ Crash(p)

Spec == Init /\ [][Next]_vars
-----------------------------------------------------------------------------
\* Requests that were let in and whose end has not come: sent on and waiting,
\* or about to be sent.
Waiting == {w \in Proc \X Session : w[2] \in mine[w[1]]}
Going == {p \in Proc : st[p].at \in {"lsn", "set"}}

\* A product never has more requests under way than its limit, whatever fails
\* half way, however processes die and however late answers come, but for one
\* more per death between the subtraction and the closing of a session
\* (mtype.c: 468-478, 215-216), which is subtracted again when it is taken
\* over, and one more per subtraction by a second deletion: mtype_limit_free
\* comes before the test whether the session is in use (mtype.c: 468), so an
\* answer after the timeout (tcpss.c: 89, then 337 or 392) and a LINKNULL
\* (282, 392) subtract twice; and one more each time two processes meet
\* between the comparison or load of the counter and its store, for no lock is
\* taken (mtype_limit.c: 483-489, 553): both pass, or an update is lost.
LimitHolds == Cardinality(Waiting) + Cardinality(Going) <= Limit + torn + twice + met
=============================================================================
