----------------------------- MODULE MCLinkList -----------------------------
(* LinkList with two slots and two sessions, one of them a call.           *)
EXTENDS LinkList

CONSTANTS s1, s2, r1, r2, m1, m2

Sender1 == {s1}
Sender2 == {s1, s2}
Receiver1 == {r1}
Receiver2 == {r1, r2}
Sessions == {m1, m2}
CallOnly == {m1}
=============================================================================
