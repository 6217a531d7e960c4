----------------------------- MODULE MCMsgTrans -----------------------------
(* MsgTrans with two senders and two sessions, a queue of two commands and *)
(* a pipe of two bytes.                                                    *)
EXTENDS MsgTrans

CONSTANTS s1, s2, m1, m2

Senders == {s1, s2}
Types == {m1, m2}
=============================================================================
