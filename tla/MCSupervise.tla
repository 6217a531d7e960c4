---------------------------- MODULE MCSupervise ----------------------------
(* Supervise with one worker or two.                                       *)
EXTENDS Supervise

CONSTANTS w1, w2
=============================================================================
