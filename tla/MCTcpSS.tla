------------------------------ MODULE MCTcpSS ------------------------------
(* TcpSS with two listeners, one of which closes fast, two services, and   *)
(* one session, so that it is drawn again.                                 *)
EXTENDS TcpSS

CONSTANTS l1, l2, s1, s2
=============================================================================
