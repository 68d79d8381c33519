----------------------------- MODULE MCWaiting -----------------------------
(* Two submissions, two tasks and one or two event streams compete for a   *)
(* single listener connection.                                             *)
EXTENDS Waiting, TLC

CONSTANTS t1, t2, k1, k2, c1, c2
=============================================================================
