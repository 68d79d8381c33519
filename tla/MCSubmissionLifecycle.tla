----------------------- MODULE MCSubmissionLifecycle -----------------------
(* Two workers with one task each, and one worker with two tasks: both ways *)
(* in which a swept submission comes to be executed twice.                 *)
EXTENDS SubmissionLifecycle, TLC

CONSTANTS t1, t2, k1, k2, w1, w2

TwoHosts == k1 :> w1 @@ k2 :> w2
OneHost == k1 :> w1 @@ k2 :> w1
ShortWall == [t \in Token |-> 0]
LongWall == [t \in Token |-> 1]
=============================================================================
