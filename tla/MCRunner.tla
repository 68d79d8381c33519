----------------------------- MODULE MCRunner -----------------------------
(* Three jobs for two slots: one asks for no memory, one for most of the   *)
(* budget, one for more than the budget.                                   *)
EXTENDS Runner, TLC

CONSTANTS j1, j2, j3

Mixed == j1 :> 0 @@ j2 :> 2 @@ j3 :> 5
OneJob == j1 :> 1
=============================================================================
