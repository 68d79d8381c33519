------------------------- MODULE MCCreateSubmission -------------------------
(* Requests that share a key, a body or neither, some with other limits,   *)
(* one of them not acceptable.                                             *)
EXTENDS CreateSubmission, TLC

CONSTANTS k1, b1, b2, l1, l2, r1, r2

Make(key, body, limits, wait) ==
    [key |-> key, body |-> body, limits |-> limits, valid |-> TRUE,
     callbackOk |-> TRUE, wait |-> wait]

Keyed == {Make(k1, b1, l1, TRUE), Make(k1, b2, l1, FALSE)}
Plain == {Make(NoKey, b1, l1, TRUE), Make(NoKey, b1, l2, TRUE)}
Refused == {[Make(NoKey, b2, l1, FALSE) EXCEPT !.valid = FALSE],
            [Make(NoKey, b1, l1, FALSE) EXCEPT !.callbackOk = FALSE]}

AllForms == Keyed \cup Plain \cup Refused
RetryForms == {Make(k1, b1, l1, FALSE)}
Requests == Permutations(Request)
=============================================================================
