------------------------- MODULE SubmissionContract -------------------------
(***************************************************************************)
(* What the service promises a client that polls GET /v1/submissions: the  *)
(* phases a submission goes through, whoever executes it, however often.   *)
(* `docs/STATUS.md` calls a status terminal when polling may stop; the     *)
(* promise kept here is that a terminal submission never becomes           *)
(* non-terminal again, and that an accepted one does become terminal.      *)
(***************************************************************************)
CONSTANT Token          \* the submissions a client may ever create

VARIABLE phase          \* phase[t]: what the client can tell about t

Phase == {"absent", "queued", "processing", "terminal", "gone"}

TypeOK == phase \in [Token -> Phase]

Init == phase = [t \in Token |-> "absent"]

\* POST /v1/submissions was acknowledged.
Submit(t) == phase[t] = "absent" /\ phase' = [phase EXCEPT ![t] = "queued"]

\* A worker holds the claim.
Start(t) == phase[t] = "queued" /\ phase' = [phase EXCEPT ![t] = "processing"]

\* The claims of dead or slow workers go back to the queue, together.
Requeue(S) ==
    /\ S # {} /\ \A t \in S : phase[t] = "processing"
    /\ phase' = [t \in Token |-> IF t \in S THEN "queued" ELSE phase[t]]

\* A terminal status is published, possibly by a worker whose claim has
\* already been given back to the queue.
Finish(t) ==
    /\ phase[t] \in {"queued", "processing"}
    /\ phase' = [phase EXCEPT ![t] = "terminal"]

\* Retention removes finished rows, together.
Forget(S) ==
    /\ S # {} /\ \A t \in S : phase[t] = "terminal"
    /\ phase' = [t \in Token |-> IF t \in S THEN "gone" ELSE phase[t]]

Next ==
    \/ \E t \in Token : Submit(t) \/ Start(t) \/ Finish(t)
    \/ \E S \in SUBSET Token : Requeue(S) \/ Forget(S)

Spec == Init /\ [][Next]_phase

\* Every accepted submission gets an answer.
FairSpec == Spec /\ \A t \in Token : WF_phase(Finish(t))
=============================================================================
