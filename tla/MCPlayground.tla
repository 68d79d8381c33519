---------------------------- MODULE MCPlayground ----------------------------
(* Two runs.  Without faults of the service, a row with warnings and one   *)
(* with compiler output (a run that fails on the page has nothing to       *)
(* read); with a fault one kind, to which the announced failures come.     *)
EXTENDS Playground

MCAccepted == {[kind |-> "accepted", stdout |-> TRUE, stderr |-> TRUE, compile |-> FALSE]}

MCOutcome == MCAccepted \cup {[kind |-> "compile_error", stdout |-> FALSE, stderr |-> FALSE, compile |-> TRUE]}
=============================================================================
