---------------------------- MODULE MCTestsPanel ----------------------------
(* Texts x and x with a blank after it, which only 'exact' tells apart.    *)
(* The file has one case more than the panel takes.                        *)
EXTENDS TestsPanel

MCText == {"", "x", "x_"}
MCMode == <<"trim", "exact">>
MCCompare(a, e, m) == a = e \/ (m = "trim" /\ {a, e} = {"x", "x_"})
MCOutcome == {[status |-> "accepted", stdout |-> "x"], [status |-> "re", stdout |-> "x_"]}
MCCase(s, e) == [stdin |-> s, expected |-> e]
MCImports == {<<>>, <<MCCase("", ""), MCCase("x", "x_"), MCCase("x_", "")>>}
=============================================================================
