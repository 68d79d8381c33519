------------------------------ MODULE MCPages -------------------------------
(* The ceilings of zerocode-api/src/main.rs, the maxima of                 *)
(* runners/languages.toml, and slider positions on both sides of each.     *)
(* Every character that is special to an algorithm, and one that is not.   *)
EXTENDS Pages

MCCeiling == [cpu_time |-> 30, wall_time |-> 60, memory_mb |-> 2048]
MCCatalogue == [memoryMb |-> 1024, timeS |-> 60]
MCTimeStop == {1, 30, 31, 60}
MCMemStop == {16, 1024, 2048}
MCWindow == {3, 6, 9}
MCDelta == {-2, 1}
MCQuery == {"all", "some", "none"}
MCFound(q) == CASE q = "all" -> {"bash", "node"} [] q = "some" -> {"node"} [] q = "none" -> {}
MCRings == {[cy |-> 230, kernelR |-> 22, radii |-> [i \in 0..7 |-> 184 - 20 * i]],
            [cy |-> 320, kernelR |-> 32, radii |-> [i \in 0..7 |-> 296 - 32 * i]]}
MCProgram == {"example", "other", "crooked", "untidy", "tidied"}
MCSnippet == {"example", "other"}
MCtidy(p) == IF p \in {"untidy", "crooked"} THEN "tidied" ELSE p
MCreindent(p) == IF p = "crooked" THEN "untidy" ELSE p
MCChar == {"a", "nl", "cr", "quote", "comma", "sp", "tab"}
MCInput == {"sample", "input"}
=============================================================================
