----------------------------- MODULE OutputPane -----------------------------
(***************************************************************************)
(* Which tab the playground's output pane shows.  The pane keeps `tab`,    *)
(* whether the user chose it (`picked`) and the tabs with content nobody   *)
(* looked at (`unseen`); four effects of the component move it when the    *)
(* status or the texts it is given change.  After a commit React runs the  *)
(* effects in the order they are written, each seeing the tab of that      *)
(* commit; of several setTab calls the last one counts.  A text is the set *)
(* of the runs whose bytes are in it: only emptiness and change matter.    *)
(***************************************************************************)
EXTENDS Naturals

VARIABLES
    status, stderr, compile,   \* properties given by App
    shown,                     \* the pane is mounted (mode "single")
    tab, picked, unseen

Tab == {"stdout", "stderr", "compile", "meta"}

\* The verdicts whose explanation is not on stdout.
Failure == {"ce", "re", "nze", "tle", "mle", "ole", "se"}

TypeOK == shown \in BOOLEAN /\ tab \in Tab /\ picked \in BOOLEAN /\ unseen \subseteq Tab

\* The component's state when it is mounted.
Fresh == tab = "stdout" /\ picked = FALSE /\ unseen = {}

\* The tab strip: compile is hidden while there is no compile output.
tabs == Tab \ {t \in {"compile"} : compile = {}}

\* The pane's body: a tab has something to say about a failure, or a line that
\* says it is empty.
Explains(t) == t = "meta" \/ (t = "stderr" /\ stderr # {}) \/ (t = "compile" /\ compile # {})

\* Mutant: a compile error is treated like the other failures.
TerminalTabPlain(s, e, c) ==
    IF s = "accepted" THEN "stdout"
    ELSE IF s \notin Failure THEN "none"
    ELSE IF e # {} THEN "stderr" ELSE "meta"

\* Where a status sends the reader; "none" for a status that moves nothing.
TerminalTab(s, e, c) ==
    IF s = "accepted" THEN "stdout"
    ELSE IF s \notin Failure THEN "none"
    ELSE IF s = "ce" /\ c # {} THEN "compile"
    ELSE IF e # {} THEN "stderr" ELSE "meta"

\* The effects of a commit that changes (s0, e0, c0) into the primed
\* properties, for a pane that was in (tab0, picked0, unseen0).
Effects(s0, e0, c0, tab0, picked0, unseen0) ==
    \E longer \in IF {} \in {c0, compile'} \/ c0 = compile' THEN {c0 = {}} ELSE BOOLEAN :
    LET newRun   == status' = "queued" /\ s0 # "queued"
        manual   == picked0 /\ ~newRun
        compiled == compile' # c0 /\ compile' # {} /\ longer
        cleared  == compile' # c0 /\ compile' = {} /\ tab0 = "compile"
        firstErr == e0 = {} /\ stderr' # {}
        routed   == IF status' # s0 THEN TerminalTab(status', stderr', compile') ELSE "none"
        target   == IF ~manual /\ routed # "none" THEN routed
                    ELSE IF ~manual /\ firstErr THEN "stderr"
                    ELSE IF ~manual /\ compiled THEN "compile"
                    ELSE IF cleared \/ newRun THEN "stdout" ELSE tab0
        marked   == {t \in {"compile", "stderr"} :
                        /\ manual /\ tab0 # t
                        /\ IF t = "compile" THEN compiled ELSE firstErr}
        kept     == IF newRun THEN {} ELSE unseen0
    IN  /\ tab' = target
        /\ picked' = manual
        /\ unseen' = (kept \cup marked) \ (IF target # tab0 THEN {target} ELSE {})

\* A commit of the page while the pane is mounted.  An unmounted component
\* has no state: it stays as it will be when it is mounted again.
Commit ==
    IF shown THEN Effects(status, stderr, compile, tab, picked, unseen)
             ELSE UNCHANGED <<tab, picked, unseen>>

\* The user clicks a tab of the strip.
pickTab(t) ==
    /\ shown /\ t \in tabs
    /\ picked' = TRUE /\ tab' = t
    /\ unseen' = IF t # tab THEN unseen \ {t} ELSE unseen
    /\ UNCHANGED <<status, stderr, compile, shown>>

\* Switching to the tests mode unmounts the pane; switching back mounts a
\* new one, whose effects all run on the properties of the moment.
setMode ==
    /\ shown' = ~shown
    /\ UNCHANGED <<status, stderr, compile>>
    /\ IF shown' THEN Effects("idle", {}, {}, "stdout", FALSE, {})
                 ELSE tab' = "stdout" /\ picked' = FALSE /\ unseen' = {}
=============================================================================
