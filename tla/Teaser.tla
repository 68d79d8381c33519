------------------------------- MODULE Teaser -------------------------------
(***************************************************************************)
(* The landing page's imitation of a run (landing/playground-teaser.tsx):  *)
(* it starts by itself shortly after the page is shown, and at a click.    *)
(* Timeouts may fire late and in any order.                                *)
(***************************************************************************)
EXTENDS Naturals

CONSTANTS
    Lines,        \* lines of the recorded output
    MaxTimers     \* bound: runs that may be waiting for their timeout

ASSUME LinesAssumption == Lines \in Nat /\ MaxTimers \in Nat \ {0}

VARIABLES
    auto,         \* the timeout of the first render is pending
    phase, outIdx,
    timers,       \* pending timeouts of run()
    tick          \* i of the interval, counted from its start

teaserVars == <<auto, phase, outIdx, timers, tick>>

TeaserInit == auto = TRUE /\ phase = "idle" /\ outIdx = 0 /\ timers = 0 /\ tick = 0

\* The body of run() after its guard.  A running interval is cleared.
start ==
    /\ timers < MaxTimers
    /\ outIdx' = 0 /\ phase' = "queued" /\ timers' = timers + 1 /\ tick' = 0

run == phase \in {"idle", "accepted"} /\ start /\ UNCHANGED auto

\* The first render's timeout calls the run() of the first render, whose guard
\* looks at the phase of that render: idle.
AutoRun == auto /\ auto' = FALSE /\ start

TimeoutFires ==
    /\ timers > 0 /\ timers' = timers - 1
    /\ phase' = "processing"
    /\ tick' = IF phase = "processing" THEN tick ELSE 0
    /\ UNCHANGED <<auto, outIdx>>

\* The interval: one more line, or the end after the last.
Tick ==
    /\ phase = "processing" /\ tick' = tick + 1
    /\ \/ tick' > Lines /\ phase' = "accepted" /\ UNCHANGED outIdx
       \/ tick' <= Lines /\ outIdx' = tick' /\ UNCHANGED phase
    /\ UNCHANGED <<auto, timers>>

TeaserStep == run \/ AutoRun \/ TimeoutFires \/ Tick

\* The imitation is a believable run whatever the order of clicks and timeouts:
\* success is only reported under the whole output, and a run that waits has a
\* timeout that will start it (run, the two effects).
TeaserSound ==
    /\ phase = "accepted" => outIdx = Lines
    /\ phase = "queued" => timers > 0
    /\ outIdx <= Lines
=============================================================================
