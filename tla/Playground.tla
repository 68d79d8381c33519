----------------------------- MODULE Playground -----------------------------
(***************************************************************************)
(* The playground page as a client of the service, once it knows an API    *)
(* (module Discovery is about the time before): it submits programs,       *)
(* follows each run over an event stream with polling as the fallback,     *)
(* shows results and keeps a history (`App` in playground/App.tsx, over    *)
(* shared/api.ts).  Every `await` ends an action; what follows it sees     *)
(* whatever the other handlers did meanwhile.  The service is a            *)
(* SubmissionContract, of which SubmissionLifecycle is an implementation:  *)
(* it may execute a run twice, store a second verdict over the first, and  *)
(* announce an end that it failed to store.  The tab strip is the module   *)
(* OutputPane.                                                             *)
(*                                                                         *)
(* One invocation of `runOnApi` is a run, numbered in the order of the     *)
(* clicks; its AbortController and its event stream carry its number.  A   *)
(* text is the set of the runs whose bytes are in it.  The error bar, the  *)
(* timings and the wording of a verdict are left out; "retry" is Run.      *)
(***************************************************************************)
EXTENDS Naturals, Sequences, FiniteSets

CONSTANTS
    MaxRuns,      \* runs a behaviour may start
    HistoryMax,   \* entries the history keeps (20 in the code)
    Earlier,      \* entries it has from earlier visits
    Outcome,      \* the finished rows the service may produce
    Chunks,       \* the outputs it may stream while a program runs: "stdout", "stderr"
    MaxFaults     \* lapsed leases and failed writes of a behaviour

Runs == 1..MaxRuns
None == 0         \* a null reference, or a token the page made up itself

\* A row as GET returns it: its status and which of its texts are not empty.
Unfinished(k) == [kind |-> k, stdout |-> FALSE, stderr |-> FALSE, compile |-> FALSE]
NoResult == Unfinished("queued")

ASSUME MaxRunsAssumption == MaxRuns \in Nat
ASSUME HistoryAssumption == HistoryMax \in Nat \ {0} /\ Earlier \in Nat
ASSUME FaultsAssumption == MaxFaults \in Nat
ASSUME OutcomeAssumption ==
    /\ Outcome \subseteq [kind : STRING, stdout : BOOLEAN, stderr : BOOLEAN, compile : BOOLEAN]
    /\ \A o \in Outcome : o.kind \notin {"idle", "queued", "processing"}

VARIABLES
    status, out, err, cmp,      \* what the page shows: verdict and texts,
    metrics,                    \* and the run whose time and memory
    token, history,
    shown, tab, picked, unseen, \* the output pane
    pc, aborted, finished,      \* per run: its place, its signal, its flag
    reader,                     \* the runs whose event stream is being read
    streamRef, ctlRef,          \* cancelStreamRef, runCtlRef
    gets,                       \* the GETs on their way after a `finished` frame
    phase, ends,                \* the service's rows, and how their executions ended
    tasks, faults,              \* the executions under way, and what went wrong
    passed,                     \* per run: the ends whose frame has gone by
    overlap, ended, late        \* auxiliary: a run began before its predecessor settled;
                                \* the runs whose stream will not report the verdict;
                                \* the POST of an aborted run was answered

view == <<status, out, err, cmp, metrics>>
pane == <<shown, tab, picked, unseen>>
runs == <<pc, aborted, finished, reader, streamRef, ctlRef, gets, passed>>
service == <<phase, ends, tasks, faults>>
vars == <<view, token, history, pane, runs, service, overlap, ended, late>>

Row == INSTANCE SubmissionContract WITH Token <- Runs, phase <- phase
Pane == INSTANCE OutputPane WITH
    status <- status, stderr <- err, compile <- cmp,
    shown <- shown, tab <- tab, picked <- picked, unseen <- unseen

Live == {"queued", "processing"}

\* The verdict the page uses for a status of the API.
statusKind(k) ==
    LET short == [time_limit_exceeded   |-> "tle", memory_limit_exceeded |-> "mle",
                  output_limit_exceeded |-> "ole", compile_error |-> "ce",
                  runtime_error |-> "re", non_zero_exit |-> "nze",
                  sandbox_failure |-> "se", internal_error |-> "se"]
    IN  IF k \in DOMAIN short THEN short[k] ELSE k

Verdict == {"idle", "accepted", "cancelled", "se"} \cup Live \cup {statusKind(o.kind) : o \in Outcome}

\* An execution's end: the verdict it announces and the row as it then is.
End == [verdict : Verdict \ (Live \cup {"idle"}), row : Outcome \cup {NoResult}]

\* An entry of the history; `of` says which end it reports, 0 is the polling
\* loop (auxiliary: the code keeps neither).
Entry == [run : Runs \cup {None}, verdict : Verdict, of : Nat]

\* A GET on its way: for which run, after the frame of which of its ends, and how
\* many ends the row had seen when it was sent.
Get == [run : Runs, of : Nat, since : Nat]

TypeOK ==
    /\ status \in Verdict /\ token \in Runs \cup {None}
    /\ out \subseteq Runs /\ err \subseteq Runs /\ cmp \subseteq Runs /\ metrics \in Runs \cup {None}
    /\ history \in Seq(Entry) /\ Len(history) <= HistoryMax
    /\ Pane!TypeOK
    /\ pc \in [Runs -> {"none", "submit", "stream", "poll", "fetch", "done"}]
    /\ aborted \subseteq Runs /\ finished \subseteq Runs /\ reader \subseteq Runs
    /\ streamRef \in Runs \cup {None} /\ ctlRef \in Runs \cup {None}
    /\ gets \subseteq Get /\ passed \in [Runs -> SUBSET Nat]
    /\ Row!TypeOK /\ ends \in [Runs -> Seq(End)]
    /\ tasks \in [Runs -> Nat] /\ faults \in Nat
    /\ overlap \in BOOLEAN /\ ended \subseteq Runs /\ late \in BOOLEAN

\* The first entries of a history, which are its latest; all that is kept of it.
Kept(h) == SubSeq(h, 1, IF Len(h) < HistoryMax THEN Len(h) ELSE HistoryMax)

loadHistory == Kept([i \in 1..Earlier |-> [run |-> None, verdict |-> "accepted", of |-> 0]])

Init ==
    /\ status = "idle" /\ out = {} /\ err = {} /\ cmp = {} /\ metrics = None
    /\ token = None /\ history = loadHistory
    /\ shown \in BOOLEAN /\ Pane!Fresh
    /\ pc = [r \in Runs |-> "none"] /\ aborted = {} /\ finished = {} /\ reader = {}
    /\ streamRef = None /\ ctlRef = None
    /\ gets = {} /\ passed = [r \in Runs |-> {}]
    /\ Row!Init /\ ends = [r \in Runs |-> <<>>]
    /\ tasks = [r \in Runs |-> 0] /\ faults = 0
    /\ overlap = FALSE /\ ended = {} /\ late = FALSE
-----------------------------------------------------------------------------
(* Pieces shared by the handlers.                                          *)

clearResults(s) == status' = s /\ out' = {} /\ err' = {} /\ cmp' = {} /\ metrics' = None

\* Closes the stream and aborts the controller the page holds, if any.
cancelRun ==
    /\ reader' = reader \ {streamRef} /\ streamRef' = None
    /\ aborted' = aborted \cup ({ctlRef} \ {None}) /\ ctlRef' = None
    /\ UNCHANGED <<pc, finished, gets, passed>>

\* Puts a row on the page; an empty text leaves the pane as it is.
applySubmissionView(r, row) ==
    /\ status' = statusKind(row.kind)
    /\ out' = IF row.stdout THEN {r} ELSE out
    /\ err' = IF row.stderr THEN {r} ELSE err
    /\ cmp' = IF row.compile THEN {r} ELSE cmp
    /\ metrics' = r

recordHistory(r, verdict, end) ==
    history' = Kept(<<[run |-> r, verdict |-> verdict, of |-> end]>> \o history)

\* The run is over; the page keeps its controller.
Ends(r) ==
    /\ pc' = [pc EXCEPT ![r] = "done"]
    /\ UNCHANGED <<aborted, finished, streamRef, ctlRef, gets, passed>>

\* The page still expects something of the run, or still reads its stream.
Unsettled(r) == r \notin aborted /\ (pc[r] \notin {"none", "done"} \/ r \in reader)

\* The number the next run gets.
Fresh(r) == pc[r] = "none" /\ \A q \in Runs : q < r => pc[q] # "none"

\* Mutant: the results of the previous run are not cleared.
RunKeepsResults(r) ==
    /\ Fresh(r)
    /\ status' = "queued" /\ UNCHANGED <<out, err, cmp, metrics>>
    /\ ctlRef' = r
    /\ pc' = [pc EXCEPT ![r] = "submit"]
    /\ overlap' = (overlap \/ \E q \in Runs : Unsettled(q))
    /\ UNCHANGED <<aborted, finished, reader, streamRef, gets, passed, token, history, shown, service, ended, late>>

\* The synchronous part of runOnApi, up to the POST.  It takes the place of
\* the previous controller without aborting it.
runOnApi(r) ==
    /\ Fresh(r)
    /\ clearResults("queued")
    /\ ctlRef' = r
    /\ pc' = [pc EXCEPT ![r] = "submit"]
    /\ overlap' = (overlap \/ \E q \in Runs : Unsettled(q))
    /\ UNCHANGED <<aborted, finished, reader, streamRef, gets, passed, token, history, shown, service, ended, late>>
-----------------------------------------------------------------------------
(* The user.                                                               *)

\* Run, retry or cmd-enter, with a known API.
Run ==
    /\ status \notin Live
    /\ \E r \in Runs : runOnApi(r)

\* The cancel button, or cmd-dot at any time.
Cancel ==
    /\ cancelRun
    /\ status' = IF status \in Live THEN "cancelled" ELSE status
    /\ UNCHANGED <<out, err, cmp, metrics, token, history, shown, service, overlap, ended, late>>

selectLang ==
    /\ cancelRun /\ clearResults("idle") /\ token' = None
    /\ UNCHANGED <<history, shown, service, overlap, ended, late>>

\* The button is disabled during a run.
reset ==
    /\ status \notin Live
    /\ cancelRun /\ clearResults("idle")
    /\ UNCHANGED <<token, history, shown, service, overlap, ended, late>>
-----------------------------------------------------------------------------
(* The POST.                                                               *)

\* 201 with a token.  Nobody looks at the signal: the stream is opened and
\* the controller installed again even if the run was cancelled meanwhile.
Acknowledged(r) ==
    /\ pc[r] = "submit"
    /\ Row!Submit(r)
    /\ token' = r /\ status' = "processing"
    /\ pc' = [pc EXCEPT ![r] = "stream"]
    /\ reader' = reader \cup {r} /\ streamRef' = r /\ ctlRef' = r
    /\ late' = (late \/ r \in aborted)
    /\ UNCHANGED <<out, err, cmp, metrics, history, shown, aborted, finished, gets, passed,
                   ends, tasks, faults, overlap, ended>>

\* A network or HTTP error, or an answer without a token (which is how the
\* service answers from its result cache, so that lines 1234-1238 are never
\* reached).  The row may exist all the same.
SubmitFails(r) ==
    /\ pc[r] = "submit"
    /\ Row!Submit(r) \/ UNCHANGED phase
    /\ pc' = [pc EXCEPT ![r] = "done"]
    /\ \/ r \in aborted /\ UNCHANGED <<view, ctlRef>>
       \/ /\ r \notin aborted /\ status' = "se" /\ ctlRef' = None
          /\ UNCHANGED <<out, err, cmp, metrics>>
    /\ UNCHANGED <<token, history, shown, aborted, finished, reader, streamRef, gets, passed,
                   ends, tasks, faults, overlap, ended, late>>
-----------------------------------------------------------------------------
(* The event stream.  onEvent ignores everything once the run is aborted.  *)

Hears(r) == r \in reader /\ r \notin aborted

\* The ends of the run whose `finished` frame is still to come.
Due(r) == DOMAIN ends[r] \ passed[r]

\* The service may send other frames behind those of the ends I: an execution
\* whose end is not among them has begun.
Underway(r, I) == tasks[r] > 0 \/ Due(r) \ I # {}

EventProcessing(r) ==
    /\ Hears(r) /\ Underway(r, {})
    /\ status' = "processing"
    /\ UNCHANGED <<out, err, cmp, metrics, token, history, shown, runs, service, overlap, ended, late>>

\* A chunk of stdout or stderr (the API forwards them; see flushLines in
\* module Texts for what becomes of the bytes).
EventChunk(r) ==
    /\ Hears(r) /\ Underway(r, {})
    /\ \/ "stdout" \in Chunks /\ out' = out \cup {r} /\ UNCHANGED err
       \/ "stderr" \in Chunks /\ err' = err \cup {r} /\ UNCHANGED out
    /\ UNCHANGED <<status, cmp, metrics, token, history, shown, runs, service, overlap, ended, late>>

\* A verdict; the rest of the row is fetched.  The stream that is closed is
\* the one the page holds, which may be another run's.  Closing it does not stop
\* the loop over the frames that were read with this one: further verdicts, each
\* with a GET of its own, and the other frames of a second execution are handled
\* in the same step, and the last one decides the status.
EventFinished(r) ==
    /\ Hears(r)
    /\ \E I \in SUBSET Due(r) :
         /\ I # {}
         /\ gets' = gets \cup {[run |-> r, of |-> i, since |-> Len(ends[r])] : i \in I}
         /\ passed' = [passed EXCEPT ![r] = @ \cup I]
         /\ \/ \E i \in I : status' = ends[r][i].verdict
            \/ Underway(r, I) /\ status' = "processing"
         /\ \/ UNCHANGED <<out, err>>
            \/ /\ Underway(r, I)
               /\ out' \in {out, out \cup {r}} /\ (out' # out => "stdout" \in Chunks)
               /\ err' \in {err, err \cup {r}} /\ (err' # err => "stderr" \in Chunks)
    /\ finished' = finished \cup {r}
    /\ pc' = [pc EXCEPT ![r] = "fetch"]
    /\ reader' = reader \ {streamRef} /\ streamRef' = None
    /\ UNCHANGED <<cmp, metrics, token, history, shown, aborted, ctlRef, service, overlap, ended, late>>

\* Mutant: onError gives up instead of polling.
StreamFailsForGood(r) ==
    /\ r \in reader /\ reader' = reader \ {r}
    /\ streamRef' = IF r \in aborted \cup finished THEN streamRef ELSE None
    /\ UNCHANGED <<view, token, history, shown, pc, aborted, finished, ctlRef, gets, passed, service, overlap, ended, late>>

\* The request is refused or the connection breaks: onError, which polls.
StreamFails(r) ==
    /\ r \in reader /\ reader' = reader \ {r}
    /\ \/ r \in aborted \cup finished /\ UNCHANGED <<pc, streamRef>>
       \/ /\ r \notin aborted \cup finished
          /\ pc' = [pc EXCEPT ![r] = "poll"] /\ streamRef' = None
    /\ UNCHANGED <<view, token, history, shown, aborted, finished, ctlRef, gets, passed, service, overlap, ended, late>>

\* The body ends (a proxy closes it, the server restarts): the reading loop
\* breaks and calls nobody.
StreamEnds(r) ==
    /\ r \in reader /\ reader' = reader \ {r}
    /\ ended' = ended \cup {r}
    /\ UNCHANGED <<view, token, history, shown, pc, aborted, finished, streamRef, ctlRef, gets, passed, service,
                   overlap, late>>

\* The execution ended between the stream handler's look at the row and its
\* LISTEN: the stream stays open without the verdict (StreamHearsFinished in
\* Waiting).
StreamMisses(r) ==
    /\ r \in reader \ (finished \cup ended) /\ Due(r) # {}
    /\ passed' = [passed EXCEPT ![r] = DOMAIN ends[r]]
    /\ ended' = ended \cup {r}
    /\ UNCHANGED <<view, token, history, shown, pc, aborted, finished, reader, streamRef, ctlRef, gets,
                   service, overlap, late>>
-----------------------------------------------------------------------------
(* GET of the row, after `finished` or in the polling loop.                *)

\* The rows a GET may return that was answered after the first v ends.
Rows(r, v) ==
    IF v = 0 \/ ends[r][v].row = NoResult THEN {Unfinished(k) : k \in Live} ELSE {ends[r][v].row}

\* The GET has returned; the run is over when it was the last one.
Returned(r, g) ==
    /\ g \in gets /\ g.run = r /\ gets' = gets \ {g}
    /\ pc' = IF \E h \in gets \ {g} : h.run = r THEN pc ELSE [pc EXCEPT ![r] = "done"]
    /\ UNCHANGED <<aborted, finished, reader, streamRef, ctlRef, passed>>

\* Mutant: the signal is not looked at after the await.
FetchIgnoresSignal(r) ==
    /\ \E g \in gets :
         /\ Returned(r, g)
         /\ \E v \in g.since..Len(ends[r]) : \E row \in Rows(r, v) :
              applySubmissionView(r, row) /\ recordHistory(r, statusKind(row.kind), g.of)
    /\ UNCHANGED <<token, shown, service, overlap, ended, late>>

\* The row as it was at some moment since the GET was sent: with another verdict
\* than the frame's if it was written again, unfinished if the end of which the
\* frame told was not stored.
FetchRow(r) ==
    /\ \E g \in gets :
         /\ Returned(r, g)
         /\ \/ r \in aborted /\ UNCHANGED <<view, history>>
            \/ /\ r \notin aborted
               /\ \E v \in g.since..Len(ends[r]) : \E row \in Rows(r, v) :
                    applySubmissionView(r, row) /\ recordHistory(r, statusKind(row.kind), g.of)
    /\ UNCHANGED <<token, shown, service, overlap, ended, late>>

\* The frame's verdict is recorded without its timing, aborted or not.
FetchFails(r) ==
    /\ \E g \in gets : Returned(r, g) /\ recordHistory(r, ends[r][g.of].verdict, g.of)
    /\ UNCHANGED <<view, token, shown, service, overlap, ended, late>>

\* Mutant: the loop returns the first row it gets.
PollOnce(r) ==
    /\ pc[r] = "poll" /\ r \notin aborted
    /\ \E row \in Rows(r, Len(ends[r])) :
         applySubmissionView(r, row) /\ recordHistory(r, statusKind(row.kind), 0)
    /\ Ends(r) /\ UNCHANGED <<token, shown, reader, service, overlap, ended, late>>

\* poll() returns a row that is no longer queued or processing.
PollRow(r) ==
    /\ pc[r] = "poll" /\ r \notin aborted /\ phase[r] = "terminal"
    /\ \E row \in Rows(r, Len(ends[r])) :
         applySubmissionView(r, row) /\ recordHistory(r, statusKind(row.kind), 0)
    /\ Ends(r) /\ UNCHANGED <<token, shown, reader, service, overlap, ended, late>>

\* One GET fails, which ends the polling; or the loop meets the signal.
PollFails(r) ==
    /\ pc[r] = "poll" /\ r \notin aborted /\ Ends(r)
    /\ status' = "se"
    /\ UNCHANGED <<out, err, cmp, metrics, token, history, shown, reader, service, overlap, ended, late>>

PollAborts(r) ==
    /\ pc[r] = "poll" /\ r \in aborted /\ Ends(r)
    /\ UNCHANGED <<view, token, history, shown, reader, service, overlap, ended, late>>
-----------------------------------------------------------------------------
(* The service.  A row that retention has removed answers as a GET that    *)
(* fails, which a GET may do anyway.                                       *)

Claim(r) ==
    /\ Row!Start(r)
    /\ tasks' = [tasks EXCEPT ![r] = @ + 1]
    /\ UNCHANGED <<ends, faults>>

\* A lease lapses or a write fails.
Fault == faults < MaxFaults /\ faults' = faults + 1

\* The sweeper gives the row back to the queue, because nobody works on it or
\* although somebody does.
Sweep(r) ==
    /\ Row!Requeue({r})
    /\ \/ tasks[r] = 0 /\ UNCHANGED faults
       \/ tasks[r] > 0 /\ Fault
    /\ UNCHANGED <<ends, tasks>>

\* The row as the last end left it.
Stored(r) == IF ends[r] = <<>> THEN NoResult ELSE ends[r][Len(ends[r])].row

\* An execution ends: what it announces, and the row it leaves.
Concludes(r, verdict, row) ==
    /\ tasks[r] > 0 /\ tasks' = [tasks EXCEPT ![r] = @ - 1]
    /\ ends' = [ends EXCEPT ![r] = Append(@, [verdict |-> verdict, row |-> row])]
    /\ phase' = IF row = NoResult THEN phase ELSE [phase EXCEPT ![r] = "terminal"]

\* It writes its row, over whatever is there, and announces its verdict.
Conclude(r) ==
    /\ \E o \in Outcome : Concludes(r, statusKind(o.kind), o)
    /\ UNCHANGED faults

\* Its write is reported as failed, whether it took effect or not, and so is the
\* write of the failure; the failure is announced all the same.
ConcludeUnwritten(r) ==
    /\ \E row \in Outcome \cup {Stored(r)} : Concludes(r, "se", row)
    /\ Fault

Serve(r) ==
    /\ Claim(r) \/ Sweep(r) \/ Conclude(r) \/ ConcludeUnwritten(r)
    /\ UNCHANGED <<view, token, history, shown, runs, overlap, ended, late>>
-----------------------------------------------------------------------------
\* Every step of the page ends in a render: the pane's effects see what it
\* changed.
Rendered == Pane!Commit

PickTab ==
    /\ \E t \in Pane!Tab : Pane!pickTab(t)
    /\ UNCHANGED <<out, metrics, token, history, runs, service, overlap, ended, late>>

SetMode ==
    /\ Pane!setMode
    /\ UNCHANGED <<out, metrics, token, history, runs, service, overlap, ended, late>>

User == Run \/ Cancel \/ selectLang \/ reset

Stream(r) == EventProcessing(r) \/ EventChunk(r) \/ EventFinished(r)
                 \/ StreamFails(r) \/ StreamEnds(r) \/ StreamMisses(r)

Request(r) == Acknowledged(r) \/ SubmitFails(r) \/ FetchRow(r) \/ FetchFails(r)
                  \/ PollRow(r) \/ PollFails(r) \/ PollAborts(r)

Next ==
    \/ PickTab
    \/ SetMode
    \/ User /\ Rendered
    \/ \E r \in Runs : (Stream(r) \/ Request(r) \/ Serve(r)) /\ Rendered

Spec == Init /\ [][Next]_vars

\* Requests are answered, the service finishes what it accepted
\* (SubmissionLifecycle), and a stream that stays open delivers the verdict
\* unless it missed it.
\* Nothing is assumed of the user, of failures or of the other events.
FairSpec ==
    /\ Spec
    /\ \A r \in Runs :
         /\ WF_vars((Acknowledged(r) \/ FetchRow(r) \/ PollRow(r) \/ PollAborts(r)) /\ Rendered)
         /\ WF_vars(EventFinished(r) /\ Rendered)
         /\ WF_vars(Serve(r) /\ Rendered)
-----------------------------------------------------------------------------
(* Properties.                                                             *)

Current == Cardinality({r \in Runs : pc[r] # "none"})

Texts == out \cup err \cup cmp

\* What may be said of a run after the frame of its i-th end: the verdict announced
\* then, or what the row shows then or later; `queued` or `processing` only if
\* an end was announced that had not been stored.
Reported(r, i) ==
    {ends[r][i].verdict} \cup {statusKind(row.kind) : row \in UNION {Rows(r, v) : v \in i..Len(ends[r])}}

\* The history tells the truth about the runs, once: an entry made after a
\* `finished` frame says what the frame or the row said, nothing older than the
\* end it reports, and each end is reported once, however many frames came in
\* one chunk and in whatever order their GETs returned; an entry of the polling
\* loop carries the verdict of a finished row and is the run's only one
\* (recordHistory, onEvent, poll).
HistoryTrue ==
    /\ \A i \in DOMAIN history : history[i].run \in Runs =>
          LET r == history[i].run
              e == history[i].of
          IN  \/ e \in DOMAIN ends[r] /\ history[i].verdict \in Reported(r, e)
              \/ /\ e = 0
                 /\ \E v \in DOMAIN ends[r] : /\ ends[r][v].row # NoResult
                                             /\ history[i].verdict = statusKind(ends[r][v].row.kind)
    /\ \A i, j \in DOMAIN history : i < j /\ history[i].run = history[j].run /\ history[i].run \in Runs =>
          history[i].of # history[j].of /\ 0 \notin {history[i].of, history[j].of}

\* As long as every run was settled or aborted when the next one began, the
\* texts and the metrics on the page are those of the latest run: neither a
\* late row nor a stream of an earlier run gets through (runOnApi, cancelRun).
ShownIsCurrent == ~overlap => Texts \subseteq {Current} /\ metrics \in {Current, None}

\* Unless the user chose a tab, a failure shows one that explains it, and the
\* texts on stderr, or the compiler's for a compile error, before the metrics,
\* whether they came before the verdict, with it or after it; and the tab shown
\* is always in the strip (the effects of OutputPane).
TabFollowsVerdict ==
    /\ tab \in Pane!tabs
    /\ shown /\ ~picked /\ status \in Pane!Failure =>
          /\ Pane!Explains(tab)
          /\ err # {} \/ (status = "ce" /\ cmp # {}) => tab # "meta"

\* The runs of which an end was announced while the row was not finished.
Unstored == {r \in Runs : \E i \in DOMAIN ends[r] : ends[r][i].row = NoResult}

\* Where the status strip stands: nowhere, queued, processing, or at a verdict.
phaseIdx == IF status = "idle" THEN 0 ELSE IF status = "queued" THEN 1 ELSE IF status = "processing" THEN 2 ELSE 3

\* Once a run is aborted its texts never appear, and after the POST has been
\* answered nothing it still does changes the page: the signal is looked at
\* after every await (onEvent, apiGet, poll).  The status strip goes back only if
\* the user makes it, or the service announced an end of the latest run that it
\* had not stored, unless runs overlap or the POST of an aborted one is answered:
\* at that answer the signal is not looked at.
CancelledStaysSilent ==
    [][/\ \A r \in aborted :
            /\ r \notin Texts => r \notin Texts'
            /\ pc[r] # "submit" /\ pc'[r] # pc[r] => UNCHANGED view
       /\ phaseIdx' < phaseIdx => User \/ Current \in Unstored \/ overlap' \/ late']_vars

\* A run that is not cancelled ends, unless the other side closed its stream
\* without a word or never sent the verdict on it, or the handler of an
\* overlapping run closed it (runOnApi with the stream, its error handler and the
\* polling loop).
EveryRunEnds ==
    \A r \in Runs : pc[r] = "submit" ~> (pc[r] = "done" \/ r \in aborted \cup ended \/ overlap)
=============================================================================
