----------------------------- MODULE TestsPanel -----------------------------
(***************************************************************************)
(* The test-case panel of the playground with what it stands on: the       *)
(* page's document and its copies (draft, share link), the buckets of test *)
(* cases in localStorage, and the batch endpoints of the service           *)
(* (playground/TestsPanel.tsx, playground/App.tsx, shared/api.ts,          *)
(* routes/batches.rs).                                                     *)
(*                                                                         *)
(* A source stands for a language and a text, and is its own hash: two     *)
(* sources never share a bucket.  A React state update, the render it      *)
(* causes and the effects of that render are one step, but what an effect  *)
(* itself sets is rendered in a later one, and a key or a click may come   *)
(* first.  Tokens are the positions of the cases in the POST; a new run    *)
(* forgets the old batch.  Collapsed rows, the error bar and the timings   *)
(* are left out.                                                           *)
(***************************************************************************)
EXTENDS Naturals, Sequences, FiniteSets, SequencesExt

CONSTANTS
    Source, Snippet,        \* the programs the editor may hold, and the first one
    Text, Empty,            \* what stdin, expected and stdout may be
    Ambiguous, Mangled,     \* texts that are also base64, and what they decode to
    compare(_, _, _),       \* compare(actual, expected, mode)
    Mode,                   \* comparison modes; the first is 'trim'
    Outcome,                \* the ends a row may have
    Imports,                \* files the user may import, as sequences of cases
    MaxCases,               \* 100 in the code
    MaxBuckets,             \* 30 in the code
    MaxSteps,               \* bound: what the user does in a behaviour
    MaxFailures             \* bound: the saves that fail in it

ASSUME EmptyAssumption == Empty \in Text /\ Snippet \in Source
ASSUME BoundsAssumption == {MaxCases, MaxBuckets} \subseteq Nat \ {0} /\ MaxFailures \in Nat
ASSUME DataAssumption ==
    /\ Outcome \subseteq [status : {"accepted", "re"}, stdout : Text]
    /\ Imports \subseteq Seq([stdin : Text, expected : Text])
    /\ 1 \in DOMAIN Mode
\* Every mode accepts the expected output itself (see compare in module Texts).
ASSUME CompareAssumption == \A s \in Text, m \in Range(Mode) : compare(s, s, m)

None == 0
NoSource == [none |-> TRUE]   \* no share link in the address bar

VARIABLES
    src, draft, hash,           \* the document, its draft, the share link
    mounted,                    \* the panel is on the page ("tests" mode)
    tests, mode, stopOnFail,    \* its state
    hydrating, loaded,          \* an update that awaits its render, and what it sets
    importing,                  \* a file is being read
    order, bucket,              \* localStorage: keys by age, and their buckets
    stage, aborted, ctx, sent,  \* the invocation of runAll
    rows, listed,               \* the service: rows by token, and as GET lists them
    disturbed, stepped, last, lost, steps, failures
\* Auxiliary: inputs changed under the run; the service's clock went back; the cases
\* last shown for each source that was not dropped; the sources whose cases were not
\* saved; what the user still does and how often a save still fails.

doc == <<src, draft, hash>>
state == <<tests, mode, stopOnFail>>
updates == <<hydrating, loaded>>
panel == <<state, updates, importing>>
store == <<order, bucket>>
run == <<stage, aborted, ctx, sent>>
service == <<rows, listed, stepped>>
books == <<store, last, lost, failures>>
vars == <<doc, mounted, panel, books, run, service, disturbed, steps>>

emptyCase == [stdin |-> Empty, expected |-> Empty, token |-> None,
              status |-> "none", stdout |-> Empty, passed |-> "none"]

Case == [stdin : Text, expected : Text, token : 0..MaxCases,
         status : {"none", "queued", "accepted", "re"}, stdout : Text \cup {Mangled},
         passed : {"none", "pass", "fail", "unchecked"}]

Live == {"none", "queued"}

isReal(t) == t.stdin # Empty \/ t.expected # Empty

\* A case without its run state.
Stripped(t) == [emptyCase EXCEPT !.stdin = t.stdin, !.expected = t.expected]

\* The base64 decoding of a text the batch endpoint sends as it is.
decode(s) == IF s \in Ambiguous THEN Mangled ELSE s

Map(s, Op(_)) == [i \in DOMAIN s |-> Op(s[i])]
-----------------------------------------------------------------------------
(* localStorage.                                                           *)

NoBucket == [tests |-> <<>>, mode |-> Mode[1], stopOnFail |-> FALSE]

\* The keys after saving under k: a new key on top of more than MaxBuckets
\* keys drops all but the MaxBuckets - 1 youngest.
KeysAfter(k) ==
    IF k \in Range(order) THEN order
    ELSE IF Len(order) > MaxBuckets
         THEN Append(SubSeq(order, Len(order) - MaxBuckets + 2, Len(order)), k)
         ELSE Append(order, k)

\* A save that fails (a full or a blocked storage) fails silently.
saveBucket(k, b) ==
    \/ /\ order' = KeysAfter(k)
       /\ bucket' = [q \in Source |-> IF q = k THEN b
                                      ELSE IF q \in Range(KeysAfter(k)) THEN bucket[q] ELSE NoBucket]
       /\ UNCHANGED failures
    \/ failures > 0 /\ failures' = failures - 1 /\ UNCHANGED store

\* What the last render showed, without results.
Bucket == [tests |-> Map(tests, Stripped), mode |-> mode, stopOnFail |-> stopOnFail]

\* The effect after a render whose key or cases are new: it saves what this render
\* shows, which after a change of the key are the cases of the old one.
Persist == IF mounted' THEN saveBucket(src', Bucket') ELSE UNCHANGED <<store, failures>>

\* Mutant: the effects run in the other order, so that the old cases are
\* saved under the new key before its bucket is read.
HydrateAfterSave(k, b) == [b EXCEPT !.tests = Map(tests, Stripped)]

\* The other effect, which comes first: what the updates make of the state b when the
\* panel meets the source k.
Hydrate(k, b) ==
    IF k \in Range(order) THEN [bucket[k] EXCEPT !.tests = Map(@, Stripped)]
    ELSE [b EXCEPT !.tests = <<emptyCase>>]

\* The state once every update has been rendered.
Updated == IF hydrating THEN loaded ELSE [tests |-> tests, mode |-> mode, stopOnFail |-> stopOnFail]

\* A panel put on the page starts from its defaults and hydrates.
Mount(k) ==
    /\ tests' = <<emptyCase>> /\ mode' = Mode[1] /\ stopOnFail' = FALSE
    /\ hydrating' = TRUE /\ loaded' = Hydrate(k, NoBucket)
    /\ importing' = FALSE

\* A panel taken off the page drops what awaits its render.
Unmount == hydrating' = FALSE /\ loaded' = NoBucket /\ UNCHANGED <<state, importing>>
-----------------------------------------------------------------------------
Idle == [mode |-> Mode[1], stop |-> FALSE]

TypeOK ==
    /\ {src, draft} \subseteq Source /\ hash \in Source \cup {NoSource}
    /\ mounted \in BOOLEAN /\ importing \in BOOLEAN
    /\ tests \in Seq(Case) /\ Len(tests) \in 1..MaxCases
    /\ mode \in Range(Mode) /\ stopOnFail \in BOOLEAN
    /\ order \in Seq(Source) /\ Cardinality(Range(order)) = Len(order)
    /\ Len(order) <= MaxBuckets + 1
    /\ hydrating \in BOOLEAN /\ (hydrating => mounted) /\ lost \subseteq Source
    /\ stage \in {"idle", "post", "get", "wait", "final"} /\ aborted \in BOOLEAN
    /\ Len(rows) <= Len(sent) /\ Range(listed) = DOMAIN rows

Init ==
    /\ src = Snippet /\ draft = src /\ hash = NoSource
    /\ mounted = TRUE
    /\ tests = <<emptyCase>> /\ mode = Mode[1] /\ stopOnFail = FALSE /\ importing = FALSE
    /\ hydrating = FALSE /\ loaded = NoBucket
    /\ \/ /\ order = <<src>>
          /\ bucket = [k \in Source |-> IF k = src THEN [NoBucket EXCEPT !.tests = tests] ELSE NoBucket]
       \/ order = <<>> /\ bucket = [k \in Source |-> NoBucket]
    /\ stage = "idle" /\ aborted = FALSE /\ ctx = Idle /\ sent = <<>>
    /\ rows = <<>> /\ listed = <<>>
    /\ disturbed = FALSE /\ stepped = FALSE
    /\ last = [k \in Source |-> <<emptyCase>>] /\ lost = {}
    /\ steps = MaxSteps /\ failures = MaxFailures

Running == stage # "idle"

\* The inputs of a running batch, as the panel knows them, are changed.
Disturbs(b) == disturbed' = (disturbed \/ b)

\* What an action of the user on the cases leaves alone.
PanelOnly == mounted /\ ~hydrating /\ UNCHANGED <<doc, mounted, updates, run, service>>
-----------------------------------------------------------------------------
(* The user and the cases.                                                 *)

addCase ==
    /\ PanelOnly /\ ~Running /\ Len(tests) < MaxCases
    /\ tests' = Append(tests, emptyCase)
    /\ UNCHANGED <<mode, stopOnFail, importing, disturbed>>

\* Enabled during a run, as the two edits are.
deleteCase(i) ==
    /\ PanelOnly
    /\ tests' = IF Len(tests) = 1 THEN <<emptyCase>> ELSE RemoveAt(tests, i)
    /\ Disturbs(stage = "post")
    /\ UNCHANGED <<mode, stopOnFail, importing>>

patchCase(i, patched) == tests' = [tests EXCEPT ![i] = patched]

editStdin(i, s) ==
    /\ PanelOnly /\ s # tests[i].stdin
    /\ patchCase(i, [tests[i] EXCEPT !.stdin = s, !.passed = "none", !.stdout = Empty, !.status = "none"])
    /\ Disturbs(Running)
    /\ UNCHANGED <<mode, stopOnFail, importing>>

editExpected(i, s) ==
    /\ PanelOnly /\ s # tests[i].expected
    /\ patchCase(i, [tests[i] EXCEPT !.expected = s, !.passed = "none"])
    /\ Disturbs(stage = "post")
    /\ UNCHANGED <<mode, stopOnFail, importing>>

setMode(m) ==
    /\ PanelOnly /\ ~Running /\ m # mode /\ mode' = m
    /\ UNCHANGED <<tests, stopOnFail, importing, disturbed>>

setStopOnFail ==
    /\ PanelOnly /\ ~Running /\ stopOnFail' = ~stopOnFail
    /\ UNCHANGED <<tests, mode, importing, disturbed>>

clearResults ==
    /\ PanelOnly /\ ~Running /\ \E t \in Range(tests) : t.status # "none"
    /\ tests' = Map(tests, Stripped)
    /\ UNCHANGED <<mode, stopOnFail, importing, disturbed>>

clearAll ==
    /\ PanelOnly /\ ~Running /\ Len(tests) > 1
    /\ tests' = <<emptyCase>>
    /\ UNCHANGED <<mode, stopOnFail, importing, disturbed>>

\* The user chooses a file; reading it takes its time.
triggerImport ==
    /\ PanelOnly /\ ~Running /\ ~importing /\ importing' = TRUE
    /\ UNCHANGED <<tests, mode, stopOnFail, disturbed>>

\* The file has been read, whether or not a run has begun.
onImportFile ==
    /\ PanelOnly /\ importing /\ importing' = FALSE
    /\ \E f \in Imports \ {<<>>} :
          tests' = Map(SubSeq(f, 1, IF Len(f) < MaxCases THEN Len(f) ELSE MaxCases), Stripped)
    /\ Disturbs(stage = "post")
    /\ UNCHANGED <<mode, stopOnFail>>

\* It has no cases, or cannot be read.
importNothing ==
    /\ importing /\ importing' = FALSE
    /\ UNCHANGED <<doc, mounted, state, updates, run, service, disturbed>>
-----------------------------------------------------------------------------
(* The user and the document.                                              *)

\* Another text in the editor: a keystroke, format, a language, reset.
setCode(k) ==
    /\ k # src /\ src' = k /\ draft' = k
    /\ IF mounted THEN hydrating' = TRUE /\ loaded' = Hydrate(k, Updated) ELSE UNCHANGED updates
    /\ UNCHANGED <<hash, mounted, state, importing, run, service, disturbed>>

\* The render of what the hydrate effect set.
Hydrated ==
    /\ hydrating /\ hydrating' = FALSE /\ loaded' = NoBucket
    /\ tests' = loaded.tests /\ mode' = loaded.mode /\ stopOnFail' = loaded.stopOnFail
    /\ Disturbs(stage = "post")
    /\ UNCHANGED <<doc, mounted, importing, run, service>>

\* The share button, or the acknowledgement of a single run.
writeShareHash ==
    /\ hash' = src /\ hash' # hash
    /\ UNCHANGED <<src, draft, mounted, panel, run, service, disturbed>>

\* Between single and tests mode.  A run of a panel that is taken down goes
\* on unseen.
setRunMode ==
    /\ mounted' = ~mounted
    /\ IF mounted THEN Unmount ELSE Mount(src)
    /\ stage' = "idle" /\ UNCHANGED <<doc, aborted, ctx, sent, service, disturbed>>

\* What the page is opened with: the link in the address bar, else the draft.
readShareHash == IF hash # NoSource THEN hash ELSE draft

\* The page is closed, or crashes, and is opened again in the same mode.
Reload ==
    /\ src' = readShareHash /\ draft' = src'
    /\ IF mounted THEN Mount(src') ELSE UNCHANGED panel
    /\ stage' = "idle" /\ UNCHANGED <<hash, mounted, aborted, ctx, sent, service, disturbed>>
-----------------------------------------------------------------------------
(* runAll.  The mode and the switch are those of the click.                *)

\* The counter of the real cases, after the first i.
realIdx(ts, i) == Cardinality({k \in 1..i : isReal(ts[k])})

\* What is posted: the stdin of the cases that say something, the n-th of which is
\* where the counter reaches n.
BatchSubmitParams(ts) ==
    LET at(n) == CHOOSE i \in DOMAIN ts : isReal(ts[i]) /\ realIdx(ts, i) = n
    IN  [n \in 1..realIdx(ts, Len(ts)) |-> ts[at(n)].stdin]

runAll ==
    /\ mounted /\ ~hydrating /\ ~Running /\ \E t \in Range(tests) : isReal(t)
    /\ tests' = Map(tests, Stripped)
    /\ sent' = BatchSubmitParams(tests)
    /\ stage' = "post" /\ aborted' = FALSE /\ ctx' = [mode |-> mode, stop |-> stopOnFail]
    /\ rows' = <<>> /\ listed' = <<>> /\ stepped' = FALSE /\ disturbed' = FALSE
    /\ UNCHANGED <<doc, mounted, mode, stopOnFail, updates, importing>>

\* Mutant: tokens go to the cases in their order, the empty ones included.
PairAll(ts) == [i \in DOMAIN ts |->
    IF ~isReal(ts[i]) THEN ts[i]
    ELSE [ts[i] EXCEPT !.status = "queued", !.token = IF i <= Len(sent) THEN i ELSE None]]

\* The n-th real case of now gets the n-th token.
Pair(ts) == [i \in DOMAIN ts |->
    LET n == realIdx(ts, i)
    IN  IF ~isReal(ts[i]) THEN ts[i]
        ELSE [ts[i] EXCEPT !.status = "queued", !.token = IF n <= Len(sent) THEN n ELSE None]]

\* The POST is answered; the polling loop first looks at the signal.
Acknowledged ==
    /\ stage = "post" /\ ~hydrating /\ Len(rows) = Len(sent)
    /\ tests' = Pair(tests)
    /\ stage' = IF aborted THEN "idle" ELSE "get"
    /\ UNCHANGED <<doc, mounted, mode, stopOnFail, updates, importing, aborted, ctx, sent, service, disturbed>>

\* The POST fails, possibly after some of the rows were inserted.
PostFails ==
    /\ stage = "post" /\ stage' = "idle"
    /\ UNCHANGED <<doc, mounted, panel, aborted, ctx, sent, service, disturbed>>

\* The counts of routes/batches.rs.  Whether a worker has begun a row is not told
\* apart from its waiting for one.
summarise ==
    LET of(S) == Cardinality({i \in DOMAIN rows : rows[i].status \in S})
    IN  [total |-> Len(rows), queued |-> of({"queued"}), accepted |-> of({"accepted"}),
         failed |-> Len(rows) - of({"queued", "accepted"})]

\* What GET returns.
BatchView == [items |-> Map(listed, LAMBDA i : rows[i]), summary |-> summarise]

\* The items are paired with the tokens by position.
View(n) == BatchView.items[n]

Verdict(t, row) ==
    IF row.status \in Live THEN "none"
    ELSE IF t.expected = Empty THEN "unchecked"
    ELSE IF row.status # "accepted" THEN "fail"
    ELSE IF compare(decode(row.stdout), t.expected, ctx.mode) THEN "pass" ELSE "fail"

applyView(ts) == Map(ts, LAMBDA t :
    IF t.token = None THEN t
    ELSE [t EXCEPT !.status = View(t.token).status, !.stdout = decode(View(t.token).stdout),
                   !.passed = Verdict(t, View(t.token))])

\* Mutant: a failed case counts as pending.
PendingUntilAccepted == BatchView.summary.queued + BatchView.summary.failed

pending == BatchView.summary.queued

\* A row has ended in an error; a wrong answer is none.
anyFailedSoFar == \E it \in Range(BatchView.items) : it.status \notin Live \cup {"accepted"}

\* One turn of the polling loop.
pollBatch ==
    /\ stage = "get" /\ ~hydrating
    /\ tests' = applyView(tests)
    /\ aborted' = (aborted \/ (ctx.stop /\ anyFailedSoFar))
    /\ stage' = IF pending = 0 THEN "final" ELSE "wait"
    /\ UNCHANGED <<doc, mounted, mode, stopOnFail, updates, importing, ctx, sent, service, disturbed>>

\* The timer: back to the top of the loop, where the signal is looked at.
Wake ==
    /\ stage = "wait" /\ stage' = IF aborted THEN "idle" ELSE "get"
    /\ UNCHANGED <<doc, mounted, panel, aborted, ctx, sent, service, disturbed>>

FinalSync ==
    /\ stage = "final" /\ ~hydrating /\ stage' = "idle"
    /\ tests' = applyView(tests)
    /\ UNCHANGED <<doc, mounted, mode, stopOnFail, updates, importing, aborted, ctx, sent, service, disturbed>>

GetFails ==
    /\ stage \in {"get", "final"} /\ stage' = "idle"
    /\ UNCHANGED <<doc, mounted, panel, aborted, ctx, sent, service, disturbed>>

\* The sleep notices an abort at once, if it was asleep by then.
cancelRun ==
    /\ mounted /\ Running /\ aborted' = TRUE
    /\ stage' = IF stage = "wait" /\ ~aborted THEN "idle" ELSE stage
    /\ UNCHANGED <<doc, mounted, panel, ctx, sent, service, disturbed>>
-----------------------------------------------------------------------------
(* The service.                                                            *)

\* create inserts and announces the rows one at a time.  GET lists them by
\* created_at: as inserted, unless the clock was set back.
InsertRow ==
    /\ stage = "post" /\ Len(rows) < Len(sent)
    /\ LET n == Len(rows) + 1
       IN  /\ rows' = Append(rows, [stdin |-> sent[n], status |-> "queued", stdout |-> Empty])
           /\ \/ listed' = Append(listed, n) /\ UNCHANGED stepped
              \/ listed' = <<n>> \o listed /\ n > 1 /\ stepped' = TRUE
    /\ UNCHANGED <<doc, mounted, panel, run, disturbed>>

\* A worker finishes a row, before or after the POST is answered.
RowFinishes(i) ==
    /\ Running /\ rows[i].status = "queued"
    /\ \E o \in Outcome :
          rows' = [rows EXCEPT ![i].status = o.status, ![i].stdout = o.stdout]
    /\ UNCHANGED <<doc, mounted, panel, run, listed, stepped, disturbed>>
-----------------------------------------------------------------------------
(* The render of the panel that ends a step, if it is on the page.         *)

\* The step takes the panel to another source, off the page or to a new page before
\* what it loaded has been rendered.
Interrupts == hydrating /\ (hydrating' \/ ~mounted')

\* The panel shows the cases of its source.
Settled == mounted /\ ~hydrating

Rendered ==
    /\ Persist
    /\ last' = [k \in Source |-> IF k = src' /\ Settled' THEN Map(tests', Stripped)
                                 ELSE IF k \in Range(order) \ Range(order') THEN <<emptyCase>> ELSE last[k]]
    /\ LET left == IF Interrupts THEN lost \cup {src} ELSE lost
       IN  lost' = IF ~Settled' THEN left
                   ELSE IF failures' = failures THEN left \ {src'} ELSE left \cup {src'}

\* Steps of the user that the panel renders, and others.
Edit ==
    \/ addCase \/ setStopOnFail \/ clearResults \/ clearAll
    \/ \E i \in DOMAIN tests : deleteCase(i)
    \/ \E i \in DOMAIN tests, s \in Text : editStdin(i, s) \/ editExpected(i, s)
    \/ \E m \in Range(Mode) : setMode(m)
    \/ \E k \in Source : setCode(k)
    \/ setRunMode \/ Reload \/ runAll

Click == triggerImport \/ writeShareHash \/ cancelRun

User == steps > 0 /\ steps' = steps - 1 /\ ((Edit /\ Rendered) \/ (Click /\ UNCHANGED books))

Loop == ((Acknowledged \/ pollBatch \/ FinalSync) /\ Rendered) \/ (Wake /\ UNCHANGED books)
Fault == PostFails \/ GetFails \/ importNothing
Serve == InsertRow \/ \E i \in DOMAIN rows : RowFinishes(i)

Next ==
    \/ User
    \/ Loop /\ UNCHANGED steps
    \/ (Hydrated \/ onImportFile) /\ Rendered /\ UNCHANGED steps
    \/ (Fault \/ Serve) /\ UNCHANGED <<books, steps>>

Spec == Init /\ [][Next]_vars

\* Renders happen, requests are answered, timers fire, and workers finish rows.
\* Nothing is assumed of the user.
FairSpec ==
    /\ Spec
    /\ WF_vars(Hydrated /\ Rendered /\ UNCHANGED steps)
    /\ WF_vars(Loop /\ UNCHANGED steps)
    /\ WF_vars(Serve /\ UNCHANGED <<books, steps>>)
-----------------------------------------------------------------------------
(* What the panel shows.                                                   *)

\* The verdict in the head of a row.
verdictText(t) == IF t.passed \in {"pass", "fail"} THEN t.passed ELSE t.status

showDiff(t) == t.passed = "fail" /\ t.expected # Empty

\* The pills of the toolbar.
summary == [m \in {"pass", "fail", "unchecked"} |-> Cardinality({i \in DOMAIN tests : tests[i].passed = m})]
-----------------------------------------------------------------------------
(* Properties.                                                             *)

\* A case that shows a result shows that of its own stdin, and the mark it
\* carries is the comparison of that result with its expected output under the
\* mode of the run: as long as no input was changed under the run, the
\* service's clock ran forward and the output is not valid base64.  When the
\* polling loop ends by itself no case is left queued, the panel never counts
\* more verdicts than it sent cases, and a case called wrong has a difference to
\* show, or an error (the pairing in runAll, applyView, pollBatch, TestCaseRow,
\* the listing of routes/batches.rs).
VerdictsOwnInput ==
    /\ ~disturbed /\ ~stepped /\ rows # <<>> =>
        \A t \in Range(tests) : t.token # None /\ t.status \notin Live =>
            LET row == rows[t.token]
            IN  /\ t.stdin = row.stdin /\ t.status = row.status
                /\ row.stdout \notin Ambiguous =>
                     /\ t.stdout = row.stdout
                     /\ t.passed \in {"none", Verdict(t, row)}
    /\ ~disturbed /\ stage = "final" => \A t \in Range(tests) : verdictText(t) # "queued"
    /\ ~disturbed => summary["pass"] + summary["fail"] + summary["unchecked"] <= Len(sent)
    /\ \A t \in Range(tests) : verdictText(t) = "fail" =>
          showDiff(t) /\ (t.status = "accepted" => t.stdout # t.expected)

\* Coming back to a source brings back the cases last shown for it, without results,
\* whatever was done to other sources meanwhile, although every change of the source
\* first saves the old cases under the new key; unless their own last save failed, or
\* the panel left the source between that first save and the next render, with which
\* the old cases stay there.  Nothing is dropped until more than MAX_BUCKETS sources are
\* kept, and then the oldest ones (the hydrate and persist effects, saveBucket).  (A source
\* met for the first time starts with an empty case: the comment over the buckets, "editing
\* the source doesn't blow away your tests", is true only of coming back.)  And a
\* page that is opened again holds the source it was closed with, unless the address
\* bar holds another one.
WorkComesBack ==
    [][/\ ~Settled /\ Settled' /\ src' \notin lost => tests' = last[src']
       /\ \A i \in DOMAIN order : order[i] \notin Range(order') =>
             /\ Len(order) > MaxBuckets /\ Len(order') = MaxBuckets
             /\ \A j \in 1..i : order[j] \notin Range(order')
       /\ Len(order') <= MaxBuckets + 1
       /\ Reload /\ hash \in {NoSource, src} => src' = src]_vars

\* A batch that was started ends, whether it is cancelled, fails in the middle
\* of its POST or runs to its last row (runAll's finally).
RunAllEnds == Running ~> ~Running
=============================================================================
