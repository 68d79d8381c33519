# ZeroCode in TLA+

ZeroCode is a code-execution service: clients post programs to an HTTP API, the
API stores them in a Postgres table that is also the job queue, worker processes
claim rows from the table, run the program in a sandbox, store the verdict and
tell whoever waits for it. A web site brings a playground, which is a client of
the API, and a landing page. This directory models the part of the service where
its processes meet (the table, the worker's loop, the waiting clients, the create
handler) and the state the web pages keep: the playground's runs, its editor and
its test cases, and what moves on the landing page. Each module is a translation
of the Rust or TypeScript code, `PROJECT.json` maps every definition to the lines it stands for, TLC checks the modules on small
instances and TLAPS proves the safety results for every value of the constants.

To run a check: `tlc -config <name>.cfg MC<Module>`; to check the proofs of a
component: `tlapm <Module>Proofs.tla`.

## Inventory of the system

| Component | State it keeps | Operations | Talks to |
|---|---|---|---|
| `submissions` table (`migrations/`, the worker's and the API's `db.rs`) | one row per submission: status, created/claimed/finished times, source, outputs, callback status, idempotency key | INSERT, `claim_next` (SKIP LOCKED), `write_result`, `write_sandbox_failure`, `update_callback_status`, `sweep_stale`, `scrub_payloads`, `expire_old_rows` | everything; it is the only shared memory |
| Job task (`runner.rs`: `drain`'s spawned future, `process`) | its claim, its memory reservation, the outcome of its run | wait for memory, announce, run with retries, store, announce, webhook, failure path | table, sandbox, event channel, webhook receiver |
| Runner loop and admission (`runner.rs`, `main.rs`, `jobs.rs`) | two semaphores, the `slot_free` and `shutdown` Notifys, a short-lived LISTEN | drain, sleep until NOTIFY / slot / 2 s poll, stop | tasks, table, Postgres NOTIFY |
| Sweeper and retention (`sweeper.rs`, `retention.rs`) | nothing but the clock | every 30 s and 300 s: requeue stale claims; scrub payloads, delete rows | table |
| Webhook (`webhook.rs`) | attempt counter | four POSTs with pauses, record the outcome | client's server, table |
| Create handler (`routes/submissions.rs`) | result cache, sampled queue depth | validate, cache lookup, key lookup, shed, INSERT, NOTIFY, wait, memoise | table, result cache |
| `wait=true` and event streams (`submissions.rs`, `streaming.rs`, `events.rs`) | a pool of listener connections | LISTEN, race guard, event loop, polling fallback, deadline; SSE | table, Postgres NOTIFY |
| Batches (`batches.rs`) | rows that share a `batch_id` | insert a row per test case; summarise | table |
| Sandboxes (`native/`, `naive.rs`, `wasm.rs`), triage, reaper | cgroup, scratch directory, child process | set up, fork, barrier, wait, kill, classify, reap | kernel |
| Caches (`zerocode-cache`) | result cache in memory, compile cache in Postgres | get, insert, evict | create handler, job task |
| Core types (`zerocode-core`) | none | resolve and validate limits, encode statuses, language registry | all |
| Playground, run logic and output pane (`playground/App.tsx`, `shared/api.ts`) | verdict, texts, metrics, token, history, one stream and one AbortController reference, the tab | run, cancel, reset, change language; ack, stream events, GET, polling; pick a tab | API, editor |
| API client (`shared/api.ts`) | base URL and where it came from, probe result | probe with a fallback base, fetch languages and their ceilings | API |
| Tests panel (`playground/TestsPanel.tsx`) | cases with results, comparison mode, buckets in localStorage, a batch in flight | edit, import, export, run all, cancel | batch endpoints, document |
| Editor (`playground/Editor.tsx`) | Monaco's buffer next to React's `code`, the draft, grammars | type, format, change language, tokenize | run logic |
| Controls (`App.tsx`, `shared/theme.ts`) | limits, theme, layout, language drawer, share button | slide, drag, toggle, search | API client, storage |
| Landing page (`landing/`) | teaser, menu, terminal, layer diagram | timers, frames, clicks, hovers | – |
| Read-only routes, migrations runner, telemetry, deployment | none of their own | reports, start-up | |

What is hard in it, and untestable by the repository's unit tests:

* **A claim is a lease without a fence.** The sweeper requeues a claim after
  60 s + 2 × wall limit, but the task may still be alive (the wait for memory is
  not bounded and counts), and the result is written `WHERE token = $1`.
* **Every statement may fail after it took effect.** The failure path then writes
  over a result that is already there.
* **Wake-ups travel over lossy channels**: NOTIFY reaches only sessions that
  listen at that moment, `notify_waiters` only futures that exist, and the worker
  opens a new LISTEN for every sleep.
* **Look, then act**: idempotency lookup and INSERT, stream fetch and LISTEN,
  sampled queue depth and admission are separate steps.
* **Two semaphores with a FIFO queue**, jobs larger than the budget, panics.
* **Every await of the page is a gap** in which the user cancels, starts another
  run, edits or reloads; references to "the" stream and "the" controller are then
  somebody else's.
* **State, render and effect are three moments** in React: a closure sees its own
  render, a listener exists only after the effect, an updater may run late.
* **Things paired by position** (cases, tokens, items) while either side may move.

For each component the properties that make it correct are the ones listed under
*Runs*; `PROJECT.json` lists the hazards with the line at which each bites and the
property that watches it.

## Modules

| Module | Models | Composition |
|---|---|---|
| `SubmissionContract` | what a polling client is promised: absent → queued ⇄ processing → terminal → gone | abstract specification |
| `SubmissionLifecycle` | table, job tasks of several workers, crashes, sweeper, webhook, retention | instantiates `SubmissionContract` under the mapping `polled` |
| `Runner` | one worker's loop: permits, memory, wake-ups, shutdown | – |
| `Waiting` | `wait=true` handlers and event streams against executions of a submission | the row is a `SubmissionContract` (`Row`), which `SubmissionLifecycle` is proved to implement |
| `CreateSubmission` | concurrent runs of the create handler over table, result cache and sampled depth | – |
| `Playground` | runs of the playground, from the click to the history | the service is a `SubmissionContract` (`Row`), the tab strip an `OutputPane` (`Pane`) |
| `OutputPane` | the output pane's effects after a render | instantiated by `Playground` |
| `TestsPanel` | test cases, their buckets, document and share link, `runAll` over the batch endpoints | uses the batch routes of the API as it sees them |
| `Texts` | stream framing, lines, CSV, comparison modes, line diff, formatter | two readers, and operators over texts |
| `Discovery` | overlapping probes for an API, the demo run | part of `Site` |
| `Controls` | limits, theme, splitters, drawer, share button | part of `Site` |
| `Editor`, `ShellGrammar` | buffer, state and draft; the shell highlighter | part of `Site` |
| `Teaser`, `Landing` | the landing page's imitation of a run; menu, terminal, diagram | part of `Site` |
| `Site` | `Discovery` to `Landing` together, one part moving at a time | extends them |
| `Pages` | `Site` and `Texts` in one run | extends them |
| `SubmissionLifecycleProofs`, `RunnerProofs`, `WaitingProofs`, `CreateSubmissionProofs`, `PlaygroundProofs`, `TestsPanelProofs`, `TextsProofs` | theorems | extend their module |
| `SiteProofs` | theorems about the parts of `Site` and their composition | extends `Site` |
| `MC…` | values of the constants for TLC | extend their module |

### SubmissionLifecycle

A task's `pc` follows `drain`'s spawned future: `admit` (waiting for memory),
`exec` (sandbox and retries), `store` (`write_result`), `webhook`, or `fail`
(`write_sandbox_failure`). One action is one statement or one await. Timestamps are
kept as *ages* in ticks that saturate above every threshold the SQL compares them
with (`MaxAge`), so time needs no bound. `claim_next` picks the oldest row that is
queued and not being locked; another worker's uncommitted claim makes SKIP LOCKED
pass over it. `Crash(w)` loses all tasks of a process and `Panic(k)` one; both
leave the row as it is. A write may report an error before or after it took
effect. The columns a run fills are identified with its verdict, so that outputs
of a run under another status can be told. `swept` and `unsure` are history
variables: the submissions the sweeper has put back, and those of which a result
write reported an error; they say when a stored answer may still be replaced.

### Runner

`loop` is the position of `Runner::run`, `wake` the position inside
`wait_for_wake`, `st[j]` where a job is. The task's end is three steps as in the
code (memory guard dropped, permit dropped, `slot_free.notify_one`), so that a
drain can see the permit before or after the notification. `slot_free` is the one
permit a tokio `Notify` stores; `shutdown` is woken by `notify_waiters`, which
stores nothing. The memory semaphore is FIFO (`waiters`). `Want` is the code's
clamp of a job's reservation to [1, budget].

### Waiting

`create` enters a `wait=true` request, `subscribe` takes one of `ListenerMax`
connections or falls back to polling, `Look` is the race guard and, without a
listener, each 200 ms poll; `NextEvent`, `FetchFinished`, `Deadline`,
`ListenerError`, `FinalFetch` are the branches of the loop. `publish_event` appends
to the inbox of each listening session or, for sessions that are reconnecting,
loses it. `stream` is the SSE handler: `StreamFetch`, then `StreamSubscribe`. The
worker's `StdoutChunk`/`StderrChunk` events are never published by the code and
are left out. `lost`, `unwritten` and `why` are history variables that no action
reads in a guard.

### CreateSubmission

One action per stretch between two awaits: `Arrive` (validation, result cache,
callback check, and without a key the shedding test), `find_by_idempotency_key`,
`insert_submission`, `notify`, `wait_for_completion`, `populate_result_cache`;
`Disconnect` drops the handler at any await. The workers and retention appear only
by what they do to a row. `before` and `produced` are history variables.

### Playground and OutputPane

One invocation of `runOnApi` is a run; `pc[r]` is the await it is at: `submit`,
`stream`, `fetch` (the GET after `finished`) or `poll`. `reader` holds the runs
whose stream is still read, `streamRef` and `ctlRef` are the page's two references,
which is how one run can close another's stream or take its controller. A text is
the set of runs whose bytes are in it, so that a mixture can be seen. Every step
ends in a render, whose effects `OutputPane` runs in the order of the code. The
streams may fail (`onError`, which polls), end without a word, or miss the verdict
as `stream_finished` shows.

The service is what `SubmissionLifecycle` says of it, not an ideal one: `tasks` counts
the executions of a run, of which a lapsed lease adds a second; each one that ends
appends to `ends` the verdict it announces and the row it leaves. `Conclude` writes
over whatever is there; `ConcludeUnwritten` announces a sandbox failure although
neither the result nor the failure was stored, so that the row may still be unfinished.
Lapsed leases and failed writes are counted in `faults`. On the page the handler of a
`finished` frame runs for every such frame: closing the stream does not stop the loop
over the frames that were read with it, so `EventFinished` takes any set of ends
that are due, and the other frames behind them. Each has a GET of its own (`gets`), which returns
the row of any moment since it was sent; `passed` are the ends whose frame has gone by.

`overlap`, `ended` and `late` are history variables: the
properties say what holds without them, and so name exactly the situations in which
the page misbehaves. In an entry of the history `of` says which end it reports.

### TestsPanel

`stage` is the await `runAll` is at. Tokens are positions; `rows` is the batch as the
API stores it, `listed` the order in which GET returns it (by `created_at`, which is
the order of insertion unless the clock steps back), `summarise` its counts. Rows are inserted one at a
time and the POST may fail in between. `setCode` and `setRunMode` change the document
under the panel, which then loads another bucket; `Reload` is closing or crashing.

A change of the source takes two renders. In the first the hydrate effect reads the
bucket of the new key and sets the state (`hydrating`, `loaded`), and the persist effect,
which still sees the old cases, saves these under the new key (`Persist`). In the second
(`Hydrated`) the loaded cases are shown and saved. A keystroke, a switch of the mode, a
reload or a crash may come between the two, and then the wrong cases stay in the bucket;
clicks on the panel itself in that moment are left out. `saveBucket` may fail without a
word (`failures` bounds how often). The draft's own save is taken to succeed, here and
in `Editor`. `last` and `lost` are history variables: the cases last shown for a source,
and the sources whose bucket was left wrong in one of these two ways.

GET of a batch answers in plain text while the client decodes base64: `Ambiguous` are
the texts for which that makes a difference.

### Texts

Characters are model values for those the code treats specially. The state machine
is the two readers with arbitrary chunks; the other algorithms are operators that
each reachable text is put through. The bytes of a character are not cut: the
code's `TextDecoder` works in streaming mode.

### Site

`part` chooses which part moves; they share no state except the ceilings that a probe
finds and the sliders use. In `Discovery` a caller of `probe` has its own position and
the base, source and cache are shared. In `Editor` a change goes through `buffer`
(Monaco), `update` (a state change not yet rendered), `code` and `due` (effects not yet run). In
`ShellGrammar` a program is a sequence of tokens that closes everything it opens, and
the stack of Monarch states must be back at its root at its end. In `Landing` lengths and times of the
diagram are integers in thousandths and percent. `Pages` puts `Site` and `Texts`, which share
nothing either, into one run: every behaviour of it is one of `SiteSpec` and one of `ReaderSpec`.

## Runs

| Run | Bounds | Shows |
|---|---|---|
| `lifecycle` | 2 submissions, 2 workers with a task each, one fault, ages up to 2 | row, lease and webhook invariants (`RowSound`, `LeaseSafe`, `WebhookHonest`), refinement of the contract, and `AnswerStands`: a stored answer is replaced only by the other execution of a swept submission, or by the failure after a write that reported an error |
| `lifecycle_live` | 1 submission, 1 worker with 2 tasks, 2 verdicts, 2 faults, 2 sandbox attempts | every accepted submission is answered (the contract with its fairness), every finished row is erased |
| `runner` | 3 jobs (0 MB, part of the budget, more than the budget), 2 permits, one failed claim or panic | permits and memory are conserved, no slot wake-up is lost, memory cannot be stuck, every queued job ends |
| `waiting` | 1 submission, 2 executions, 1 request and 1 stream for 1 connection, 2 faults | no announcement overlooked or premature, every request answered |
| `create` | 2 requests, 6 kinds of request, one database error, shedding above 1 | cached answers are verdicts of the same work under the same limits; a retry after its row neither runs again nor is shed |
| `playground` | 2 runs, 2 kinds of result, a history of 2 with an entry from an earlier visit, no fault of the service | without overlapping runs only the current run's texts are shown; a failure shows a tab that explains it; a run ends |
| `playground_faults` | 2 runs, 1 kind of result, stdout the only output streamed (`Chunks`), one lapsed lease or failed write (`MaxFaults`) | the history tells each announced end once, with what its frame or the row said; an aborted run changes nothing, and the strip goes back by itself only after an end that was not stored |
| `pages` | 2 clicks on Run besides the first probe; slider stops on both sides of every ceiling; 3 window sizes; 5 programs in the editor; shell programs of at most two nested constructs; 3 characters and 2 lines in the terminal; both geometries of the diagram at every percent; 7 characters, texts of length 4, chunks of 2 | `BaseRestored`, `NoFakedVerdict`, `LimitsAccepted`, `ThemeAgrees`, `EditorFaithful`, `NothingLeftHanging`, `ClosedIsClosed`; nothing depends on how a text is cut (`ReadsExactly`), CSV round trip, diff, order of the modes, formatter |
| `tests` | 4 programs for 2 buckets, 2 cases, 4 steps of the user, one failing save (`MaxFailures`) | a verdict belongs to its own input, cases come back with their program and only the oldest buckets are dropped, a batch ends |

Why these bounds are enough for the cases that matter: every hazard of the
lifecycle needs two executions of one submission and one fault between them; two
submissions make the claim choose; ages up to one above the largest threshold
distinguish before, at and after it. In `runner` the three sizes are the three
cases of the clamp, and three jobs for two permits make the loop run dry and sleep.
In `waiting` one connection is contended by a request and a stream, and two
executions are needed for one to announce what the other has not stored.
A page's hazards need one run or request that is late and a second that it meets;
four steps of the user are enough to start a batch, change its input, cancel and
leave. `playground_faults` needs one fault: a lapsed lease makes the second execution with
its late verdict, a failed write the end that is not stored. Two buckets (and the one more that
the code keeps) for four programs make the eviction happen and leave a younger bucket that
must stay, and four steps write a case, change the source, interrupt the change and come back. In `pages` two drags and two
timeouts of the share button (`MaxDrags`, `MaxShares`) are enough for one to outlive
another. Four characters hold a cell with a quote
and a newline in it next to another cell, or two empty lines.
`waiting` and the runs of the web pages switch deadlock checking off, since
their claims, runs, texts or steps are bounded and they end when these are used up;
every other run checks for deadlock.

Three runs state what the documentation says and find the code doing otherwise:

| Run | Documented | What happens |
|---|---|---|
| `runner_sigterm` | `main.rs`: draining, then "stopped cleanly" | a signal that arrives while the loop drains the queue is lost and `main` waits for ever |
| `stream_finished` | `docs/ARCHITECTURE.md:123`: any SSE subscriber receives the event | a submission that finishes between the handler's fetch and its LISTEN is never reported |
| `idempotency` | `api.mdx:48`: the same token for repeated keys | two concurrent requests with one key both insert |

Further disagreements that the models contain as behaviour of the code:

* `docs/STATUS.md:56` says that a terminal submission "will not change again". A task slower
  than its lease is swept, a second one executes the submission, and the later write
  replaces the verdict (the worker's `db.rs:99` has no condition on the claim); no fault is
  needed. A result write that took effect but was reported failed is followed by the
  failure, which replaces it. `AnswerStands` says that these are the only two ways.
* The failure then stands over the outputs of the result; a submission that ends on the failure path gets no webhook,
  though `docs/ARCHITECTURE.md:126` promises one.
* A key is remembered for 24 hours (`find_by_idempotency_key`, API `db.rs:61`), where
  `api.mdx:49` says 5 minutes.
* A failure that could not be stored is announced all the same (`runner.rs:204-224`):
  the playground shows the verdict, then fetches the row, goes back to "processing" and
  records that in the history (`App.tsx:1273-1277`; `Unstored`). Two `finished` frames in
  one chunk, of two executions, make two entries (`api.ts:356-368`), and a row that
  was written again in between is recorded with its new verdict under the old frame.
* Cancelling while the POST is on its way: the answer re-opens the run, and after a
  second run has begun takes over its controller, so that Cancel misses it
  (`App.tsx:1232-1250,1305`; `late` in `Playground`).
* A stream that ends without an error leaves the page at "processing"
  (`api.ts:353`; `ended`). Running again before the row has been fetched lets the
  old row through (`App.tsx:1273`; `overlap`).
* Two probes at once may leave the fallback base in place of the configured one, and
  a demo end on a real submission (`api.ts:411-428`; `raced`).
* Editing, deleting or importing cases during a batch pairs results with the wrong
  input (`TestsPanel.tsx:631-641`; `disturbed`), and outputs that happen to be valid
  base64 are decoded (`api.ts:141`; `Ambiguous`). "Stop on fail" looks at errors
  only, a wrong answer does not stop the batch (`TestsPanel.tsx:651-655`).
* The comment at `TestsPanel.tsx:132` says that "editing the source doesn't blow away your
  tests". An edit to a text without a bucket leaves one empty case on the panel
  (`TestsPanel.tsx:497`); the cases come back only with the old text, which is what
  `WorkComesBack` states. Each keystroke makes a bucket, so that after some thirty of them
  they are dropped. What an interrupted change or a failed save loses is `lost`.
  One bucket more is kept than `MAX_BUCKETS`.
* A batch sends the time limit as CPU time without the cap of a single run, and is
  refused above 30 s (`TestsPanel.tsx:627`; stated in `LimitsAccepted`).
* The last line without a newline may be lost on the page (`App.tsx:1264`; `done =
  "lost"`), until the row arrives. Today's worker publishes no chunks of output, so this is
  not met in practice.
* In the shell highlighter the closing backtick is taken for an opening one
  (`Editor.tsx:320`), and `${ }` and `$(( ))` end at the first closing bracket inside
  them; programs with these are excluded by `Closed` in `ShellGrammar`.

### Fairness

Fairness is assumed only for what the process does by itself: a spawned task
(`TaskStep`) and the loop are polled by tokio until they finish; the sweeper,
retention and the clock tick; a handler goes on, and its deadline fires. This
includes that the database answers or fails, as no statement has a time limit.
All of it is weak fairness; the claim is fair as a whole (some row is claimed), not
per row. Nothing is assumed of clients, webhook receivers (their outcome is free,
the POST itself has a 5 s timeout), faults, other workers or the order in which
branches of a `select!` win. `CreateSubmission` and `Pages` have no liveness
property and no fairness.

In `Playground` requests are answered, the service finishes what it accepted (which
`lifecycle_live` shows of it) and an open stream delivers the verdict unless it missed
it; in `TestsPanel` renders happen, requests are answered, timers fire and workers finish rows. These
are the browser's and the service's doing; nothing is assumed of the user or of
faults.

## Proofs

All theorems are about `Spec` (`SiteSpec` for the composed pages, `ReaderSpec` for the texts), without fairness,
and hold for any number of submissions, tasks, workers, jobs, connections, requests,
runs, probes, cases and buckets, and for texts of any length. They rest on the named assumptions on the constants,
which TLC evaluates in each run. Most of these only give a constant its type. The
others say something about the code:

* `TimeAssumption`: the ages kept reach beyond every threshold of the SQL.
* `CatalogueAssumption`, `CeilingAssumption`: the catalogue lists no more than the
  server's ceilings, and these are not below what the page takes them to be.
* `OutcomeAssumption`: a verdict is not one of the strip's other states.
* `CompareAssumption`: every comparison mode accepts the expected output itself. It is
  what makes "wrong answer" imply that there is a difference to show.
* `TidyAssumption`: formatting twice is formatting once. `TidyStableHolds` proves it of the
  formatter, for every text.
* `RingsAssumption`: the diagram's rings are equally far apart, and its kernel lies within the
  last one; both of the page's drawings are so.

The argument for each component:

* `SubmissionLifecycleProofs`. The inductive invariant is type correctness together
  with `RowInv` (finished ⇔ terminal; pending rows have their source: `RowSound`), `TaskInv`
  (a task past its claim refers to a row that exists; one that reports has stored),
  `LeaseInv` and `WebhookInv`. Exclusiveness of the lease (in `LeaseSafe`) alone is not inductive: that a
  requeued row's former task is out of its lease follows from its other half, which
  ties the row's claim age to the task's own. `RowMoves` describes once what any
  step does to one row and is cited by all the others. `AnswerInv` is about the
  submissions that were never swept: they have one task at most (`SoleTask`), and once they
  are answered none that could still write over it, unless its own write reported an error
  (`SoleAnswer`). From the invariant follow
  `AnswerStands` and, action by action, `ImplementsContract`.
* `RunnerProofs`. The type of `permits` (0 to `MaxParallel`) holds because every
  permit is accounted for, so `TypeOK`, `PermitsConserved` and `NoLostSlotWake` are
  proved together (the type itself is only proved, not in the run); `HolderAdded` and `HolderRemoved` do the counting. For `MemorySound`
  the reservations are a set of single megabytes, each labelled with its job
  (`ReservedMb`): their sum is then a cardinality, and a job that takes or returns its
  share changes it by `Want(j)` without an induction over the jobs.
* `WaitingProofs`. A reply depends on an event, the event on a task, the task on the
  row; `TaskTruth`, `InboxTruth`, `StreamTruth` and `ReplyTruth` carry the truth of
  an announcement along that chain. `NoLostFinished` is the completeness half:
  nobody listening is past the race guard without the event being there or under
  way, unless it was lost.
* `CreateSubmissionProofs`. `Handlers` says what a handler at an await knows, `Earlier`
  that the requests it followed have their rows, `Earned` that whatever stands in a row, a reply or the
  cache was produced by an execution of that work, and `Deduplicated` carries the result of the lookup
  by key over the awaits between it and the INSERT or the refusal: a row never becomes
  live again once it is too old or deleted.
* `PlaygroundProofs`. `Sound` ties a finished row and every frame to the end of an
  execution, `Fetching` every GET to the frame that sent it, one for each, and `Streams` a
  run's position to its reader. `Recorded` says that an entry of the history reports a
  polling loop that is over, or an end whose GET has returned, so that none is reported
  twice; what an entry may say only grows as the row is written again. `Numbered` says that
  runs start in order, `OneUnsettled` that without an overlap only the latest run can still
  write, `Held` that the page then holds its controller and shows its
  status, if no answer came late. `HistoryTrue`, `ShownIsCurrent` and
  `TabFollowsVerdict` are conjuncts of the invariant, the last with `PaneKept` for a pane
  that is not on the page. `CancelledStaysSilent` is an action property and follows step by
  step.
* `TestsPanelProofs`. The steps fall into those that leave the batch alone (`Calm`: each
  case is without a result, or `Inherits` from one it was before) and those of the
  batch. `Posted` says that what was sent are the cases of now, until one is
  changed; `Paired` that no two cases have one token; `Owned` that what a case shows
  comes from the row of its token. That the n-th token goes to the n-th real case is counted by
  `realIdx`; `CounterDistinct` and `CounterReaches` (an injection between finite sets of the
  same size) make it a pairing, `SentIsOwn` says what was posted at that count. The
  bound on the verdicts counted is an injection from marks to tokens.
  `WorkComesBack` rests on `Remembered`: for a source that is not lost the storage holds the cases last
  shown, but for the panel's own source between the two renders of a change, when
  `loaded` holds them. `Saved` sums up what a save, done or failed, does to the storage, `Shift`
  what a step does to the update that awaits its render, and `Clean` says that no bucket holds results.
* `SiteProofs`. An invariant per part (`LimitsInv`, `ThemeInv`, `LayoutInv`, `BarInv`,
  `TeaserInv`, `MenuInv`, `DemoInv`, `EditorInv`); `StillInv` says that a part which
  does not move keeps its own, so that `SiteInvariance` needs one case per part. For the search for an
  API: unless two probes overlapped, one caller at most is past its start (`OneSearch`),
  the base is the configured one or that caller has saved it (`BaseKept`), and a run that
  began with an API knows of one (`RunsKnowApi`). `NothingLeftHangingHolds` takes the parts'
  invariants together; its diagram has no history, and follows at each percent of the cycle from
  the spacing of the rings.
* `TextsProofs`. The algorithms are loops and tables over a text, and what they compute for every
  text is an induction. It is made in set form: the inputs for which a statement holds
  are a set, which has 0 (or the empty sequence) and the successors of its members, and so
  is everything (`UpTo`, `Longer`, from the least element of a set of numbers, `Least`).
  A loop is a function of the number of rounds, so an invariant of a round is one of the loop.
  - *Readers.* `Reads` determines a text's parts and rest (`OneReading`), and cutting the rest
    with the next chunk appended goes on where cutting the text would (`ReadersInvariance`).
  - *Diff.* The function that `Lcs` chooses exists and obeys its equations (`Table`); no common subsequence
    from two places on is longer than its entry there, and the walk keeps the unchanged lines
    written plus the entry it stands at constant (`DiffInv`).
  - *Modes.* `norm` keeps the words, and the words one after the other are the text without white
    space (`WordsKeep`, `WordsFlat`).
  - *Formatter.* Joining and splitting are inverse on lines without newlines (`Lined`,
    `SplitJoin`); a formatted line is a fixed point (`Clean`), and so is the document (`TidyYields`, `TidyKeeps`).
  - *CSV.* The scanner's states between cells (`Ready`, `Settled`): an escaped cell takes it from one
    to the next with the field that is promised (`EscCell`), a case gives a row (`RowStep`), the file all rows
    (`FileScan`); leaving out empty cases before and after comes to the same (`TellTwice`).

  Filters are written with `FlattenSeq` in `Texts`: the prover can say what it does to a sequence one element
  longer, but cannot expand `SelectSeq` and the folds, which take an operator.

Only model-checked:

* liveness under fairness (`AnswersEverySubmission`, `FinishedIsErased`, `EveryJobEnds`,
  `EveryWaitReplies`, `EveryRunEnds`, `RunAllEnds`);
* `ClosedIsClosed`, which says what the tokenizer does with each program of a fixed finite set; TLC
  goes through all of them, and no constant is left for a theorem to be general in.

## Plan

1. Done: lifecycle and contract, runner, waiting, create handler, playground, tests
   panel, texts, and the parts of `Site`; their safety properties are proved but for
   `ClosedIsClosed`.
2. Proofs left: further action properties (what a render may never do to a bucket, what a
   step of one request may do to another's row); the readers with a character's bytes cut
   apart.
3. Native sandbox: scratch directory, cgroup, fork with its barrier, wait,
   kill and clean-up on every error path; the reaper racing the owners of children;
   triage as a function; the compile cache.

## Not modelled

Kernel policies (seccomp filters, landlock, mount tables): their effect is decided
by the kernel. Signing and encoding of webhooks, status strings, formatting.
Migrations, telemetry, read-only routes and deployment: no state of their own.
Of the web pages: layout, colours, wording, icons, the catalogue of languages and
samples (`data.ts`), the editor's themes, scroll-linked decoration (`motion.tsx`,
`sections.tsx`), collapsed rows and the error bars, Monaco and React themselves (a
state change, its render and its effects are separate steps where a handler can come
between them, one step elsewhere). The hash that names a bucket of test cases
(`TestsPanel.tsx:59`) is taken to be injective; two programs that collide would share
their cases. A submission that kills its worker each time is swept and claimed again
for ever; the model bounds the faults, so `AnswersEverySubmission` shows the answer
only once faults stop.
