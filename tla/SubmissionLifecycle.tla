------------------------ MODULE SubmissionLifecycle ------------------------
(***************************************************************************)
(* The life of a row of the `submissions` table: inserted by the API,      *)
(* claimed and executed by the tasks of several worker processes, put back *)
(* in the queue by the sweeper, answered, reported to the client's webhook *)
(* and finally erased by the retention job.  Workers crash at any point,   *)
(* and any statement that writes a result may fail before or after it took *)
(* effect.                                                                 *)
(*                                                                         *)
(* A tick of time is about a minute.  The table's timestamps are kept as   *)
(* ages in ticks, saturating above every threshold the code compares them  *)
(* with, so that time itself needs no bound.  The outputs of a run         *)
(* (stdout, stderr, exit code, times) are identified with its verdict:     *)
(* stdout[t] = v says that the columns hold what the run judged v printed. *)
(***************************************************************************)
EXTENDS Integers, FiniteSets

CONSTANTS
    Token,          \* submissions that may be created
    Task,           \* job tasks: `max_parallel` of them on each worker
    Worker,         \* worker processes
    Host,           \* Host[k]: the worker that spawns task k
    Verdict,        \* statuses a completed sandbox run may have
    WithCallback,   \* submissions created with a callback_url
    None,           \* SQL NULL
    Grace,          \* the sweeper's 60 s, in ticks
    WallLimit,      \* wall_time_limit of each submission, in ticks
    PayloadTtl,     \* ZEROCODE_PAYLOAD_TTL_SECS, in ticks
    RowTtl,         \* ZEROCODE_RETENTION_HOURS, in ticks
    MaxAge,         \* where ages saturate
    MaxSandboxAttempts, \* MAX_SANDBOX_ATTEMPTS
    MaxPosts,       \* attempts of webhook::deliver: 1 + |RETRY_DELAYS|
    MaxFaults       \* bound on crashes and database errors in a behaviour

NoRow == {"absent", "deleted"}
Terminal == Verdict \cup {"sandbox_failure"}
Pending == {"queued", "processing"}
Status == NoRow \cup Pending \cup Terminal

\* sweep_stale's per-row threshold, 60 s + 2 * wall_time_limit.
SweepAfter(t) == Grace + 2 * WallLimit[t]

ASSUME SetsAssumption ==
    /\ IsFiniteSet(Token)
    /\ Host \in [Task -> Worker]
    /\ WithCallback \subseteq Token
    /\ None \notin Token
    /\ None \notin Verdict
    /\ None \notin {"delivered", "failed_after_retries"}
    /\ \A v \in Verdict : v \notin NoRow \cup Pending \cup {"sandbox_failure"}

ASSUME TimeAssumption ==
    /\ Grace \in Nat /\ WallLimit \in [Token -> Nat]
    /\ PayloadTtl \in Nat /\ RowTtl \in Nat /\ MaxAge \in Nat
    /\ \A t \in Token : SweepAfter(t) < MaxAge
    /\ PayloadTtl < MaxAge /\ RowTtl < MaxAge

ASSUME BoundAssumption ==
    /\ MaxSandboxAttempts \in Nat \ {0}
    /\ MaxPosts \in Nat \ {0}
    /\ MaxFaults \in Nat

VARIABLES
    \* The table, one function per column a statement reads or a client sees.
    status,         \* status (with status_detail); "absent" before the INSERT
    created,        \* created_at, as a position in the order of insertion
    claimed_at,     \* ticks since the claim, -1 for NULL
    finished_at,    \* ticks since the last terminal write, -1 for NULL
    source,         \* whether source_code still holds the program
    stdout,         \* the output columns
    callback_status,
    \* The tasks spawned by Runner::drain, in memory.
    pc,             \* where a task is; "idle" when its permit is free
    claim,          \* the claimed token
    age,            \* ticks since the task claimed it
    tries,          \* executions, later webhook posts, already made
    result,         \* what the sandbox returned
    \* The world outside.
    received,       \* submissions whose webhook reached the receiver
    faults,         \* crashes and database errors so far
    \* Auxiliary.
    swept,          \* submissions the sweeper has put back in the queue
    unsure          \* submissions of which a write of a result reported an error

rowVars == <<status, created, claimed_at, finished_at, source, stdout,
             callback_status>>
taskVars == <<pc, claim, age, tries, result>>
books == <<swept, unsure>>
vars == <<rowVars, taskVars, received, faults, books>>

Pc == {"idle", "admit", "exec", "store", "fail", "webhook"}
Null == -1
Age == {Null} \cup 0 .. MaxAge

TypeOK ==
    /\ status \in [Token -> Status]
    /\ created \in [Token -> Nat]
    /\ claimed_at \in [Token -> Age]
    /\ finished_at \in [Token -> Age]
    /\ source \in [Token -> BOOLEAN]
    /\ stdout \in [Token -> Verdict \cup {None}]
    /\ callback_status \in [Token -> {None, "delivered", "failed_after_retries"}]
    /\ pc \in [Task -> Pc]
    /\ claim \in [Task -> Token \cup {None}]
    /\ \A k \in Task : pc[k] # "idle" => claim[k] \in Token
    /\ age \in [Task -> 0 .. MaxAge]
    /\ tries \in [Task -> Nat]
    /\ result \in [Task -> Verdict \cup {None}]
    /\ \A k \in Task : pc[k] \in {"store", "webhook"} => result[k] \in Verdict
    /\ received \subseteq Token
    /\ faults \in 0 .. MaxFaults
    /\ swept \subseteq Token /\ unsure \subseteq Token

Init ==
    /\ status = [t \in Token |-> "absent"]
    /\ created = [t \in Token |-> 0]
    /\ claimed_at = [t \in Token |-> Null]
    /\ finished_at = [t \in Token |-> Null]
    /\ source = [t \in Token |-> FALSE]
    /\ stdout = [t \in Token |-> None]
    /\ callback_status = [t \in Token |-> None]
    /\ pc = [k \in Task |-> "idle"]
    /\ claim = [k \in Task |-> None]
    /\ age = [k \in Task |-> 0]
    /\ tries = [k \in Task |-> 0]
    /\ result = [k \in Task |-> None]
    /\ received = {}
    /\ faults = 0
    /\ swept = {} /\ unsure = {}

-----------------------------------------------------------------------------
(* The API.                                                                *)

Inserted == {t \in Token : status[t] # "absent"}

\* The INSERT of POST /v1/submissions, and of each test case of a batch.
insert_submission(t) ==
    /\ status[t] = "absent"
    /\ status' = [status EXCEPT ![t] = "queued"]
    /\ created' = [created EXCEPT ![t] = Cardinality(Inserted) + 1]
    /\ source' = [source EXCEPT ![t] = TRUE]
    /\ UNCHANGED <<claimed_at, finished_at, stdout, callback_status, taskVars,
                   received, faults, books>>

-----------------------------------------------------------------------------
(* The tasks of the workers.                                               *)

\* Another session holds the row's lock: a worker of its own claiming it, or
\* a task whose claim was swept writing its result.
Locked(u, w) ==
    \/ \E k \in Task : Host[k] # w /\ pc[k] = "idle"
    \/ \E k \in Task : pc[k] \in {"store", "fail"} /\ claim[k] = u

\* The oldest queued row that is not locked: FOR UPDATE SKIP LOCKED.
Claimable(t, w) ==
    /\ status[t] = "queued"
    /\ \A u \in Token : status[u] = "queued" /\ created[u] < created[t]
                            => Locked(u, w)

\* Mutant: a task is spawned although the claim's reply was lost.
ClaimSpawnsOnError(k, t) ==
    /\ pc[k] = "idle"
    /\ Claimable(t, Host[k])
    /\ status' = [status EXCEPT ![t] = "processing"]
    /\ claimed_at' = [claimed_at EXCEPT ![t] = 0]
    /\ pc' = [pc EXCEPT ![k] = "admit"]
    /\ UNCHANGED <<created, finished_at, source, stdout, callback_status,
                   claim, age, tries, result, received, faults, books>>

\* Runner::drain took a permit, claimed a row and spawned the task.  When the
\* reply to the claim is lost, or does not parse, the row stays claimed by
\* nobody and the permit is dropped.
claim_next(k, t) ==
    /\ pc[k] = "idle"
    /\ Claimable(t, Host[k])
    /\ status' = [status EXCEPT ![t] = "processing"]
    /\ claimed_at' = [claimed_at EXCEPT ![t] = 0]
    /\ \/ /\ pc' = [pc EXCEPT ![k] = "admit"]
          /\ claim' = [claim EXCEPT ![k] = t]
          /\ age' = [age EXCEPT ![k] = 0]
          /\ UNCHANGED faults
       \/ /\ faults < MaxFaults /\ faults' = faults + 1
          /\ UNCHANGED <<pc, claim, age>>
    /\ UNCHANGED <<created, finished_at, source, stdout, callback_status,
                   tries, result, received, books>>

\* The task has its memory reservation and enters `process`; a language
\* missing from this worker's registry is an error.
admit(k) ==
    /\ pc[k] = "admit"
    /\ \E next \in {"exec", "fail"} : pc' = [pc EXCEPT ![k] = next]
    /\ UNCHANGED <<rowVars, claim, age, tries, result, received, faults, books>>

\* One round of execute_with_retry: a verdict, a retryable fault with an
\* attempt left, or an error that ends the submission.
Execute(k) ==
    /\ pc[k] = "exec"
    /\ \/ \E v \in Verdict :
            /\ result' = [result EXCEPT ![k] = v]
            /\ pc' = [pc EXCEPT ![k] = "store"]
            /\ tries' = [tries EXCEPT ![k] = 0]
       \/ /\ tries[k] + 1 < MaxSandboxAttempts
          /\ tries' = [tries EXCEPT ![k] = @ + 1]
          /\ UNCHANGED <<pc, result>>
       \/ /\ pc' = [pc EXCEPT ![k] = "fail"]
          /\ tries' = [tries EXCEPT ![k] = 0]
          /\ UNCHANGED result
    /\ UNCHANGED <<rowVars, claim, age, received, faults, books>>

\* The task ends and gives its permits back.
Release(k) ==
    /\ pc' = [pc EXCEPT ![k] = "idle"]
    /\ claim' = [claim EXCEPT ![k] = None]
    /\ age' = [age EXCEPT ![k] = 0]
    /\ tries' = [tries EXCEPT ![k] = 0]
    /\ result' = [result EXCEPT ![k] = None]

\* Mutant: an upsert, which brings a deleted row back.
SetResultUpsert(t, v) ==
    /\ status' = [status EXCEPT ![t] = v]
    /\ finished_at' = [finished_at EXCEPT ![t] = 0]
    /\ stdout' = [stdout EXCEPT ![t] = v]

\* UPDATE ... WHERE token = $1: nothing happens to a row that was deleted.
\* The statement has no other condition: not on the status, not on the claim.
SetResult(t, v) ==
    IF status[t] \in NoRow
    THEN UNCHANGED <<status, finished_at, stdout>>
    ELSE /\ status' = [status EXCEPT ![t] = v]
         /\ finished_at' = [finished_at EXCEPT ![t] = 0]
         /\ stdout' = [stdout EXCEPT ![t] = v]

\* The end of `process`: store the result; on an error, which may be reported
\* for a statement that took effect, the caller writes a failure instead.
write_result(k) ==
    /\ pc[k] = "store"
    /\ \/ /\ SetResult(claim[k], result[k])
          /\ IF claim[k] \in WithCallback
             THEN pc' = [pc EXCEPT ![k] = "webhook"]
                    /\ UNCHANGED <<claim, age, tries, result>>
             ELSE Release(k)
          /\ UNCHANGED <<faults, unsure>>
       \/ /\ faults < MaxFaults /\ faults' = faults + 1
          /\ unsure' = unsure \cup {claim[k]}
          /\ \/ SetResult(claim[k], result[k])
             \/ UNCHANGED <<status, finished_at, stdout>>
          /\ pc' = [pc EXCEPT ![k] = "fail"]
          /\ result' = [result EXCEPT ![k] = None]
          /\ UNCHANGED <<claim, age, tries>>
    /\ UNCHANGED <<created, claimed_at, source, callback_status, received, swept>>

\* The columns write_sandbox_failure sets; the outputs are not among them.
SetFailure(t) ==
    IF status[t] \in NoRow
    THEN UNCHANGED <<status, finished_at, stdout>>
    ELSE /\ status' = [status EXCEPT ![t] = "sandbox_failure"]
         /\ finished_at' = [finished_at EXCEPT ![t] = 0]
         /\ UNCHANGED stdout

\* The error path of the task.  A failed write is only logged.
write_sandbox_failure(k) ==
    /\ pc[k] = "fail"
    /\ \/ SetFailure(claim[k]) /\ UNCHANGED faults
       \/ /\ faults < MaxFaults /\ faults' = faults + 1
          /\ UNCHANGED <<status, finished_at, stdout>>
    /\ Release(k)
    /\ UNCHANGED <<created, claimed_at, source, callback_status, received, books>>

\* update_callback_status: an UPDATE by token whose error is only logged.
SetCallback(t, s) ==
    \/ /\ callback_status' = IF status[t] \in NoRow THEN callback_status
                             ELSE [callback_status EXCEPT ![t] = s]
       /\ UNCHANGED faults
    \/ /\ faults < MaxFaults /\ faults' = faults + 1
       /\ UNCHANGED callback_status

\* Mutant: the end of the retry loop falls through to Delivered.
DeliverFallsThrough(k) ==
    /\ pc[k] = "webhook"
    /\ \/ /\ received' = received \cup {claim[k]}
          /\ SetCallback(claim[k], "delivered")
          /\ Release(k)
       \/ /\ received' \in {received, received \cup {claim[k]}}
          /\ IF tries[k] + 1 < MaxPosts
             THEN /\ tries' = [tries EXCEPT ![k] = @ + 1]
                  /\ UNCHANGED <<pc, claim, age, result, callback_status, faults>>
             ELSE /\ SetCallback(claim[k], "delivered")
                  /\ Release(k)
    /\ UNCHANGED <<status, created, claimed_at, finished_at, source, stdout, books>>

\* Mutant: a webhook that cannot be delivered is an error of `process`.
DeliverPropagates(k) ==
    /\ pc[k] = "webhook"
    /\ \/ /\ received' = received \cup {claim[k]}
          /\ \/ SetCallback(claim[k], "delivered")
             \/ SetCallback(claim[k], "failed_after_retries")
          /\ Release(k)
       \/ /\ received' \in {received, received \cup {claim[k]}}
          /\ IF tries[k] + 1 < MaxPosts
             THEN tries' = [tries EXCEPT ![k] = @ + 1] /\ UNCHANGED pc
             ELSE pc' = [pc EXCEPT ![k] = "fail"] /\ UNCHANGED tries
          /\ UNCHANGED <<claim, age, result, callback_status, faults>>
    /\ UNCHANGED <<status, created, claimed_at, finished_at, source, stdout, books>>

\* One POST of webhook::deliver.  2xx and 4xx end it; a server error or a
\* timeout, after which the receiver may or may not have the message, is
\* retried until the attempts are used up.
deliver(k) ==
    /\ pc[k] = "webhook"
    /\ \/ /\ received' = received \cup {claim[k]}
          /\ \/ SetCallback(claim[k], "delivered")
             \/ SetCallback(claim[k], "failed_after_retries")
          /\ Release(k)
       \/ /\ received' \in {received, received \cup {claim[k]}}
          /\ IF tries[k] + 1 < MaxPosts
             THEN /\ tries' = [tries EXCEPT ![k] = @ + 1]
                  /\ UNCHANGED <<pc, claim, age, result, callback_status, faults>>
             ELSE /\ SetCallback(claim[k], "failed_after_retries")
                  /\ Release(k)
    /\ UNCHANGED <<status, created, claimed_at, finished_at, source, stdout, books>>

TaskStep(k) ==
    admit(k) \/ Execute(k) \/ write_result(k) \/ write_sandbox_failure(k)
        \/ deliver(k)

\* The tasks in S vanish with all they knew; no row changes.
Lose(S) ==
    /\ \E k \in S : pc[k] # "idle"
    /\ faults < MaxFaults /\ faults' = faults + 1
    /\ LET Kill(f, v) == [k \in Task |-> IF k \in S THEN v ELSE f[k]]
       IN /\ pc' = Kill(pc, "idle")
          /\ claim' = Kill(claim, None)
          /\ age' = Kill(age, 0)
          /\ tries' = Kill(tries, 0)
          /\ result' = Kill(result, None)
    /\ UNCHANGED <<rowVars, received, books>>

\* The worker process dies, or exits on SIGTERM without waiting for the tasks
\* it spawned, and is restarted.
Crash(w) == Lose({k \in Task : Host[k] = w})

\* A single task panics: unwinding returns its permits and nothing else.
Panic(k) == Lose({k})

-----------------------------------------------------------------------------
(* The background jobs every worker runs, one statement each.              *)

\* Mutants: off by one; the comparison reversed.
StaleOneEarly == {t \in Token : status[t] = "processing" /\ claimed_at[t] >= SweepAfter(t)}
StaleReversed == {t \in Token : status[t] = "processing" /\ claimed_at[t] < SweepAfter(t)}

Stale == {t \in Token : status[t] = "processing" /\ claimed_at[t] > SweepAfter(t)}

\* The sweeper returns the rows of dead workers to the queue.
sweep_stale ==
    /\ Stale # {}
    /\ status' = [t \in Token |-> IF t \in Stale THEN "queued" ELSE status[t]]
    /\ claimed_at' = [t \in Token |-> IF t \in Stale THEN Null ELSE claimed_at[t]]
    /\ swept' = swept \cup Stale
    /\ UNCHANGED <<created, finished_at, source, stdout, callback_status,
                   taskVars, received, faults, unsure>>

\* Mutants: the age counts from the claim; the DELETE keeps the scrub's
\* condition on the payload.
OlderSinceClaim(ttl) ==
    {t \in Token : status[t] \notin NoRow /\ (finished_at[t] > ttl \/ claimed_at[t] > ttl)}
OlderWithPayload(ttl) ==
    {t \in Token : status[t] \notin NoRow /\ finished_at[t] > ttl /\ stdout[t] # None}

\* Rows whose finished_at is older than ttl.
Older(ttl) ==
    {t \in Token : status[t] \notin NoRow /\ finished_at[t] > ttl}

\* Retention, payload TTL: program and outputs go, the audit stub stays.
scrub_payloads ==
    LET old == {t \in Older(PayloadTtl) : source[t] \/ stdout[t] # None}
    IN /\ old # {}
       /\ source' = [t \in Token |-> IF t \in old THEN FALSE ELSE source[t]]
       /\ stdout' = [t \in Token |-> IF t \in old THEN None ELSE stdout[t]]
       /\ UNCHANGED <<status, created, claimed_at, finished_at,
                      callback_status, taskVars, received, faults, books>>

\* Retention, row TTL: DELETE.
expire_old_rows ==
    LET old == Older(RowTtl)
        Erase(f, v) == [t \in Token |-> IF t \in old THEN v ELSE f[t]]
    IN /\ old # {}
       /\ status' = Erase(status, "deleted")
       /\ created' = Erase(created, 0)
       /\ claimed_at' = Erase(claimed_at, Null)
       /\ finished_at' = Erase(finished_at, Null)
       /\ source' = Erase(source, FALSE)
       /\ stdout' = Erase(stdout, None)
       /\ callback_status' = Erase(callback_status, None)
       /\ UNCHANGED <<taskVars, received, faults, books>>

Older1(n) == IF n < MaxAge THEN n + 1 ELSE n

\* A minute passes.  claimed_at is only ever read while the row is processing
\* and is not aged after that.
Tick ==
    /\ claimed_at' = [t \in Token |-> IF status[t] = "processing"
                                      THEN Older1(claimed_at[t]) ELSE claimed_at[t]]
    /\ finished_at' = [t \in Token |-> IF finished_at[t] = Null THEN Null
                                       ELSE Older1(finished_at[t])]
    /\ age' = [k \in Task |-> IF pc[k] = "idle" THEN 0 ELSE Older1(age[k])]
    /\ UNCHANGED <<status, created, source, stdout, callback_status, pc, claim,
                   tries, result, received, faults, books>>

Next ==
    \/ \E t \in Token : insert_submission(t)
    \/ \E k \in Task, t \in Token : claim_next(k, t)
    \/ \E k \in Task : TaskStep(k)
    \/ \E w \in Worker : Crash(w)
    \/ \E k \in Task : Panic(k)
    \/ sweep_stale
    \/ scrub_payloads
    \/ expire_old_rows
    \/ Tick

Spec == Init /\ [][Next]_vars

\* Tasks run on (the sandbox enforces its wall limit, a POST has a timeout, a
\* query is answered or fails), the drain loop polls at least every 2 s, the
\* background jobs tick, time passes.  Clients and faults are not fair.
FairSpec ==
    /\ Spec
    /\ \A k \in Task : WF_vars(TaskStep(k))
    /\ WF_vars(\E k \in Task, t \in Token : claim_next(k, t))
    /\ WF_vars(sweep_stale)
    /\ WF_vars(expire_old_rows)
    /\ WF_vars(Tick)
-----------------------------------------------------------------------------
(* Properties.                                                             *)

\* Retention keys on finished_at, pollers on status: whatever order late
\* writers, the sweeper and retention act in, finished_at is set exactly on
\* the rows with a terminal status.
FinishedIffTerminal ==
    \A t \in Token : finished_at[t] # Null <=> status[t] \in Terminal

\* A row that can still be executed has its program: retention never scrubs
\* the source of a submission that is in, or may go back to, the queue.
PendingHasSource ==
    \A t \in Token : status[t] \in Pending => source[t]

\* The two clocks of a row agree with its status, for any order of late
\* writers, sweeps and retention (write_result, sweep_stale, scrub_payloads).
RowSound == FinishedIffTerminal /\ PendingHasSource

\* A claim is a lease of 60 s + 2 * wall_time_limit.  Two tasks work on the
\* same submission only when the lease of one of them has run out.
LeaseExclusive ==
    \A j, k \in Task :
        j # k /\ pc[j] # "idle" /\ pc[k] # "idle" /\ claim[j] = claim[k]
            => age[j] > SweepAfter(claim[j]) \/ age[k] > SweepAfter(claim[k])

\* A task whose lease has not run out still owns its row, or the row has been
\* answered by a task with an older claim: it is never back in the queue.
LeaseHeld ==
    \A k \in Task :
        pc[k] # "idle" /\ age[k] <= SweepAfter(claim[k])
            => \/ status[claim[k]] = "processing" /\ claimed_at[claim[k]] = age[k]
               \/ status[claim[k]] \in Terminal \cup {"deleted"}

\* The lease is what claim_next and sweep_stale promise a task between them.
LeaseSafe == LeaseExclusive /\ LeaseHeld

\* A receiver that reacts to the webhook by fetching the submission finds it
\* answered (or already erased), never queued or processing.
WebhookAfterAnswer ==
    \A t \in received : status[t] \in Terminal \cup {"deleted"}

\* callback_status = 'delivered' is never recorded for a webhook that did not
\* arrive, whichever of several executions recorded it.
DeliveredIsTrue ==
    \A t \in Token : callback_status[t] = "delivered" => t \in received

\* Webhooks come after the answer, and are recorded only if they came
\* (webhook::deliver), even when a second execution delivers again.
WebhookHonest == WebhookAfterAnswer /\ DeliveredIsTrue

\* A stored answer stands until retention removes it, although write_result and
\* write_sandbox_failure ask neither for the status nor for the claim.  Only two things
\* replace it: the other task of a submission that was swept, because a task outlived
\* its lease or was lost; and the failure a task writes when the database reported an
\* error for the result it had stored (docs/STATUS.md:56 promises that not even these do).
AnswerStands ==
    [][\A t \in Token : status[t] \in Terminal =>
         \/ status'[t] \in {status[t], "deleted"}
         \/ t \in swept
         \/ t \in unsure /\ status'[t] = "sandbox_failure"]_vars

\* What a polling client sees of the row.
polled == [t \in Token |->
            IF status[t] \in Terminal THEN "terminal"
            ELSE IF status[t] = "deleted" THEN "gone" ELSE status[t]]

Contract == INSTANCE SubmissionContract WITH Token <- Token, phase <- polled

\* The table and the workers implement the client's contract.
ImplementsContract == Contract!Spec

\* ... including its liveness: despite lost claims, crashes and failed writes,
\* every submission is answered.
AnswersEverySubmission == Contract!FairSpec

\* Retention eventually erases every finished row, although every late write
\* of a second execution restarts its clock.
FinishedIsErased ==
    \A t \in Token : status[t] \in Terminal ~> status[t] = "deleted"
=============================================================================
