------------------------------- MODULE Runner -------------------------------
(***************************************************************************)
(* The main loop of one worker process (runner.rs): drain the queue while  *)
(* permits last, then sleep until a NOTIFY, a finished task or the 2 s     *)
(* poll wakes it.  Two semaphores admit work: `parallelism` bounds the     *)
(* number of tasks, `memory` the sum of their memory caps.  The module is  *)
(* about admission and wake-ups; what a task does to its row is the        *)
(* business of SubmissionLifecycle.                                        *)
(***************************************************************************)
EXTENDS Integers, Sequences, FiniteSets

CONSTANTS
    Job,            \* submissions that reach the queue
    MemoryMb,       \* MemoryMb[j]: the job's memory_mb limit
    MaxParallel,    \* permits of the parallelism semaphore
    MemBudget,      \* permits of the memory semaphore
    MaxErrors       \* bound on failed claims and panicking tasks

ASSUME RunnerAssumption ==
    /\ IsFiniteSet(Job)
    /\ MemoryMb \in [Job -> Nat]
    /\ MaxParallel \in Nat \ {0}
    /\ MemBudget \in Nat \ {0}
    /\ MaxErrors \in Nat

VARIABLES
    st,         \* st[j]: where the job is
    loop,       \* where Runner::run is
    why,        \* why drain() returned, until it is entered again
    wake,       \* where wait_for_wake() is, while the loop is in select!
    permits,    \* available permits of `parallelism`
    memory,     \* available permits of `memory`
    waiters,    \* tasks queued on `memory`; tokio's semaphore is FIFO
    slot_free,  \* the permit stored in the Notify `slot_free`
    shutdown,   \* the loop's Notified future has been woken by notify_waiters
    signalled,  \* main() has received SIGTERM or Ctrl-C
    errors,     \* failed claims and panics so far
    panicked    \* some task panicked

vars == <<st, loop, why, wake, permits, memory, waiters, slot_free,
          shutdown, signalled, errors, panicked>>

\* A task is "spawned" until its first poll, "waiting" for memory, "running"
\* inside `process`, then returns memory ("memfree") and its permit ("freed")
\* and notifies.
Holding == {"spawned", "waiting", "running", "memfree"}
St == {"new", "queued", "elsewhere", "freed", "done"} \cup Holding

TypeOK ==
    /\ st \in [Job -> St]
    /\ loop \in {"try", "claim", "returned", "select", "stopped", "exited"}
    /\ why \in {"none", "busy", "empty", "error"}
    /\ wake \in {"connect", "listening", "sleep", "event"}
    /\ permits \in 0 .. MaxParallel
    /\ memory \in Int
    /\ waiters \in Seq(Job)
    /\ slot_free \in BOOLEAN /\ shutdown \in BOOLEAN
    /\ signalled \in BOOLEAN /\ panicked \in BOOLEAN
    /\ errors \in 0 .. MaxErrors

Init ==
    /\ st = [j \in Job |-> "new"]
    /\ loop = "try" /\ why = "none" /\ wake = "connect"
    /\ permits = MaxParallel
    /\ memory = MemBudget
    /\ waiters = <<>>
    /\ slot_free = FALSE /\ shutdown = FALSE
    /\ signalled = FALSE /\ panicked = FALSE
    /\ errors = 0

-----------------------------------------------------------------------------
(* The API and the other workers.                                          *)

\* insert_submission, and (sweep_stale) a row coming back to the queue.
Insert(j) ==
    /\ st[j] = "new"
    /\ st' = [st EXCEPT ![j] = "queued"]
    /\ UNCHANGED <<loop, why, wake, permits, memory, waiters, slot_free,
                   shutdown, signalled, errors, panicked>>

\* JobNotifier::notify, some time after an INSERT by any API process: it
\* reaches a session that LISTENs at this moment and is otherwise lost.
notify ==
    /\ loop = "select" /\ wake = "listening"
    /\ wake' = "event"
    /\ UNCHANGED <<st, loop, why, permits, memory, waiters, slot_free,
                   shutdown, signalled, errors, panicked>>

\* Another worker claims the job.
Steal(j) ==
    /\ st[j] = "queued"
    /\ st' = [st EXCEPT ![j] = "elsewhere"]
    /\ UNCHANGED <<loop, why, wake, permits, memory, waiters,
                   slot_free, shutdown, signalled, errors, panicked>>

-----------------------------------------------------------------------------
(* The loop.                                                               *)

\* try_acquire_owned: take a permit, or leave drain() when all are in use.
try_acquire ==
    /\ loop = "try"
    /\ \/ /\ permits > 0 /\ permits' = permits - 1
          /\ loop' = "claim"
          /\ UNCHANGED why
       \/ /\ permits = 0
          /\ loop' = "returned" /\ why' = "busy"
          /\ UNCHANGED permits
    /\ UNCHANGED <<st, wake, memory, waiters, slot_free, shutdown, signalled,
                   errors, panicked>>

\* claim_next: a job is claimed and its task spawned with the permit; or there
\* is none, or an error, and the permit is dropped on the way out of drain().
claim(result) ==
    /\ loop = "claim"
    /\ \/ /\ result = "job"
          /\ \E j \in Job : st[j] = "queued" /\ st' = [st EXCEPT ![j] = "spawned"]
          /\ loop' = "try"
          /\ UNCHANGED <<why, permits, errors>>
       \/ /\ result = "none"
          /\ \A j \in Job : st[j] # "queued"
          /\ permits' = permits + 1
          /\ loop' = "returned" /\ why' = "empty"
          /\ UNCHANGED <<st, errors>>
       \/ /\ result = "error"
          /\ errors < MaxErrors /\ errors' = errors + 1
          /\ permits' = permits + 1
          /\ loop' = "returned" /\ why' = "error"
          /\ UNCHANGED st
    /\ UNCHANGED <<wake, memory, waiters, slot_free, shutdown, signalled, panicked>>

\* `select!` creates its three futures.  Tasks on other threads, and a signal,
\* may come between the end of drain() and this.
EnterSelect ==
    /\ loop = "returned"
    /\ loop' = "select"
    /\ wake' = "connect" /\ shutdown' = FALSE
    /\ UNCHANGED <<st, why, permits, memory, waiters, slot_free, signalled,
                   errors, panicked>>

\* A branch of select! completed; the other futures, woken or not, are dropped.
LeaveSelect ==
    /\ loop' = "try" /\ shutdown' = FALSE
    /\ why' = "none" /\ wake' = "connect"
    /\ UNCHANGED <<st, permits, memory, waiters, signalled,
                   errors, panicked>>

SlotWake ==
    /\ loop = "select" /\ slot_free
    /\ slot_free' = FALSE
    /\ LeaveSelect

\* wait_for_wake: a fresh LISTEN each time; if it cannot be established the
\* future only sleeps ...
Listen ==
    /\ loop = "select" /\ wake = "connect"
    /\ wake' \in {"listening", "sleep"}
    /\ UNCHANGED <<st, loop, why, permits, memory, waiters, slot_free,
                   shutdown, signalled, errors, panicked>>

\* ... and so it does when the stream yields an error.
ListenerError ==
    /\ loop = "select" /\ wake = "listening"
    /\ wake' = "sleep"
    /\ UNCHANGED <<st, loop, why, permits, memory, waiters, slot_free,
                   shutdown, signalled, errors, panicked>>

JobWake ==
    /\ loop = "select" /\ wake = "event"
    /\ LeaveSelect /\ UNCHANGED slot_free

\* Mutant: with an active listener there is no periodic poll.
PollOnlyWithoutListener ==
    /\ loop = "select" /\ wake = "sleep"
    /\ LeaveSelect /\ UNCHANGED slot_free

\* The 2 s timer, of the poll or of the error path.
PollWake ==
    /\ loop = "select" /\ wake \in {"listening", "sleep"}
    /\ LeaveSelect /\ UNCHANGED slot_free

Stop ==
    /\ loop = "select" /\ shutdown
    /\ loop' = "stopped"
    /\ UNCHANGED <<st, why, wake, permits, memory, waiters, slot_free,
                   shutdown, signalled, errors, panicked>>

\* main() has joined the background jobs and returns: the runtime is dropped
\* with the tasks that are still on it.
Exit ==
    /\ loop = "stopped"
    /\ loop' = "exited"
    /\ UNCHANGED <<st, why, wake, permits, memory, waiters, slot_free,
                   shutdown, signalled, errors, panicked>>

\* The first signal: notify_waiters wakes the Notified future that exists now; it does
\* not store a permit for a later one.
Sigterm ==
    /\ loop # "exited"
    /\ ~signalled /\ signalled' = TRUE
    /\ shutdown' = (loop = "select")
    /\ UNCHANGED <<st, loop, why, wake, permits, memory, waiters,
                   slot_free, errors, panicked>>

-----------------------------------------------------------------------------
(* The tasks.                                                              *)

\* Mutant: no upper clamp.
WantUnclamped(j) == IF MemoryMb[j] < 1 THEN 1 ELSE MemoryMb[j]

\* Clamped so that one oversized job cannot wait for ever.
Want(j) == IF MemoryMb[j] < 1 THEN 1
           ELSE IF MemoryMb[j] > MemBudget THEN MemBudget ELSE MemoryMb[j]

\* acquire_many_owned: the task joins the semaphore's queue ...
Enqueue(j) ==
    /\ st[j] = "spawned"
    /\ st' = [st EXCEPT ![j] = "waiting"]
    /\ waiters' = Append(waiters, j)
    /\ UNCHANGED <<loop, why, wake, permits, memory, slot_free,
                   shutdown, signalled, errors, panicked>>

\* ... and the one at its head proceeds once enough is free.
Admit(j) ==
    /\ st[j] = "waiting"
    /\ waiters # <<>> /\ Head(waiters) = j
    /\ Want(j) <= memory
    /\ memory' = memory - Want(j)
    /\ waiters' = Tail(waiters)
    /\ st' = [st EXCEPT ![j] = "running"]
    /\ UNCHANGED <<loop, why, wake, permits, slot_free, shutdown,
                   signalled, errors, panicked>>

\* `process` (and the failure write) returned: drop(_mem).
DropMem(j) ==
    /\ st[j] = "running"
    /\ st' = [st EXCEPT ![j] = "memfree"]
    /\ memory' = memory + Want(j)
    /\ UNCHANGED <<loop, why, wake, permits, waiters, slot_free,
                   shutdown, signalled, errors, panicked>>

\* drop(permit).
DropPermit(j) ==
    /\ st[j] = "memfree"
    /\ st' = [st EXCEPT ![j] = "freed"]
    /\ permits' = permits + 1
    /\ UNCHANGED <<loop, why, wake, memory, waiters, slot_free,
                   shutdown, signalled, errors, panicked>>

\* Mutant: notify_waiters, which stores no permit.
NotifyWaiters(j) ==
    /\ st[j] = "freed"
    /\ st' = [st EXCEPT ![j] = "done"]
    /\ slot_free' = (slot_free \/ loop = "select")
    /\ UNCHANGED <<loop, why, wake, permits, memory, waiters,
                   shutdown, signalled, errors, panicked>>

\* slot_free.notify_one(): stored when nobody waits.
NotifyOne(j) ==
    /\ st[j] = "freed"
    /\ st' = [st EXCEPT ![j] = "done"]
    /\ slot_free' = TRUE
    /\ UNCHANGED <<loop, why, wake, permits, memory, waiters,
                   shutdown, signalled, errors, panicked>>

\* Mutant: the permit was forgotten and is returned by hand at the end only.
PanicLeaksPermit(j) ==
    /\ st[j] = "running" /\ loop # "exited"
    /\ errors < MaxErrors /\ errors' = errors + 1
    /\ st' = [st EXCEPT ![j] = "done"]
    /\ memory' = memory + Want(j)
    /\ panicked' = TRUE
    /\ UNCHANGED <<loop, why, wake, permits, waiters, slot_free, shutdown,
                   signalled>>

\* The task panics inside `process`: unwinding returns both permits, but the
\* notification is skipped.
Panic(j) ==
    /\ st[j] = "running" /\ loop # "exited"
    /\ errors < MaxErrors /\ errors' = errors + 1
    /\ st' = [st EXCEPT ![j] = "done"]
    /\ memory' = memory + Want(j)
    /\ permits' = permits + 1
    /\ panicked' = TRUE
    /\ UNCHANGED <<loop, why, wake, waiters, slot_free, shutdown,
                   signalled>>

TaskStep(j) ==
    /\ loop # "exited"
    /\ Enqueue(j) \/ Admit(j) \/ DropMem(j) \/ DropPermit(j) \/ NotifyOne(j)

Drain == try_acquire \/ (\E r \in {"job", "none", "error"} : claim(r)) \/ EnterSelect

Next ==
    \/ \E j \in Job : Insert(j) \/ Steal(j)
    \/ notify
    \/ Drain
    \/ SlotWake \/ Listen \/ ListenerError \/ JobWake \/ PollWake \/ Stop \/ Exit
    \/ Sigterm
    \/ \E j \in Job : TaskStep(j) \/ Panic(j)
    \/ loop = "exited" /\ UNCHANGED vars

Spec == Init /\ [][Next]_vars

\* The runtime polls what is ready and timers fire; sandboxes end within their
\* wall limits.  A signal that woke the select is acted upon unless another
\* branch wins.  Clients, other workers and faults are not fair.
FairSpec ==
    /\ Spec
    /\ WF_vars(Drain) /\ WF_vars(SlotWake) /\ WF_vars(Listen)
    /\ WF_vars(JobWake) /\ WF_vars(PollWake) /\ WF_vars(Stop) /\ WF_vars(Exit)
    /\ \A j \in Job : WF_vars(TaskStep(j))

-----------------------------------------------------------------------------
(* Properties.                                                             *)

Holders == {j \in Job : st[j] \in Holding}
Reserved == {j \in Job : st[j] = "running"}

\* No permit is lost or invented on any path: claim found nothing, claim
\* failed, task finished, task panicked.  Every permit is available, held by a
\* task, or in the hands of the drain loop.
PermitsConserved ==
    permits + Cardinality(Holders) + (IF loop = "claim" THEN 1 ELSE 0) = MaxParallel

\* The megabytes that the running sandboxes hold, each a unit of the semaphore.
Megabytes(j) == {j} \X (1 .. Want(j))
ReservedMb == UNION {Megabytes(j) : j \in Reserved}

\* The memory caps of the running sandboxes never add up to more than the
\* budget, and what they reserved is returned exactly.
MemoryWithinBudget ==
    /\ memory >= 0
    /\ Cardinality(ReservedMb) + memory = MemBudget

\* A drain that stopped because every permit was taken is always resumed
\* without waiting for the poll: some task still has to notify, or its
\* notification is stored.  (A panicking task skips it: runner.rs says so.)
NoLostSlotWake ==
    loop \in {"returned", "select"} /\ why = "busy" /\ ~panicked
        => \/ slot_free
           \/ \E j \in Job : st[j] \in Holding \cup {"freed"}

\* A task waits for memory only behind a sandbox that will return some: the
\* semaphore cannot be stuck with nothing running.
NoMemoryStarvation ==
    waiters # <<>> /\ Reserved = {} => Want(Head(waiters)) <= memory

\* Memory is accounted for exactly, and its queue cannot be stuck (the memory
\* semaphore of runner.rs).
MemorySound == MemoryWithinBudget /\ NoMemoryStarvation

\* Lost NOTIFYs, lost listeners, failed claims, a full house: until it is told
\* to stop, the worker gets every queued job to its end or loses it to another.
EveryJobEnds ==
    \A j \in Job : st[j] = "queued" ~>
        st[j] \in {"done", "elsewhere"} \/ signalled

\* main.rs on SIGTERM: "shutdown signal received, draining", then it awaits
\* the runner before "zerocode-worker stopped cleanly".
StopsOnSigterm == signalled ~> loop = "exited"
=============================================================================
