------------------------------ MODULE Waiting ------------------------------
(***************************************************************************)
(* How a client learns that its submission has finished without polling:   *)
(* POST /v1/submissions?wait=true, which blocks for up to 30 s, and        *)
(* GET /v1/submissions/{token}/stream, a stream of server-sent events.     *)
(* Both listen on the PostgreSQL channel of the token, on a connection of  *)
(* the API's small listener pool, and both read the row as well.  The      *)
(* worker stores the answer first and announces it afterwards; an          *)
(* announcement reaches the sessions that listen at that moment only.      *)
(*                                                                         *)
(* Rows are seen as SubmissionContract shows them, which                   *)
(* SubmissionLifecycle is shown to implement: this module adds the order   *)
(* of the tasks' writes and announcements to it.                           *)
(***************************************************************************)
EXTENDS Integers, Sequences, FiniteSets

CONSTANTS
    Token,          \* submissions that may be created
    Task,           \* job tasks of all workers
    Client,         \* clients that open an event stream
    NoToken,        \* no submission
    ListenerMax,    \* ZEROCODE_LISTENER_POOL: connections of the listener pool
    MaxClaims,      \* bound on the claims of one submission
    MaxFaults       \* bound on crashes, lost messages and database errors

ASSUME WaitingAssumption ==
    /\ NoToken \notin Token
    /\ ListenerMax \in Nat /\ MaxClaims \in Nat /\ MaxFaults \in Nat

VARIABLES
    phase,      \* the row, as SubmissionContract defines it
    \* The workers.
    pc,         \* where a task is
    job,        \* the submission it claimed
    claims,     \* claims made so far
    \* The wait=true requests, one per submission.
    waiter,     \* where wait_for_completion is, finally the kind of reply
    listening,  \* requests that hold a LISTEN connection
    inbox,      \* events that arrived on it and have not been looked at
    why,        \* why the request stopped waiting
    \* The event streams.
    stream,     \* where the stream handler of a client is
    watch,      \* the submission it asked for
    told,       \* the events it has sent to the client
    \* What went wrong.
    lost,       \* submissions one of whose announcements did not get through
    unwritten,  \* submissions whose failure could not be stored
    faults

workerVars == <<pc, job, claims>>
waitVars == <<waiter, listening, inbox, why>>
streamVars == <<stream, watch, told>>
vars == <<phase, workerVars, waitVars, streamVars, lost, unwritten, faults>>

Row == INSTANCE SubmissionContract WITH Token <- Token, phase <- phase

Event == {"processing", "finished"}
Waiting == {"subscribe", "guard", "loop", "fetch", "final"}
Replied == {"done", "pending", "ack", "error", "left"}

TypeOK ==
    /\ Row!TypeOK
    /\ pc \in [Task -> {"idle", "claimed", "running", "failing", "announce"}]
    /\ job \in [Task -> Token \cup {NoToken}]
    /\ \A k \in Task : pc[k] # "idle" => job[k] \in Token
    /\ claims \in [Token -> 0 .. MaxClaims]
    /\ waiter \in [Token -> {"none"} \cup Waiting \cup Replied]
    /\ listening \subseteq {t \in Token : waiter[t] \in Waiting \ {"subscribe", "final"}}
    /\ inbox \in [Token -> Seq(Event)]
    /\ why \in [Token -> {"none", "finished", "deadline", "broken"}]
    /\ stream \in [Client -> {"idle", "subscribe", "open", "closed"}]
    /\ watch \in [Client -> Token \cup {NoToken}]
    /\ told \in [Client -> SUBSET Event]
    /\ lost \subseteq Token /\ unwritten \subseteq Token
    /\ faults \in 0 .. MaxFaults

Init ==
    /\ Row!Init
    /\ pc = [k \in Task |-> "idle"]
    /\ job = [k \in Task |-> NoToken]
    /\ claims = [t \in Token |-> 0]
    /\ waiter = [t \in Token |-> "none"]
    /\ listening = {}
    /\ inbox = [t \in Token |-> <<>>]
    /\ why = [t \in Token |-> "none"]
    /\ stream = [c \in Client |-> "idle"]
    /\ watch = [c \in Client |-> NoToken]
    /\ told = [c \in Client |-> {}]
    /\ lost = {} /\ unwritten = {}
    /\ faults = 0

Fault == faults < MaxFaults /\ faults' = faults + 1

-----------------------------------------------------------------------------
(* The workers, and the channel of a submission.                           *)

Open(t) == {c \in Client : stream[c] = "open" /\ watch[c] = t}

\* publish_event: the event reaches everyone who listens; a session whose
\* connection is being re-established misses it, and an error of the NOTIFY
\* itself, which everyone misses, is ignored (`let _ =`).
publish_event(t, e) ==
    \E missWait \in SUBSET (listening \cap {t}), missStream \in SUBSET Open(t) :
        LET miss == missWait # {} \/ missStream # {}
        IN /\ inbox' = [inbox EXCEPT ![t] =
                          IF t \in listening \ missWait THEN Append(@, e) ELSE @]
           /\ told' = [c \in Client |-> IF c \in Open(t) \ missStream
                                        THEN told[c] \cup {e} ELSE told[c]]
           /\ IF miss THEN Fault /\ lost' = lost \cup {t}
                      ELSE UNCHANGED <<faults, lost>>

\* A task claims the row.
Claim(k, t) ==
    /\ pc[k] = "idle" /\ claims[t] < MaxClaims
    /\ Row!Start(t)
    /\ pc' = [pc EXCEPT ![k] = "claimed"]
    /\ job' = [job EXCEPT ![k] = t]
    /\ claims' = [claims EXCEPT ![t] = @ + 1]
    /\ UNCHANGED <<waitVars, streamVars, lost, unwritten, faults>>

\* `process` begins by announcing that the submission is being processed.
Begin(k) ==
    /\ pc[k] = "claimed"
    /\ publish_event(job[k], "processing")
    /\ pc' = [pc EXCEPT ![k] = "running"]
    /\ UNCHANGED <<phase, job, claims, waiter, listening, why, stream, watch,
                   unwritten>>

\* The row gets a terminal status unless retention has deleted it.
Store(t) ==
    phase' = [phase EXCEPT ![t] = IF @ = "gone" THEN @ ELSE "terminal"]

\* Mutant: an error of write_result does not keep Finished from being sent.
WriteErrorIgnored(k) ==
    /\ pc[k] = "running"
    /\ Fault /\ UNCHANGED phase
    /\ pc' = [pc EXCEPT ![k] = "announce"]
    /\ UNCHANGED <<job, claims, waitVars, streamVars, lost, unwritten>>

\* `process` ends: the result is stored, or some step of it failed (which the
\* database may report for a write that took effect).
write_result(k) ==
    /\ pc[k] = "running"
    /\ \/ /\ Store(job[k]) /\ UNCHANGED faults
          /\ pc' = [pc EXCEPT ![k] = "announce"]
       \/ /\ UNCHANGED <<phase, faults>>
          /\ pc' = [pc EXCEPT ![k] = "failing"]
       \/ /\ Store(job[k]) /\ Fault
          /\ pc' = [pc EXCEPT ![k] = "failing"]
    /\ UNCHANGED <<job, claims, waitVars, streamVars, lost, unwritten>>

\* The failure path: Finished is announced even when the write failed.
write_sandbox_failure(k) ==
    /\ pc[k] = "failing"
    /\ \/ Store(job[k]) /\ UNCHANGED <<unwritten, faults>>
       \/ Fault /\ unwritten' = unwritten \cup {job[k]} /\ UNCHANGED phase
    /\ pc' = [pc EXCEPT ![k] = "announce"]
    /\ UNCHANGED <<job, claims, waitVars, streamVars, lost>>

Announce(k) ==
    /\ pc[k] = "announce"
    /\ publish_event(job[k], "finished")
    /\ pc' = [pc EXCEPT ![k] = "idle"]
    /\ job' = [job EXCEPT ![k] = NoToken]
    /\ UNCHANGED <<phase, claims, waiter, listening, why, stream, watch,
                   unwritten>>

\* The task dies with its worker, or the worker exits without waiting for it.
Crash(k) ==
    /\ pc[k] # "idle"
    /\ Fault
    /\ lost' = lost \cup {job[k]}
    /\ pc' = [pc EXCEPT ![k] = "idle"]
    /\ job' = [job EXCEPT ![k] = NoToken]
    /\ UNCHANGED <<phase, claims, waitVars, streamVars, unwritten>>

TaskStep(k) ==
    Begin(k) \/ write_result(k) \/ write_sandbox_failure(k) \/ Announce(k)

\* The sweeper, and retention.
Sweep(t) ==
    /\ Row!Requeue({t})
    /\ UNCHANGED <<workerVars, waitVars, streamVars, lost, unwritten, faults>>

Expire(t) ==
    /\ Row!Forget({t})
    /\ UNCHANGED <<workerVars, waitVars, streamVars, lost, unwritten, faults>>

-----------------------------------------------------------------------------
(* POST /v1/submissions, with and without wait=true.                       *)

\* The INSERT and the NOTIFY of the create handler.
create(t) ==
    /\ waiter[t] = "none"
    /\ Row!Submit(t)
    /\ \E next \in {"none", "subscribe"} : waiter' = [waiter EXCEPT ![t] = next]
    /\ UNCHANGED <<workerVars, listening, inbox, why, streamVars, lost,
                   unwritten, faults>>

\* Mutant: the connection is kept.
ReplyKeepsListener(t, s) ==
    /\ waiter' = [waiter EXCEPT ![t] = s]
    /\ UNCHANGED listening
    /\ inbox' = [inbox EXCEPT ![t] = <<>>]

\* The reply goes out; the connection returns to the pool.
Reply(t, s) ==
    /\ waiter' = [waiter EXCEPT ![t] = s]
    /\ listening' = listening \ {t}
    /\ inbox' = [inbox EXCEPT ![t] = <<>>]

\* The reply made of what fetch_submission returns: the submission, finished
\* or not, or the 201 with the token when there is no row.
View(t) ==
    IF phase[t] = "terminal" THEN "done"
    ELSE IF phase[t] = "gone" THEN "ack" ELSE "pending"

\* A database error ends the request (`?`).
FetchError(t) == Fault /\ Reply(t, "error") /\ UNCHANGED why

GoTo(t, next) ==
    waiter' = [waiter EXCEPT ![t] = next] /\ UNCHANGED <<listening, inbox, why>>

Connected == Cardinality(listening) + Cardinality({c \in Client : stream[c] = "open"})

\* Mutant: no look at the row between LISTEN and the first wait.
SubscribeWithoutGuard(t) ==
    /\ waiter[t] = "subscribe"
    /\ waiter' = [waiter EXCEPT ![t] = "loop"]
    /\ \/ Connected < ListenerMax /\ listening' = listening \cup {t} /\ UNCHANGED faults
       \/ Connected >= ListenerMax /\ UNCHANGED <<listening, faults>>
       \/ Fault /\ UNCHANGED listening
    /\ UNCHANGED <<phase, workerVars, inbox, why, streamVars, lost, unwritten>>

\* LISTEN on a connection of the listener pool; when the pool is exhausted
\* for 2 s, or on an error, the request will poll instead.
subscribe(t) ==
    /\ waiter[t] = "subscribe"
    /\ waiter' = [waiter EXCEPT ![t] = "guard"]
    /\ \/ Connected < ListenerMax /\ listening' = listening \cup {t} /\ UNCHANGED faults
       \/ Connected >= ListenerMax /\ UNCHANGED <<listening, faults>>
       \/ Fault /\ UNCHANGED listening
    /\ UNCHANGED <<phase, workerVars, inbox, why, streamVars, lost, unwritten>>

\* The look at the row before waiting, and each look of the polling loop.
Look(t) ==
    /\ waiter[t] = "guard" \/ (waiter[t] = "loop" /\ t \notin listening)
    /\ \/ /\ IF phase[t] = "terminal" THEN Reply(t, "done") /\ UNCHANGED why
                                      ELSE GoTo(t, "loop")
          /\ UNCHANGED faults
       \/ FetchError(t)
    /\ UNCHANGED <<phase, workerVars, streamVars, lost, unwritten>>

\* Mutant: any event ends the wait.
NextEventAny(t) ==
    /\ waiter[t] = "loop" /\ inbox[t] # <<>>
    /\ inbox' = [inbox EXCEPT ![t] = Tail(@)]
    /\ waiter' = [waiter EXCEPT ![t] = "fetch"]
    /\ why' = [why EXCEPT ![t] = "finished"]
    /\ UNCHANGED <<phase, workerVars, listening, streamVars, lost, unwritten, faults>>

\* stream.next(): only Finished is of interest.
NextEvent(t) ==
    /\ waiter[t] = "loop" /\ inbox[t] # <<>>
    /\ inbox' = [inbox EXCEPT ![t] = Tail(@)]
    /\ IF Head(inbox[t]) = "finished"
       THEN /\ waiter' = [waiter EXCEPT ![t] = "fetch"]
            /\ why' = [why EXCEPT ![t] = "finished"]
       ELSE UNCHANGED <<waiter, why>>
    /\ UNCHANGED <<phase, workerVars, listening, streamVars, lost, unwritten, faults>>

\* After Finished the row is returned whatever its status is; only when there
\* is none does the wait go on.
FetchFinished(t) ==
    /\ waiter[t] = "fetch"
    /\ \/ /\ IF phase[t] = "gone" THEN GoTo(t, "loop")
                                  ELSE Reply(t, View(t)) /\ UNCHANGED why
          /\ UNCHANGED faults
       \/ FetchError(t)
    /\ UNCHANGED <<phase, workerVars, streamVars, lost, unwritten>>

\* The loop is left, and with it the connection.
Leave(t, reason) ==
    /\ waiter[t] = "loop"
    /\ Reply(t, "final")
    /\ why' = [why EXCEPT ![t] = reason]
    /\ UNCHANGED <<phase, workerVars, streamVars, lost, unwritten>>

\* Mutant: the deadline is only looked at when an event has arrived.
DeadlineAfterEvent(t) == inbox[t] # <<>> /\ Leave(t, "deadline") /\ UNCHANGED faults

\* WAIT_TIMEOUT has passed.
Deadline(t) == Leave(t, "deadline") /\ UNCHANGED faults

\* The listener's connection is lost for good.
ListenerError(t) == t \in listening /\ Leave(t, "broken") /\ Fault

\* The last look: the row in whatever state it is.
FinalFetch(t) ==
    /\ waiter[t] = "final"
    /\ \/ Reply(t, View(t)) /\ UNCHANGED <<why, faults>>
       \/ FetchError(t)
    /\ UNCHANGED <<phase, workerVars, streamVars, lost, unwritten>>

\* The client closes the connection and the handler is dropped.
Disconnect(t) ==
    /\ waiter[t] \in Waiting
    /\ Reply(t, "left")
    /\ UNCHANGED <<phase, workerVars, why, streamVars, lost, unwritten, faults>>

WaitStep(t) ==
    subscribe(t) \/ Look(t) \/ NextEvent(t) \/ FetchFinished(t) \/ FinalFetch(t)

-----------------------------------------------------------------------------
(* GET /v1/submissions/{token}/stream.                                     *)

StreamTo(c, next) ==
    /\ stream' = [stream EXCEPT ![c] = next]
    /\ UNCHANGED <<phase, workerVars, waitVars, lost, unwritten>>

\* The row is read first: unknown is 404, finished is a stream of one event.
StreamFetch(c, t) ==
    /\ stream[c] = "idle"
    /\ watch' = [watch EXCEPT ![c] = t]
    /\ \/ /\ phase[t] \in {"absent", "gone"}
          /\ StreamTo(c, "closed") /\ UNCHANGED told
       \/ /\ phase[t] = "terminal"
          /\ StreamTo(c, "closed") /\ told' = [told EXCEPT ![c] = {"finished"}]
       \/ /\ phase[t] \in {"queued", "processing"}
          /\ StreamTo(c, "subscribe") /\ UNCHANGED told
    /\ UNCHANGED faults

\* Only then is the channel listened to; a saturated pool is a 500.
StreamSubscribe(c) ==
    /\ stream[c] = "subscribe"
    /\ \/ Connected < ListenerMax /\ StreamTo(c, "open") /\ UNCHANGED faults
       \/ Connected >= ListenerMax /\ StreamTo(c, "closed") /\ UNCHANGED faults
       \/ Fault /\ StreamTo(c, "closed")
    /\ UNCHANGED <<watch, told>>

\* The stream ends when the client leaves or the listener fails for good; no
\* event ends it.
StreamClose(c) ==
    /\ stream[c] \in {"subscribe", "open"}
    /\ StreamTo(c, "closed")
    /\ UNCHANGED <<watch, told, faults>>

-----------------------------------------------------------------------------

Next ==
    \/ \E t \in Token : create(t) \/ Sweep(t) \/ Expire(t)
    \/ \E k \in Task, t \in Token : Claim(k, t)
    \/ \E k \in Task : TaskStep(k) \/ Crash(k)
    \/ \E t \in Token : WaitStep(t) \/ Deadline(t) \/ ListenerError(t) \/ Disconnect(t)
    \/ \E c \in Client, t \in Token : StreamFetch(c, t)
    \/ \E c \in Client : StreamSubscribe(c) \/ StreamClose(c)

Spec == Init /\ [][Next]_vars

\* Tasks and handlers run on, timers fire; clients and faults are not fair.
FairSpec ==
    /\ Spec
    /\ \A k \in Task : WF_vars(TaskStep(k))
    /\ \A t \in Token : WF_vars(WaitStep(t)) /\ WF_vars(Deadline(t))
    /\ \A c \in Client : WF_vars(StreamSubscribe(c))

-----------------------------------------------------------------------------
(* Properties.                                                             *)

\* Announcing that t has finished is the truth, or its failure was not stored.
Settled(t) == phase[t] \in {"terminal", "gone"} \/ t \in unwritten

\* Some task will yet send Finished for t.
Announcing(t) == \E k \in Task : pc[k] \in {"failing", "announce"} /\ job[k] = t

\* wait_for_completion's race guard: a request that sleeps on its listener
\* although the answer is stored has the event in its inbox, or a task is
\* about to send it; otherwise an announcement was lost on the way.
NoLostFinished ==
    \A t \in listening :
        waiter[t] = "loop" /\ phase[t] = "terminal"
            => \/ \E i \in 1 .. Len(inbox[t]) : inbox[t][i] = "finished"
               \/ Announcing(t) \/ t \in lost

\* A wait=true reply that shows an unfinished submission is due to the 30 s
\* deadline or to a broken connection: "still running", as docs/STATUS.md
\* has it.  The exception is a failure that could not be stored and was
\* announced all the same.
PendingReplyIsTimeout ==
    \A t \in Token :
        waiter[t] = "pending" => why[t] \in {"deadline", "broken"} \/ t \in unwritten

\* No stream tells its client that a submission finished before the row says
\* so, whichever of several executions announced it; again but for a failure
\* that could not be stored.
AnnouncedIsStored ==
    \A c \in Client :
        "finished" \in told[c] => Settled(watch[c])

\* Every wait=true request is answered, whatever is lost and however busy the
\* listener pool is.
EveryWaitReplies ==
    \A t \in Token : waiter[t] = "subscribe" ~> waiter[t] \in Replied

\* docs/ARCHITECTURE.md: "Any SSE subscriber or ?wait=true long-poller
\* receives the event within milliseconds."
StreamHearsFinished ==
    \A c \in Client :
        stream[c] = "open" /\ phase[watch[c]] = "terminal"
            ~> "finished" \in told[c] \/ stream[c] = "closed"
=============================================================================
