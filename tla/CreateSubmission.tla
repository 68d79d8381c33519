-------------------------- MODULE CreateSubmission --------------------------
(***************************************************************************)
(* POST /v1/submissions on one API process: many requests run the create   *)
(* handler concurrently over the submissions table, the in-process result  *)
(* cache and the sampled queue depth.  A step is what a handler does       *)
(* between two waits for the database.  A submission is named after the    *)
(* request that inserted it.  What a waiting handler does is the business  *)
(* of Waiting; here it ends with the row as it is at some moment.          *)
(***************************************************************************)
EXTENDS Integers, FiniteSets

CONSTANTS
    Request,    \* requests that may be made
    Form,       \* their bodies and headers: see FormAssumption
    Body,       \* language, source code and standard input (none and empty alike)
    Limits,     \* effective limits, after the language's defaults
    Key,        \* values of the Idempotency-Key header
    NoKey,      \* the header is missing
    Verdict,    \* statuses that judge the submitted code (is_verdict)
    Fault,      \* terminal statuses that do not
    None,
    ShedLimit,  \* ZEROCODE_SUBMIT_QUEUE_LIMIT; 0 disables shedding
    MaxErrors,  \* bound on database errors
    MaxOthers   \* bound on queued rows of batches and of other API processes

ASSUME FormAssumption ==
    /\ Form \subseteq [key : Key \cup {NoKey}, body : Body, limits : Limits,
                       valid : BOOLEAN, callbackOk : BOOLEAN, wait : BOOLEAN]
    /\ NoKey \notin Key
    /\ None \notin Verdict \cup Fault \cup Form \cup Request
    /\ Verdict \cap Fault = {}
    /\ {"none", "queued", "processing", "deleted"} \cap (Verdict \cup Fault) = {}

ASSUME CreateBoundAssumption ==
    IsFiniteSet(Request) /\ {ShedLimit, MaxErrors, MaxOthers} \subseteq Nat

VARIABLES
    form,       \* form[r]: what the client sent
    pc,         \* where the handler is
    reply,      \* its answer: kind, token and outcome
    row,        \* row[r]: status of the submission that r inserted
    recent,     \* rows created in the last 24 hours
    cache,      \* the result cache
    depth,      \* the queue depth as last sampled
    errors,
    produced,   \* history: outcomes of the executions of a body under limits
    before      \* history: rows that existed when the request arrived

vars == <<form, pc, reply, row, recent, cache, depth, errors, produced, before>>

Outcome == Verdict \cup Fault
Work == Body \X Limits
Kind == {"invalid", "cached", "hit", "conflict", "shed", "error", "ack", "done",
         "pending", "left"}

TypeOK ==
    /\ form \in [Request -> Form \cup {None}]
    /\ pc \in [Request -> {"new", "find", "insert", "notify", "wait", "memo", "end"}]
    /\ \A r \in Request : pc[r] # "new" => form[r] \in Form
    /\ \A r \in Request : row[r] # "none" => form[r] \in Form
    /\ reply \in [Request -> [kind : Kind \cup {"none"}, token : Request \cup {None},
                              outcome : Outcome \cup {None}]]
    /\ row \in [Request -> {"none", "queued", "processing", "deleted"} \cup Outcome]
    /\ recent \subseteq Request
    /\ cache \in [Work -> Verdict \cup {None}]
    /\ depth \in Nat
    /\ errors \in 0 .. MaxErrors
    /\ produced \in [Work -> SUBSET Outcome]
    /\ before \in [Request -> SUBSET Request]

Answer(kind, token, outcome) == [kind |-> kind, token |-> token, outcome |-> outcome]

Init ==
    /\ form = [r \in Request |-> None]
    /\ pc = [r \in Request |-> "new"]
    /\ reply = [r \in Request |-> Answer("none", None, None)]
    /\ row = [r \in Request |-> "none"]
    /\ recent = {}
    /\ cache = [w \in Work |-> None]
    /\ depth = 0
    /\ errors = 0
    /\ produced = [w \in Work |-> {}]
    /\ before = [r \in Request |-> {}]

Error == errors < MaxErrors /\ errors' = errors + 1

-----------------------------------------------------------------------------
(* The handler.                                                            *)

\* Mutant: the limits are left out of the key.
CacheKeyNoLimits(f) == <<f.body, CHOOSE l \in Limits : TRUE>>

\* CacheKey::result hashes language, source, stdin and limits.
CacheKey(f) == <<f.body, f.limits>>

GoTo(r, next) == pc' = [pc EXCEPT ![r] = next] /\ UNCHANGED reply

Return(r, answer) ==
    /\ pc' = [pc EXCEPT ![r] = "end"]
    /\ reply' = [reply EXCEPT ![r] = answer]

Shedding == ShedLimit > 0 /\ depth > ShedLimit

\* Load shedding, the last test before the INSERT.
Admit(r) ==
    IF Shedding THEN Return(r, Answer("shed", None, None)) ELSE GoTo(r, "insert")

\* Mutant: load is shed before the idempotency key is looked up.
ArriveShedsFirst(r, f) ==
    /\ pc[r] = "new"
    /\ form' = [form EXCEPT ![r] = f]
    /\ before' = [before EXCEPT ![r] = {q \in Request : row[q] # "none"}]
    /\ IF Shedding THEN Return(r, Answer("shed", None, None))
       ELSE GoTo(r, IF f.key = NoKey THEN "insert" ELSE "find")
    /\ UNCHANGED <<row, recent, cache, depth, errors, produced>>

\* From the arrival to the first database call: validation, then the result
\* cache, then the callback's address, and without a key the shedding test.
Arrive(r, f) ==
    /\ pc[r] = "new"
    /\ form' = [form EXCEPT ![r] = f]
    /\ before' = [before EXCEPT ![r] = {q \in Request : row[q] # "none"}]
    /\ LET cached == cache[CacheKey(f)]
       IN \/ /\ ~f.valid
             /\ Return(r, Answer("invalid", None, None))
          \/ /\ f.valid /\ cached # None
             /\ Return(r, Answer("cached", None, cached))
          \/ /\ f.valid /\ cached = None /\ ~f.callbackOk
             /\ Return(r, Answer("invalid", None, None))
          \/ /\ f.valid /\ cached = None /\ f.callbackOk
             /\ IF f.key = NoKey THEN Admit(r) ELSE GoTo(r, "find")
    /\ UNCHANGED <<row, recent, cache, depth, errors, produced>>

\* A row the lookup by key can find.
Live(q) == row[q] \notin {"none", "deleted"} /\ q \in recent

SameKey(q, r) ==
    None \notin {form[q], form[r]} /\ form[q].key # NoKey /\ form[q].key = form[r].key

\* Mutant: the lookup asks for the body's hash as well as the key.
FindKeyAndHash(r) ==
    /\ pc[r] = "find"
    /\ LET hits == {q \in Request : Live(q) /\ SameKey(q, r) /\ form[q].body = form[r].body}
       IN \/ hits = {} /\ Admit(r)
          \/ \E q \in hits : Return(r, Answer("hit", q, None))
    /\ UNCHANGED <<form, row, recent, cache, depth, errors, produced, before>>

\* find_by_idempotency_key returns one of the rows with the key (LIMIT 1); the
\* hash it compares covers language, source and stdin, not the limits.
find_by_idempotency_key(r) ==
    /\ pc[r] = "find"
    /\ LET hits == {q \in Request : Live(q) /\ SameKey(q, r)}
       IN \/ /\ hits = {} /\ Admit(r) /\ UNCHANGED errors
          \/ /\ \E q \in hits :
                  Return(r, Answer(IF form[q].body = form[r].body THEN "hit"
                                   ELSE "conflict", q, None))
             /\ UNCHANGED errors
          \/ Error /\ Return(r, Answer("error", None, None))
    /\ UNCHANGED <<form, row, recent, cache, depth, produced, before>>

\* The INSERT; the error may be reported for a statement that took effect.
insert_submission(r) ==
    /\ pc[r] = "insert"
    /\ LET Stored == /\ row' = [row EXCEPT ![r] = "queued"]
                     /\ recent' = recent \cup {r}
       IN \/ Stored /\ GoTo(r, "notify") /\ UNCHANGED errors
          \/ /\ Stored \/ UNCHANGED <<row, recent>>
             /\ Error /\ Return(r, Answer("error", None, None))
    /\ UNCHANGED <<form, cache, depth, produced, before>>

\* pg_notify; an error is a 500 although the row is in the queue.
notify(r) ==
    /\ pc[r] = "notify"
    /\ \/ /\ IF form[r].wait THEN GoTo(r, "wait") ELSE Return(r, Answer("ack", r, None))
          /\ UNCHANGED errors
       \/ Error /\ Return(r, Answer("error", None, None))
    /\ UNCHANGED <<form, row, recent, cache, depth, produced, before>>

\* wait_for_completion returns the row, nothing, or an error.
wait_for_completion(r) ==
    /\ pc[r] = "wait"
    /\ \/ /\ row[r] \in Outcome
          /\ pc' = [pc EXCEPT ![r] = "memo"]
          /\ reply' = [reply EXCEPT ![r] = Answer("done", r, row[r])]
          /\ UNCHANGED errors
       \/ /\ row[r] \in {"queued", "processing"}
          /\ Return(r, Answer("pending", r, None)) /\ UNCHANGED errors
       \/ /\ row[r] = "deleted"
          /\ Return(r, Answer("ack", r, None)) /\ UNCHANGED errors
       \/ Error /\ Return(r, Answer("error", None, None))
    /\ UNCHANGED <<form, row, recent, cache, depth, produced, before>>

\* Only a verdict is remembered, then the reply goes out.
populate_result_cache(r) ==
    /\ pc[r] = "memo"
    /\ cache' = IF reply[r].outcome \in Verdict
                THEN [cache EXCEPT ![CacheKey(form[r])] = reply[r].outcome] ELSE cache
    /\ GoTo(r, "end")
    /\ UNCHANGED <<form, row, recent, depth, errors, produced, before>>

\* The client goes away and the handler is dropped wherever it waits.
Disconnect(r) ==
    /\ pc[r] \in {"find", "insert", "notify", "wait", "memo"}
    /\ Return(r, Answer("left", None, None))
    /\ UNCHANGED <<form, row, recent, cache, depth, errors, produced, before>>

Handler(r) ==
    find_by_idempotency_key(r) \/ insert_submission(r) \/ notify(r)
        \/ wait_for_completion(r) \/ populate_result_cache(r) \/ Disconnect(r)

-----------------------------------------------------------------------------
(* The rest of the system.                                                 *)

\* The workers' claims and results; a late result may replace another.
Claim(r) ==
    /\ row[r] = "queued"
    /\ row' = [row EXCEPT ![r] = "processing"]
    /\ UNCHANGED <<form, pc, reply, recent, cache, depth, errors, produced, before>>

Finish(r, o) ==
    /\ row[r] \in {"processing"} \cup Outcome
    /\ row' = [row EXCEPT ![r] = o]
    /\ produced' = [produced EXCEPT ![<<form[r].body, form[r].limits>>] = @ \cup {o}]
    /\ UNCHANGED <<form, pc, reply, recent, cache, depth, errors, before>>

\* Retention removes a finished row, after ZEROCODE_RETENTION_HOURS (0 or more);
\* a row leaves the 24 hours of the lookup by key.
Delete(r) ==
    /\ row[r] \in Outcome
    /\ row' = [row EXCEPT ![r] = "deleted"]
    /\ UNCHANGED <<form, pc, reply, recent, cache, depth, errors, produced, before>>

Age(r) ==
    /\ r \in recent
    /\ recent' = recent \ {r}
    /\ UNCHANGED <<form, pc, reply, row, cache, depth, errors, produced, before>>

\* moka forgets an entry after 5 minutes, or when it is full.
Evict(w) ==
    /\ cache[w] # None
    /\ cache' = [cache EXCEPT ![w] = None]
    /\ UNCHANGED <<form, pc, reply, row, recent, depth, errors, produced, before>>

\* The background task counts the queued rows of the whole table once a second;
\* until the first count, and after a failed one, the old value stays.
queue_depth ==
    /\ \E others \in 0 .. MaxOthers :
          depth' = others + Cardinality({r \in Request : row[r] = "queued"})
    /\ UNCHANGED <<form, pc, reply, row, recent, cache, errors, produced, before>>

Next ==
    \/ \E r \in Request, f \in Form : Arrive(r, f)
    \/ \E r \in Request : Handler(r)
    \/ \E r \in Request : Claim(r) \/ Delete(r) \/ Age(r)
    \/ \E r \in Request, o \in Outcome : Finish(r, o)
    \/ \E w \in Work : Evict(w)
    \/ queue_depth

Spec == Init /\ [][Next]_vars

-----------------------------------------------------------------------------
(* Properties.                                                             *)

\* A cached answer is a verdict that some execution of the very same program
\* and input under the very same limits has produced: a fault of the service
\* is never replayed, nor a time limit to a request with a larger budget.
CachedIsEarned ==
    \A r \in Request : reply[r].kind = "cached" =>
        reply[r].outcome \in Verdict \cap produced[<<form[r].body, form[r].limits>>]

\* A retry that arrives after a row with its key exists is not executed
\* again, as long as that row is kept and less than 24 hours old.
SequentialDedup ==
    \A r \in Request : row[r] # "none" =>
        \A q \in before[r] : SameKey(q, r) => ~Live(q)

\* submissions.rs: "Cache hits and idempotent retries already returned above,
\* so only fresh submissions are shed."
ShedOnlyFresh ==
    \A r \in Request : reply[r].kind = "shed" =>
        \A q \in before[r] : SameKey(q, r) => ~Live(q)

\* api.mdx: "returns the same token for repeated keys": two requests with the
\* same key and body that are both given a token are given the same one,
\* while the submission is kept.
OneTokenPerKey ==
    LET Given(q) == IF reply[q].kind \in {"ack", "hit", "done", "pending"}
                    THEN {p \in Request : p = reply[q].token /\ Live(p)} ELSE {}
    IN \A q, r \in Request :
           SameKey(q, r) /\ form[q].body = form[r].body =>
               \A p \in Given(q) : Given(r) \subseteq {p}
=============================================================================
