----------------------- MODULE CreateSubmissionProofs -----------------------
(* Proofs about CreateSubmission, for any requests, forms, verdicts and    *)
(* bounds, with load shedding on or off.                                   *)
EXTENDS CreateSubmission, FiniteSetTheorems, TLAPS

-----------------------------------------------------------------------------
(* The inductive invariant.                                                *)

\* A handler that has not inserted its row has none, and a request that is not
\* answered has no answer.
Handlers ==
    \A r \in Request :
        /\ pc[r] \in {"new", "find", "insert"} => row[r] = "none" /\ r \notin recent
        /\ reply[r].kind # "none" => pc[r] \in {"memo", "end"}
        /\ pc[r] = "memo" => reply[r].kind = "done"

\* The rows a request found were there, and rows do not become unborn.
Earlier == \A r \in Request : \A q \in before[r] : row[q] # "none"

\* Whatever stands in a row, waits to be remembered or is remembered has been
\* produced by an execution of that work.
Earned ==
    /\ \A r \in Request : row[r] \in Outcome => row[r] \in produced[CacheKey(form[r])]
    /\ \A r \in Request : reply[r].kind = "done" =>
          reply[r].outcome \in produced[CacheKey(form[r])]
    /\ \A w \in Work : cache[w] # None => cache[w] \in produced[w]

\* No row that a request could have found by its key is live any more when its
\* handler goes on to the INSERT, has made it, or was shed just before it.
Deduplicated ==
    \A r \in Request : pc[r] = "insert" \/ row[r] # "none" \/ reply[r].kind = "shed" =>
        \A q \in before[r] : SameKey(q, r) => ~Live(q)

Inv == TypeOK /\ Handlers /\ Earlier /\ Earned /\ CachedIsEarned /\ Deduplicated

-----------------------------------------------------------------------------
(* Types.                                                                  *)

LEMMA FormType ==
    ASSUME NEW f \in Form
    PROVE  /\ f.key \in Key \cup {NoKey} /\ f.valid \in BOOLEAN /\ f.callbackOk \in BOOLEAN
           /\ f.wait \in BOOLEAN /\ CacheKey(f) \in Work
  BY FormAssumption DEF CacheKey, Work

\* The record of an answer and its three fields.
LEMMA AnswerType ==
    ASSUME NEW k \in Kind, NEW t \in Request \cup {None}, NEW o \in Outcome \cup {None}
    PROVE  /\ Answer(k, t, o) \in [kind : Kind \cup {"none"}, token : Request \cup {None},
                                   outcome : Outcome \cup {None}]
           /\ Answer(k, t, o).kind = k /\ Answer(k, t, o).outcome = o
  BY DEF Answer

\* Only the handler of r has moved, to the place given and with an answer of the
\* kind given, or with no new answer.
Moved(r, place) ==
    /\ pc' \in [Request -> {"new", "find", "insert", "notify", "wait", "memo", "end"}]
    /\ reply' \in [Request -> [kind : Kind \cup {"none"}, token : Request \cup {None},
                               outcome : Outcome \cup {None}]]
    /\ pc'[r] = place
    /\ \A q \in Request \ {r} : pc'[q] = pc[q] /\ reply'[q] = reply[q]

Answered(r, place, kinds) == Moved(r, place) /\ reply'[r].kind \in kinds

LEMMA ReturnType ==
    ASSUME TypeOK, NEW r \in Request, NEW k \in Kind, NEW t \in Request \cup {None},
           NEW o \in Outcome \cup {None}, Return(r, Answer(k, t, o))
    PROVE  Answered(r, "end", {k}) /\ reply'[r].outcome = o
  BY AnswerType DEF TypeOK, Return, Moved, Answered

LEMMA GoToType ==
    ASSUME TypeOK, NEW r \in Request,
           NEW next \in {"find", "insert", "notify", "wait", "memo", "end"}, GoTo(r, next)
    PROVE  Moved(r, next) /\ reply' = reply
  BY DEF TypeOK, GoTo, Moved

LEMMA ErrorType == ASSUME TypeOK, Error \/ UNCHANGED errors PROVE errors' \in 0 .. MaxErrors
  BY CreateBoundAssumption DEF TypeOK, Error

LEMMA AdmitEffect ==
    ASSUME TypeOK, NEW r \in Request, Admit(r)
    PROVE  (Moved(r, "insert") /\ reply' = reply) \/ Answered(r, "end", {"shed"})
  <1>1. "shed" \in Kind
    BY DEF Kind
  <1> QED BY <1>1, ReturnType, GoToType DEF Admit

-----------------------------------------------------------------------------
(* What each step of a handler does.                                       *)

\* A request without a key does not look for one.
LEMMA ArriveEffect ==
    ASSUME TypeOK, NEW r \in Request, NEW f \in Form, Arrive(r, f)
    PROVE  /\ \/ Answered(r, "end", {"invalid"})
              \/ /\ Answered(r, "end", {"cached"}) /\ cache[CacheKey(f)] # None
                 /\ reply'[r].outcome = cache[CacheKey(f)]
              \/ f.key = NoKey /\ Moved(r, "insert") /\ reply' = reply
              \/ f.key = NoKey /\ Answered(r, "end", {"shed"})
              \/ Moved(r, "find") /\ reply' = reply
           /\ form' \in [Request -> Form \cup {None}] /\ form'[r] = f
           /\ \A q \in Request \ {r} : form'[q] = form[q] /\ before'[q] = before[q]
           /\ before' \in [Request -> SUBSET Request]
           /\ before'[r] = {q \in Request : row[q] # "none"}
  <1>1. {"invalid", "cached"} \subseteq Kind /\ cache[CacheKey(f)] \in Outcome \cup {None}
    BY FormType DEF Kind, TypeOK, Outcome
  <1>2. /\ form' \in [Request -> Form \cup {None}] /\ form'[r] = f
        /\ before' \in [Request -> SUBSET Request]
        /\ before'[r] = {q \in Request : row[q] # "none"}
        /\ \A q \in Request \ {r} : form'[q] = form[q] /\ before'[q] = before[q]
    BY DEF Arrive, TypeOK
  <1>3. CASE Return(r, Answer("invalid", None, None))
    BY <1>1, <1>2, <1>3, ReturnType
  <1>4. CASE Return(r, Answer("cached", None, cache[CacheKey(f)])) /\ cache[CacheKey(f)] # None
    BY <1>1, <1>2, <1>4, ReturnType DEF Answered
  <1>5. CASE f.key = NoKey /\ Admit(r)
    BY <1>2, <1>5, AdmitEffect
  <1>6. CASE GoTo(r, "find")
    BY <1>2, <1>6, GoToType
  <1> QED BY <1>3, <1>4, <1>5, <1>6 DEF Arrive

\* The lookup lets a request pass only if no live row has its key.
LEMMA FindEffect ==
    ASSUME TypeOK, NEW r \in Request, find_by_idempotency_key(r)
    PROVE  /\ \/ /\ \A q \in Request : SameKey(q, r) => ~Live(q)
                 /\ (Moved(r, "insert") /\ reply' = reply) \/ Answered(r, "end", {"shed"})
              \/ Answered(r, "end", {"hit", "conflict", "error"})
           /\ errors' \in 0 .. MaxErrors
  <1>1. {"hit", "conflict", "error"} \subseteq Kind
    BY DEF Kind
  <1>2. CASE {q \in Request : Live(q) /\ SameKey(q, r)} = {} /\ Admit(r) /\ UNCHANGED errors
    BY <1>2, AdmitEffect, ErrorType
  <1>3. CASE UNCHANGED errors /\ \E q \in Request :
               Return(r, Answer(IF form[q].body = form[r].body THEN "hit" ELSE "conflict", q, None))
    <2>1. PICK q \in Request, k \in {"hit", "conflict"} : Return(r, Answer(k, q, None))
      BY <1>3
    <2>2. Answered(r, "end", {k})
      BY <1>1, <2>1, ReturnType
    <2> QED BY <1>3, <2>2, ErrorType DEF Answered
  <1>4. CASE Error /\ Return(r, Answer("error", None, None))
    BY <1>1, <1>4, ReturnType, ErrorType DEF Answered
  <1> QED BY <1>2, <1>3, <1>4 DEF find_by_idempotency_key

LEMMA InsertEffect ==
    ASSUME TypeOK, NEW r \in Request, insert_submission(r)
    PROVE  /\ (Moved(r, "notify") /\ reply' = reply) \/ Answered(r, "end", {"error"})
           /\ \/ row' = [row EXCEPT ![r] = "queued"] /\ recent' = recent \cup {r}
              \/ UNCHANGED <<row, recent>>
           /\ errors' \in 0 .. MaxErrors
  <1>1. "error" \in Kind
    BY DEF Kind
  <1> QED BY <1>1, ReturnType, GoToType, ErrorType DEF insert_submission

LEMMA NotifyEffect ==
    ASSUME TypeOK, NEW r \in Request, notify(r)
    PROVE  /\ (Moved(r, "wait") /\ reply' = reply) \/ Answered(r, "end", {"ack", "error"})
           /\ errors' \in 0 .. MaxErrors
  <1>1. {"ack", "error"} \subseteq Kind
    BY DEF Kind
  <1> QED BY <1>1, ReturnType, GoToType, ErrorType DEF notify, Answered

\* The answer "done" carries what is in the row.
LEMMA WaitEffect ==
    ASSUME TypeOK, NEW r \in Request, wait_for_completion(r)
    PROVE  /\ \/ /\ Answered(r, "memo", {"done"}) /\ row[r] \in Outcome
                 /\ reply'[r].outcome = row[r]
              \/ Answered(r, "end", {"pending", "ack", "error"})
           /\ errors' \in 0 .. MaxErrors
  <1>1. {"done", "pending", "ack", "error"} \subseteq Kind
    BY DEF Kind
  <1>2. CASE /\ row[r] \in Outcome /\ pc' = [pc EXCEPT ![r] = "memo"]
             /\ reply' = [reply EXCEPT ![r] = Answer("done", r, row[r])] /\ UNCHANGED errors
    BY <1>1, <1>2, AnswerType, ErrorType DEF TypeOK, Moved, Answered
  <1>3. ASSUME NEW k \in {"pending", "ack"}, Return(r, Answer(k, r, None)), UNCHANGED errors
        PROVE  Answered(r, "end", {"pending", "ack", "error"}) /\ errors' \in 0 .. MaxErrors
    BY <1>1, <1>3, ReturnType, ErrorType DEF Answered
  <1>4. CASE Error /\ Return(r, Answer("error", None, None))
    BY <1>1, <1>4, ReturnType, ErrorType DEF Answered
  <1> QED BY <1>2, <1>3, <1>4 DEF wait_for_completion

LEMMA DisconnectEffect ==
    ASSUME TypeOK, NEW r \in Request, Disconnect(r) PROVE Answered(r, "end", {"left"})
  <1>1. "left" \in Kind
    BY DEF Kind
  <1> QED BY <1>1, ReturnType DEF Disconnect

LEMMA PopulateEffect ==
    ASSUME TypeOK, NEW r \in Request, populate_result_cache(r)
    PROVE  /\ Moved(r, "end") /\ reply' = reply
           /\ cache' \in [Work -> Verdict \cup {None}]
           /\ \A w \in Work :
                \/ cache'[w] = cache[w]
                \/ w = CacheKey(form[r]) /\ cache'[w] = reply[r].outcome
  <1>1. Moved(r, "end") /\ reply' = reply
    BY GoToType DEF populate_result_cache
  <1>2. form[r] \in Form
    BY DEF populate_result_cache, TypeOK
  <1>3. CacheKey(form[r]) \in Work
    BY <1>2, FormType
  <1> QED BY <1>1, <1>3 DEF populate_result_cache, TypeOK

-----------------------------------------------------------------------------
(* The types are kept.                                                     *)

LEMMA InitType == Init => TypeOK
  <1> SUFFICES ASSUME Init PROVE TypeOK
    OBVIOUS
  <1>1. reply \in [Request -> [kind : Kind \cup {"none"}, token : Request \cup {None},
                              outcome : Outcome \cup {None}]]
    BY DEF Init, Answer
  <1> QED BY <1>1, CreateBoundAssumption DEF Init, TypeOK

LEMMA NextType == ASSUME TypeOK, [Next]_vars PROVE TypeOK'
  <1>1. ASSUME NEW r \in Request, NEW f \in Form, Arrive(r, f) PROVE TypeOK'
    <2>1. UNCHANGED <<row, recent, cache, depth, errors, produced>>
      BY <1>1 DEF Arrive
    <2>2. \E place \in {"find", "insert", "end"} : Moved(r, place)
      BY <1>1, ArriveEffect DEF Answered
    <2>3. /\ form' \in [Request -> Form \cup {None}] /\ form'[r] = f
          /\ \A q \in Request \ {r} : form'[q] = form[q]
          /\ before' \in [Request -> SUBSET Request]
      BY <1>1, ArriveEffect
    <2> QED BY <2>1, <2>2, <2>3 DEF TypeOK, Moved
  <1>2. ASSUME NEW r \in Request, find_by_idempotency_key(r) PROVE TypeOK'
    <2>1. pc[r] = "find" /\ UNCHANGED <<form, row, recent, cache, depth, produced, before>>
      BY <1>2 DEF find_by_idempotency_key
    <2> QED BY <1>2, <2>1, FindEffect DEF TypeOK, Moved, Answered
  <1>3. ASSUME NEW r \in Request, insert_submission(r) PROVE TypeOK'
    <2>1. pc[r] = "insert" /\ UNCHANGED <<form, cache, depth, produced, before>>
      BY <1>3 DEF insert_submission
    <2> QED BY <1>3, <2>1, InsertEffect DEF TypeOK, Moved, Answered
  <1>4. ASSUME NEW r \in Request, notify(r) PROVE TypeOK'
    <2>1. pc[r] = "notify" /\ UNCHANGED <<form, row, recent, cache, depth, produced, before>>
      BY <1>4 DEF notify
    <2> QED BY <1>4, <2>1, NotifyEffect DEF TypeOK, Moved, Answered
  <1>5. ASSUME NEW r \in Request, wait_for_completion(r) PROVE TypeOK'
    <2>1. pc[r] = "wait" /\ UNCHANGED <<form, row, recent, cache, depth, produced, before>>
      BY <1>5 DEF wait_for_completion
    <2> QED BY <1>5, <2>1, WaitEffect DEF TypeOK, Moved, Answered
  <1>6. ASSUME NEW r \in Request, populate_result_cache(r) PROVE TypeOK'
    <2>1. pc[r] = "memo" /\ UNCHANGED <<form, row, recent, depth, errors, produced, before>>
      BY <1>6 DEF populate_result_cache
    <2> QED BY <1>6, <2>1, PopulateEffect DEF TypeOK, Moved
  <1>7. ASSUME NEW r \in Request, Disconnect(r) PROVE TypeOK'
    <2>1. /\ pc[r] # "new"
          /\ UNCHANGED <<form, row, recent, cache, depth, errors, produced, before>>
      BY <1>7 DEF Disconnect
    <2> QED BY <1>7, <2>1, DisconnectEffect DEF TypeOK, Moved, Answered
  <1>8. ASSUME NEW r \in Request, Claim(r) \/ Delete(r) \/ Age(r) PROVE TypeOK'
    BY <1>8, FormAssumption DEF Claim, Delete, Age, TypeOK, Outcome
  <1>9. ASSUME NEW r \in Request, NEW o \in Outcome, Finish(r, o) PROVE TypeOK'
    <2>1. form[r] \in Form
      BY <1>9, FormAssumption DEF Finish, TypeOK, Outcome
    <2>2. <<form[r].body, form[r].limits>> \in Work
      BY <2>1, FormType DEF CacheKey
    <2> QED BY <1>9, <2>1, <2>2 DEF Finish, TypeOK
  <1>10. ASSUME NEW w \in Work, Evict(w) PROVE TypeOK'
    BY <1>10 DEF Evict, TypeOK
  <1>11. CASE queue_depth
    <2>1. Cardinality({r \in Request : row[r] = "queued"}) \in Nat
      BY CreateBoundAssumption, FS_CardinalityType, FS_Subset
    <2>2. depth' \in Nat
      BY <1>11, <2>1, CreateBoundAssumption DEF queue_depth
    <2> QED BY <1>11, <2>2 DEF queue_depth, TypeOK
  <1>12. CASE UNCHANGED vars
    BY <1>12 DEF vars, TypeOK
  <1> QED
    BY <1>1, <1>2, <1>3, <1>4, <1>5, <1>6, <1>7, <1>8, <1>9, <1>10, <1>11, <1>12
       DEF Next, Handler

-----------------------------------------------------------------------------
(* Rows, handlers and answers.                                             *)

\* A row is inserted once, by the handler it is named after, neither unborn
\* nor undeleted.
LEMMA RowStep ==
    ASSUME TypeOK, [Next]_vars, NEW q \in Request
    PROVE  /\ row[q] # "none" => row'[q] # "none"
           /\ row[q] = "none" /\ row'[q] # "none" => pc[q] = "insert"
           /\ row[q] = "deleted" /\ row'[q] # "deleted" => pc[q] = "insert"
           /\ q \notin recent /\ q \in recent' => pc[q] = "insert"
           /\ pc[q] # "new" => form'[q] = form[q] /\ before'[q] = before[q]
  <1>1. ASSUME NEW r \in Request, NEW f \in Form, Arrive(r, f)
        PROVE  /\ UNCHANGED <<row, recent>>
               /\ pc[q] # "new" => form'[q] = form[q] /\ before'[q] = before[q]
    BY <1>1, ArriveEffect DEF Arrive
  <1>2. ASSUME NEW r \in Request, insert_submission(r)
        PROVE  /\ UNCHANGED <<form, before>>
               /\ row'[q] = row[q] \/ (q = r /\ row'[q] = "queued")
               /\ recent' \subseteq recent \cup {r}
               /\ pc[r] = "insert"
    BY <1>2, InsertEffect DEF insert_submission, TypeOK
  <1>3. ASSUME NEW r \in Request, find_by_idempotency_key(r) \/ notify(r)
               \/ wait_for_completion(r) \/ populate_result_cache(r) \/ Disconnect(r)
        PROVE  UNCHANGED <<form, before, row, recent>>
    BY <1>3 DEF find_by_idempotency_key, notify, wait_for_completion,
                populate_result_cache, Disconnect
  <1>4. ASSUME NEW r \in Request, Claim(r) \/ Delete(r) \/ Age(r)
        PROVE  /\ UNCHANGED <<form, before>> /\ recent' \subseteq recent
               /\ row'[q] = row[q] \/ (row[q] \notin {"none", "deleted"} /\ row'[q] # "none")
    BY <1>4, FormAssumption DEF Claim, Delete, Age, TypeOK, Outcome
  <1>5. ASSUME NEW r \in Request, NEW o \in Outcome, Finish(r, o)
        PROVE  /\ UNCHANGED <<form, before, recent>>
               /\ row'[q] = row[q] \/ (row[q] \notin {"none", "deleted"} /\ row'[q] # "none")
    BY <1>5, FormAssumption DEF Finish, TypeOK, Outcome
  <1>6. ASSUME (\E w \in Work : Evict(w)) \/ queue_depth \/ UNCHANGED vars
        PROVE  UNCHANGED <<form, before, row, recent>>
    BY <1>6 DEF Evict, queue_depth, vars
  <1> QED BY <1>1, <1>2, <1>3, <1>4, <1>5, <1>6 DEF Next, Handler

LEMMA HandlersStep == ASSUME TypeOK, Handlers, [Next]_vars PROVE Handlers'
  <1> SUFFICES ASSUME NEW q \in Request
               PROVE  /\ pc'[q] \in {"new", "find", "insert"} => row'[q] = "none" /\ q \notin recent'
                      /\ reply'[q].kind # "none" => pc'[q] \in {"memo", "end"}
                      /\ pc'[q] = "memo" => reply'[q].kind = "done"
    BY DEF Handlers
  <1> DEFINE Goal ==
        /\ pc'[q] \in {"new", "find", "insert"} => row'[q] = "none" /\ q \notin recent'
        /\ reply'[q].kind # "none" => pc'[q] \in {"memo", "end"}
        /\ pc'[q] = "memo" => reply'[q].kind = "done"
  <1>0. /\ pc[q] \in {"new", "find", "insert"} => row[q] = "none" /\ q \notin recent
        /\ reply[q].kind # "none" => pc[q] \in {"memo", "end"}
        /\ pc[q] = "memo" => reply[q].kind = "done"
    BY DEF Handlers
  <1>1. ASSUME NEW r \in Request, NEW f \in Form, Arrive(r, f) PROVE Goal
    <2>1. pc[r] = "new" /\ UNCHANGED <<row, recent>>
      BY <1>1 DEF Arrive
    <2>2. \/ \E place \in {"find", "insert"} : Moved(r, place) /\ reply' = reply
          \/ Moved(r, "end")
      BY <1>1, ArriveEffect DEF Answered
    <2> QED BY <1>0, <2>1, <2>2 DEF Moved
  <1>2. ASSUME NEW r \in Request, find_by_idempotency_key(r) PROVE Goal
    BY <1>0, <1>2, FindEffect DEF find_by_idempotency_key, Moved, Answered
  <1>3. ASSUME NEW r \in Request, insert_submission(r) PROVE Goal
    BY <1>0, <1>3, InsertEffect DEF insert_submission, Moved, Answered, TypeOK
  <1>4. ASSUME NEW r \in Request, notify(r) PROVE Goal
    BY <1>0, <1>4, NotifyEffect DEF notify, Moved, Answered
  <1>5. ASSUME NEW r \in Request, wait_for_completion(r) PROVE Goal
    BY <1>0, <1>5, WaitEffect DEF wait_for_completion, Moved, Answered
  <1>6. ASSUME NEW r \in Request, populate_result_cache(r) PROVE Goal
    BY <1>0, <1>6, PopulateEffect DEF populate_result_cache, Moved
  <1>7. ASSUME NEW r \in Request, Disconnect(r) PROVE Goal
    BY <1>0, <1>7, DisconnectEffect DEF Disconnect, Moved, Answered
  <1>8. ASSUME \/ \E r \in Request : Claim(r) \/ Delete(r) \/ Age(r)
               \/ \E r \in Request, o \in Outcome : Finish(r, o)
               \/ \E w \in Work : Evict(w)
               \/ queue_depth \/ UNCHANGED vars
        PROVE  Goal
    <2>1. UNCHANGED <<pc, reply>>
      BY <1>8 DEF Claim, Delete, Age, Finish, Evict, queue_depth, vars
    <2>2. row[q] = "none" => row'[q] = "none"
      BY <1>8, FormAssumption DEF Claim, Delete, Age, Finish, Evict, queue_depth, vars,
                                  TypeOK, Outcome
    <2>3. recent' \subseteq recent
      BY <1>8 DEF Claim, Delete, Age, Finish, Evict, queue_depth, vars
    <2> QED BY <1>0, <2>1, <2>2, <2>3
  <1> HIDE DEF Goal
  <1>9. Goal
    BY <1>1, <1>2, <1>3, <1>4, <1>5, <1>6, <1>7, <1>8 DEF Next, Handler
  <1> QED BY <1>9 DEF Goal

LEMMA EarlierStep == ASSUME TypeOK, Earlier, [Next]_vars PROVE Earlier'
  <1> SUFFICES ASSUME NEW r \in Request, NEW q \in before'[r] PROVE row'[q] # "none"
    BY DEF Earlier
  <1>1. q \in Request
    BY NextType DEF TypeOK
  <1>2. CASE before'[r] = before[r]
    BY <1>1, <1>2, RowStep DEF Earlier
  <1>3. CASE before'[r] # before[r]
    <2>1. PICK p \in Request, f \in Form : Arrive(p, f)
      BY <1>3 DEF Next, Handler, find_by_idempotency_key, insert_submission, notify,
                  wait_for_completion, populate_result_cache, Disconnect, Claim, Delete,
                  Age, Finish, Evict, queue_depth, vars
    <2>2. before'[r] = {u \in Request : row[u] # "none"}
      BY <1>3, <2>1, ArriveEffect
    <2> QED BY <1>1, <2>1, <2>2 DEF Arrive
  <1> QED BY <1>2, <1>3

-----------------------------------------------------------------------------
(* Results are earned.                                                     *)

\* What an execution has produced stays produced; only executions add to it.
LEMMA ProducedStep ==
    ASSUME TypeOK, [Next]_vars, NEW w \in Work PROVE produced[w] \subseteq produced'[w]
  <1>1. ASSUME NEW r \in Request, NEW o \in Outcome, Finish(r, o)
        PROVE  produced[w] \subseteq produced'[w]
    BY <1>1 DEF Finish, TypeOK
  <1>2. ASSUME ~\E r \in Request, o \in Outcome : Finish(r, o) PROVE UNCHANGED produced
    BY <1>2 DEF Next, Handler, Arrive, find_by_idempotency_key, insert_submission, notify,
         wait_for_completion, populate_result_cache, Disconnect, Claim, Delete, Age,
         Evict, queue_depth, vars
  <1> QED BY <1>1, <1>2

\* The work of a request is known once it has arrived, and stays the same.
LEMMA WorkStep ==
    ASSUME TypeOK, [Next]_vars, NEW q \in Request, pc[q] # "new"
    PROVE  /\ CacheKey(form[q]) \in Work /\ form'[q] = form[q]
           /\ produced[CacheKey(form[q])] \subseteq produced'[CacheKey(form'[q])]
  <1>1. form[q] \in Form /\ form'[q] = form[q]
    BY RowStep DEF TypeOK
  <1>2. CacheKey(form[q]) \in Work
    BY <1>1, FormType
  <1> QED BY <1>1, <1>2, ProducedStep

\* The status of a row is an outcome because it was one, or because an execution
\* has just stored it.
LEMMA RowEarned ==
    ASSUME TypeOK, Handlers, Earned, [Next]_vars, NEW q \in Request, row'[q] \in Outcome
    PROVE  row'[q] \in produced'[CacheKey(form'[q])]
  <1>1. CASE row'[q] = row[q]
    <2>1. row[q] # "none" /\ row[q] \in Outcome
      BY <1>1, FormAssumption DEF Outcome
    <2>2. pc[q] # "new"
      BY <2>1 DEF Handlers
    <2>3. row[q] \in produced[CacheKey(form[q])]
      BY <2>1 DEF Earned
    <2> QED BY <1>1, <2>2, <2>3, WorkStep
  <1>2. CASE row'[q] # row[q]
    <2>1. \A r \in Request : ~insert_submission(r)
      BY <1>2, InsertEffect, FormAssumption DEF TypeOK, Outcome
    <2>2. \A r \in Request : ~Claim(r) /\ ~Delete(r)
      BY <1>2, FormAssumption DEF Claim, Delete, TypeOK, Outcome
    <2>3. PICK r \in Request, o \in Outcome : Finish(r, o)
      BY <1>2, <2>1, <2>2 DEF Next, Handler, Arrive, find_by_idempotency_key, notify,
         wait_for_completion, populate_result_cache, Disconnect, Age, Evict, queue_depth, vars
    <2>4. r = q /\ row'[q] = o /\ form' = form
      BY <1>2, <2>3 DEF Finish, TypeOK
    <2>5. form[q] \in Form
      BY <2>3, <2>4, FormAssumption DEF Finish, TypeOK, Outcome
    <2>6. CacheKey(form[q]) \in Work
      BY <2>5, FormType
    <2> QED BY <2>3, <2>4, <2>6 DEF Finish, TypeOK, CacheKey
  <1> QED BY <1>1, <1>2

\* An answer "done" is what the row held when the handler looked.
LEMMA DoneEarned ==
    ASSUME TypeOK, Handlers, Earned, [Next]_vars, NEW q \in Request, reply'[q].kind = "done"
    PROVE  reply'[q].outcome \in produced'[CacheKey(form'[q])]
  <1>1. CASE reply'[q] = reply[q]
    <2>1. pc[q] # "new" /\ reply[q].outcome \in produced[CacheKey(form[q])]
      BY <1>1 DEF Handlers, Earned
    <2> QED BY <1>1, <2>1, WorkStep
  <1>2. CASE reply'[q] # reply[q]
    <2>1. ASSUME NEW r \in Request, NEW f \in Form, Arrive(r, f) PROVE FALSE
      BY <1>2, <2>1, ArriveEffect DEF Moved, Answered
    <2>2. ASSUME NEW r \in Request, find_by_idempotency_key(r) \/ insert_submission(r)
                                      \/ notify(r) \/ Disconnect(r)
          PROVE  FALSE
      BY <1>2, <2>2, FindEffect, InsertEffect, NotifyEffect, DisconnectEffect
         DEF Moved, Answered
    <2>3. ASSUME NEW r \in Request, populate_result_cache(r) PROVE FALSE
      BY <1>2, <2>3, PopulateEffect
    <2>4. PICK r \in Request : wait_for_completion(r)
      BY <1>2, <2>1, <2>2, <2>3 DEF Next, Handler, Claim, Delete, Age, Finish, Evict,
         queue_depth, vars
    <2>5. r = q /\ row[q] \in Outcome /\ reply'[q].outcome = row[q]
      BY <1>2, <2>4, WaitEffect DEF Moved, Answered
    <2>6. pc[q] # "new" /\ row[q] \in produced[CacheKey(form[q])]
      BY <2>4, <2>5 DEF wait_for_completion, Earned
    <2> QED BY <2>5, <2>6, WorkStep
  <1> QED BY <1>1, <1>2

\* An entry of the cache was an answer "done".
LEMMA EntryEarned ==
    ASSUME TypeOK, Handlers, Earned, [Next]_vars, NEW w \in Work, cache'[w] # None
    PROVE  cache'[w] \in produced'[w]
  <1>1. CASE cache'[w] = cache[w]
    BY <1>1, ProducedStep DEF Earned
  <1>2. CASE cache'[w] # cache[w]
    <2>1. \A v \in Work : ~Evict(v)
      BY <1>2 DEF Evict, TypeOK
    <2>2. PICK r \in Request : populate_result_cache(r)
      BY <1>2, <2>1 DEF Next, Handler, Arrive, find_by_idempotency_key, insert_submission,
         notify, wait_for_completion, Disconnect, Claim, Delete, Age, Finish, queue_depth, vars
    <2>3. w = CacheKey(form[r]) /\ cache'[w] = reply[r].outcome
      BY <1>2, <2>2, PopulateEffect
    <2>4. reply[r].outcome \in produced[CacheKey(form[r])]
      BY <2>2 DEF populate_result_cache, Handlers, Earned
    <2> QED BY <2>3, <2>4, ProducedStep
  <1> QED BY <1>1, <1>2

LEMMA EarnedStep == ASSUME TypeOK, Handlers, Earned, [Next]_vars PROVE Earned'
  BY RowEarned, DoneEarned, EntryEarned DEF Earned

\* A cached answer is what the cache held when the request arrived.
LEMMA CachedIsEarnedStep ==
    ASSUME TypeOK, Handlers, Earned, CachedIsEarned, [Next]_vars PROVE CachedIsEarned'
  <1> SUFFICES ASSUME NEW q \in Request, reply'[q].kind = "cached"
               PROVE  reply'[q].outcome \in Verdict \cap produced'[CacheKey(form'[q])]
    BY DEF CachedIsEarned, CacheKey
  <1>1. CASE reply'[q] = reply[q]
    <2>1. pc[q] # "new"
      BY <1>1 DEF Handlers
    <2>2. reply[q].outcome \in Verdict \cap produced[CacheKey(form[q])]
      BY <1>1 DEF CachedIsEarned, CacheKey
    <2> QED BY <1>1, <2>1, <2>2, WorkStep
  <1>2. CASE reply'[q] # reply[q]
    <2>1. ASSUME NEW r \in Request, find_by_idempotency_key(r) \/ insert_submission(r)
                                      \/ notify(r) \/ Disconnect(r)
          PROVE  FALSE
      BY <1>2, <2>1, FindEffect, InsertEffect, NotifyEffect, DisconnectEffect
         DEF Moved, Answered
    <2>2. ASSUME NEW r \in Request, wait_for_completion(r) PROVE FALSE
      BY <1>2, <2>2, WaitEffect DEF Moved, Answered
    <2>3. ASSUME NEW r \in Request, populate_result_cache(r) PROVE FALSE
      BY <1>2, <2>3, PopulateEffect
    <2>4. PICK r \in Request, f \in Form : Arrive(r, f)
      BY <1>2, <2>1, <2>2, <2>3 DEF Next, Handler, Claim, Delete, Age, Finish, Evict,
         queue_depth, vars
    <2>5. /\ r = q /\ form'[q] = f /\ cache[CacheKey(f)] # None
          /\ reply'[q].outcome = cache[CacheKey(f)]
      BY <1>2, <2>4, ArriveEffect DEF Moved, Answered
    <2>6. CacheKey(f) \in Work
      BY FormType
    <2>7. cache[CacheKey(f)] \in Verdict \cap produced[CacheKey(f)]
      BY <2>5, <2>6 DEF TypeOK, Earned
    <2> QED BY <2>5, <2>6, <2>7, ProducedStep
  <1> QED BY <1>1, <1>2

-----------------------------------------------------------------------------
(* Retries.                                                                *)

\* A row that the lookup by key cannot find will not be found later: it was
\* deleted or is too old.
LEMMA DeadStaysDead ==
    ASSUME TypeOK, Handlers, [Next]_vars, NEW q \in Request, row[q] # "none", ~Live(q)
    PROVE  ~Live(q)'
  <1>1. pc[q] # "insert"
    BY DEF Handlers
  <1> QED BY <1>1, RowStep DEF Live

\* The only way to the INSERT, and to being shed, leads past the lookup, unless
\* the request has no key.
LEMMA GateStep ==
    ASSUME TypeOK, Handlers, [Next]_vars, NEW r \in Request,
           pc'[r] = "insert" \/ row'[r] # "none" \/ reply'[r].kind = "shed"
    PROVE  \/ /\ pc[r] # "new"
              /\ pc[r] = "insert" \/ row[r] # "none" \/ reply[r].kind = "shed"
           \/ pc[r] = "new" /\ form'[r] \in Form /\ form'[r].key = NoKey
           \/ pc[r] = "find" /\ \A q \in Request : SameKey(q, r) => ~Live(q)
  <1>1. row'[r] # "none" => row[r] # "none" \/ pc[r] = "insert"
    BY RowStep
  <1>2. row[r] # "none" \/ reply[r].kind = "shed" => pc[r] # "new"
    BY DEF Handlers
  <1>3. CASE pc'[r] = pc[r] /\ reply'[r] = reply[r]
    BY <1>1, <1>2, <1>3
  <1>4. CASE ~(pc'[r] = pc[r] /\ reply'[r] = reply[r])
    <2>1. ASSUME NEW p \in Request, NEW f \in Form, Arrive(p, f)
          PROVE  pc[r] = "new" /\ form'[r] \in Form /\ form'[r].key = NoKey
      <3>1. p = r
        BY <1>4, <2>1, ArriveEffect DEF Moved, Answered
      <3>2. pc[r] = "new" /\ row' = row
        BY <2>1, <3>1 DEF Arrive
      <3>3. row[r] = "none" /\ reply[r].kind = "none"
        BY <3>2 DEF Handlers
      <3> QED BY <2>1, <3>1, <3>2, <3>3, ArriveEffect DEF Moved, Answered
    <2>2. ASSUME NEW p \in Request, find_by_idempotency_key(p)
          PROVE  pc[r] = "find" /\ \A q \in Request : SameKey(q, r) => ~Live(q)
      <3>1. p = r
        BY <1>4, <2>2, FindEffect DEF Moved, Answered
      <3>2. pc[r] = "find" /\ row' = row
        BY <2>2, <3>1 DEF find_by_idempotency_key
      <3>3. row[r] = "none"
        BY <3>2 DEF Handlers
      <3> QED BY <2>2, <3>1, <3>2, <3>3, FindEffect DEF Moved, Answered
    <2>3. ASSUME NEW p \in Request, insert_submission(p) PROVE pc[r] = "insert"
      BY <1>4, <2>3, InsertEffect DEF insert_submission, Moved, Answered
    <2>4. ASSUME NEW p \in Request, notify(p) \/ wait_for_completion(p)
                                      \/ populate_result_cache(p) \/ Disconnect(p)
          PROVE  pc[r] # "new" /\ (row[r] # "none" \/ reply[r].kind = "shed")
      <3>1. row' = row
        BY <2>4 DEF notify, wait_for_completion, populate_result_cache, Disconnect
      <3>2. /\ pc'[p] # "insert"
            /\ reply'[p].kind # "shed" \/ reply'[p] = reply[p]
            /\ \A q \in Request \ {p} : pc'[q] = pc[q] /\ reply'[q] = reply[q]
        BY <2>4, NotifyEffect, WaitEffect, PopulateEffect, DisconnectEffect
           DEF Moved, Answered
      <3>3. p = r
        BY <1>4, <3>2
      <3> QED BY <1>2, <3>1, <3>2, <3>3
    <2>5. \/ \E p \in Request, f \in Form : Arrive(p, f)
          \/ \E p \in Request : Handler(p)
      BY <1>4 DEF Next, Claim, Delete, Age, Finish, Evict, queue_depth, vars
    <2> QED BY <2>1, <2>2, <2>3, <2>4, <2>5 DEF Handler
  <1> QED BY <1>3, <1>4

LEMMA DeduplicatedStep ==
    ASSUME TypeOK, Handlers, Earlier, Deduplicated, [Next]_vars PROVE Deduplicated'
  <1> SUFFICES ASSUME NEW r \in Request,
                      pc'[r] = "insert" \/ row'[r] # "none" \/ reply'[r].kind = "shed",
                      NEW q \in before'[r], SameKey(q, r)'
               PROVE  ~Live(q)'
    BY DEF Deduplicated
  <1>1. q \in Request
    BY NextType DEF TypeOK
  <1>2. form'[r].key # NoKey
    BY DEF SameKey
  <1>3. pc[r] # "new"
    BY <1>2, GateStep
  <1>4. before'[r] = before[r] /\ form'[r] = form[r]
    BY <1>3, RowStep
  <1>5. row[q] # "none"
    BY <1>4 DEF Earlier
  <1>6. pc[q] # "new"
    BY <1>1, <1>5 DEF Handlers
  <1>7. form'[q] = form[q]
    BY <1>1, <1>6, RowStep
  <1>8. SameKey(q, r)
    BY <1>4, <1>7 DEF SameKey
  <1>9. ~Live(q)
    BY <1>1, <1>3, <1>4, <1>8, GateStep DEF Deduplicated
  <1> QED BY <1>1, <1>5, <1>9, DeadStaysDead

-----------------------------------------------------------------------------
(* The theorems.                                                           *)

\* Every step of the handlers, the workers, retention and the cache keeps the
\* whole invariant.
THEOREM Invariance == Spec => []Inv
  <1>1. Init => Inv
    <2> SUFFICES ASSUME Init PROVE Inv
      OBVIOUS
    <2>1. TypeOK
      BY InitType
    <2>2. \A r \in Request : reply[r].kind = "none" /\ row[r] = "none" /\ pc[r] = "new"
      BY DEF Init, Answer
    <2>3. Handlers /\ CachedIsEarned
      BY <2>2 DEF Init, Handlers, CachedIsEarned
    <2>4. Earlier /\ Deduplicated
      BY DEF Init, Earlier, Deduplicated
    <2>5. Earned
      BY <2>2, FormAssumption DEF Init, Earned, Outcome
    <2> QED BY <2>1, <2>3, <2>4, <2>5 DEF Inv
  <1>2. Inv /\ [Next]_vars => Inv'
    BY NextType, HandlersStep, EarlierStep, EarnedStep, CachedIsEarnedStep,
       DeduplicatedStep DEF Inv
  <1> QED BY <1>1, <1>2, PTL DEF Spec

\* The result cache replays only verdicts, and only to requests for the very work
\* that earned them, whatever is evicted, re-executed or deleted meanwhile.
THEOREM CachedIsEarnedHolds == Spec => []CachedIsEarned
  <1>1. Inv => CachedIsEarned
    BY DEF Inv
  <1> QED BY <1>1, Invariance, PTL

\* A retry that arrives after the row of its key is not executed again as long as
\* the lookup could find that row.
THEOREM SequentialDedupHolds == Spec => []SequentialDedup
  <1>1. Inv => SequentialDedup
    BY DEF Inv, Deduplicated, SequentialDedup
  <1> QED BY <1>1, Invariance, PTL

\* Load is shed only off requests that the lookup by key did not answer.
THEOREM ShedOnlyFreshHolds == Spec => []ShedOnlyFresh
  <1>1. Inv => ShedOnlyFresh
    BY DEF Inv, Deduplicated, ShedOnlyFresh
  <1> QED BY <1>1, Invariance, PTL
=============================================================================
