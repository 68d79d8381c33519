--------------------- MODULE SubmissionLifecycleProofs ---------------------
(* Proofs about SubmissionLifecycle, for any number of submissions, tasks, *)
(* workers and faults, and any lease and retention times.                  *)
EXTENDS SubmissionLifecycle, FiniteSetTheorems, TLAPS

-----------------------------------------------------------------------------
(* Operators.                                                              *)

\* Ageing keeps an age in range and never makes it younger.
LEMMA Older1Type ==
    ASSUME NEW n \in Age
    PROVE  /\ Older1(n) \in Age
           /\ n # Null => Older1(n) \in 0 .. MaxAge
           /\ Older1(n) >= n
  BY TimeAssumption DEF Older1, Age, Null

\* The position given to a new row is a number: only finitely many rows exist.
LEMMA InsertedCount == Cardinality(Inserted) \in Nat
  <1>1. IsFiniteSet(Inserted)
    BY SetsAssumption, FS_Subset DEF Inserted
  <1> QED BY <1>1, FS_CardinalityType

-----------------------------------------------------------------------------
(* Types.                                                                  *)

LEMMA InitType == Init => TypeOK
  BY SetsAssumption, TimeAssumption, BoundAssumption
     DEF Init, TypeOK, Status, NoRow, Age, Null, Pc

LEMMA ReleaseType ==
    ASSUME TypeOK, NEW k \in Task, Release(k)
    PROVE  /\ pc' \in [Task -> Pc]
           /\ claim' \in [Task -> Token \cup {None}]
           /\ \A j \in Task : pc'[j] # "idle" => claim'[j] \in Token
           /\ age' \in [Task -> 0 .. MaxAge]
           /\ tries' \in [Task -> Nat]
           /\ result' \in [Task -> Verdict \cup {None}]
           /\ \A j \in Task : pc'[j] \in {"store", "webhook"} => result'[j] \in Verdict
  BY TimeAssumption DEF TypeOK, Release, Pc

LEMMA SetResultType ==
    ASSUME TypeOK, NEW t \in Token, NEW v \in Verdict, SetResult(t, v)
    PROVE  /\ status' \in [Token -> Status]
           /\ finished_at' \in [Token -> Age]
           /\ stdout' \in [Token -> Verdict \cup {None}]
  BY TimeAssumption DEF TypeOK, SetResult, Status, Terminal, Age

LEMMA SetFailureType ==
    ASSUME TypeOK, NEW t \in Token, SetFailure(t)
    PROVE  /\ status' \in [Token -> Status]
           /\ finished_at' \in [Token -> Age]
           /\ stdout' \in [Token -> Verdict \cup {None}]
  BY TimeAssumption DEF TypeOK, SetFailure, Status, Terminal, Age

LEMMA SetCallbackType ==
    ASSUME TypeOK, NEW t \in Token, NEW s \in {"delivered", "failed_after_retries"},
           SetCallback(t, s)
    PROVE  /\ callback_status' \in [Token -> {None, "delivered", "failed_after_retries"}]
           /\ faults' \in 0 .. MaxFaults
  BY BoundAssumption DEF TypeOK, SetCallback

LEMMA NextType == TypeOK /\ [Next]_vars => TypeOK'
  <1> SUFFICES ASSUME TypeOK, [Next]_vars PROVE TypeOK'
    OBVIOUS
  <1> USE DEF rowVars, taskVars, books
  <1>1. ASSUME NEW t \in Token, insert_submission(t) PROVE TypeOK'
    BY <1>1, InsertedCount DEF insert_submission, TypeOK, Status, Pending
  <1>2. ASSUME NEW k \in Task, NEW t \in Token, claim_next(k, t) PROVE TypeOK'
    BY <1>2, TimeAssumption, BoundAssumption
       DEF claim_next, TypeOK, Status, Pending, Age, Pc
  <1>3. ASSUME NEW k \in Task, admit(k) PROVE TypeOK'
    BY <1>3 DEF admit, TypeOK, Pc
  <1>4. ASSUME NEW k \in Task, Execute(k) PROVE TypeOK'
    BY <1>4 DEF Execute, TypeOK, Pc
  <1>5. ASSUME NEW k \in Task, write_result(k) PROVE TypeOK'
    <2>1. claim[k] \in Token /\ result[k] \in Verdict
      BY <1>5 DEF write_result, TypeOK
    <2>2. /\ status' \in [Token -> Status]
          /\ finished_at' \in [Token -> Age]
          /\ stdout' \in [Token -> Verdict \cup {None}]
      BY <1>5, <2>1, SetResultType DEF write_result, TypeOK
    <2>3. /\ pc' \in [Task -> Pc]
          /\ claim' \in [Task -> Token \cup {None}]
          /\ \A j \in Task : pc'[j] # "idle" => claim'[j] \in Token
          /\ age' \in [Task -> 0 .. MaxAge]
          /\ tries' \in [Task -> Nat]
          /\ result' \in [Task -> Verdict \cup {None}]
          /\ \A j \in Task : pc'[j] \in {"store", "webhook"} => result'[j] \in Verdict
      <3>1. CASE Release(k)
        BY <3>1, ReleaseType
      <3>2. CASE ~Release(k)
        BY <1>5, <2>1, <3>2 DEF write_result, TypeOK, Pc
      <3> QED BY <3>1, <3>2
    <2>4. faults' \in 0 .. MaxFaults /\ unsure' \subseteq Token
      BY <1>5, <2>1, BoundAssumption DEF write_result, TypeOK
    <2> QED BY <1>5, <2>2, <2>3, <2>4 DEF write_result, TypeOK
  <1>6. ASSUME NEW k \in Task, write_sandbox_failure(k) PROVE TypeOK'
    <2>1. claim[k] \in Token
      BY <1>6 DEF write_sandbox_failure, TypeOK
    <2>2. /\ status' \in [Token -> Status]
          /\ finished_at' \in [Token -> Age]
          /\ stdout' \in [Token -> Verdict \cup {None}]
      BY <1>6, <2>1, SetFailureType DEF write_sandbox_failure, TypeOK
    <2>3. faults' \in 0 .. MaxFaults
      BY <1>6, BoundAssumption DEF write_sandbox_failure, TypeOK
    <2> QED BY <1>6, <2>2, <2>3, ReleaseType DEF write_sandbox_failure, TypeOK
  <1>7. ASSUME NEW k \in Task, deliver(k) PROVE TypeOK'
    <2>1. claim[k] \in Token
      BY <1>7 DEF deliver, TypeOK
    <2>2. /\ callback_status' \in [Token -> {None, "delivered", "failed_after_retries"}]
          /\ faults' \in 0 .. MaxFaults
      BY <1>7, <2>1, SetCallbackType DEF deliver, TypeOK
    <2>3. received' \subseteq Token
      BY <1>7, <2>1 DEF deliver, TypeOK
    <2>4. CASE Release(k)
      BY <1>7, <2>2, <2>3, <2>4, ReleaseType DEF deliver, TypeOK
    <2>5. CASE ~Release(k)
      BY <1>7, <2>2, <2>3, <2>5 DEF deliver, TypeOK
    <2> QED BY <2>4, <2>5
  <1>8. ASSUME NEW S, Lose(S) PROVE TypeOK'
    BY <1>8, TimeAssumption, BoundAssumption DEF Lose, TypeOK, Pc
  <1>9. CASE sweep_stale
    BY <1>9 DEF sweep_stale, Stale, TypeOK, Status, Pending, Age
  <1>10. CASE scrub_payloads
    BY <1>10 DEF scrub_payloads, TypeOK
  <1>11. CASE expire_old_rows
    BY <1>11 DEF expire_old_rows, TypeOK, Status, NoRow, Age
  <1>12. CASE Tick
    <2>1. /\ claimed_at' \in [Token -> Age]
          /\ finished_at' \in [Token -> Age]
      BY <1>12, Older1Type DEF Tick, TypeOK, Age
    <2>2. age' \in [Task -> 0 .. MaxAge]
      BY <1>12, Older1Type, TimeAssumption DEF Tick, TypeOK, Age, Null
    <2> QED BY <1>12, <2>1, <2>2 DEF Tick, TypeOK
  <1>13. CASE UNCHANGED vars
    BY <1>13 DEF vars, TypeOK
  <1> QED
    BY <1>1, <1>2, <1>3, <1>4, <1>5, <1>6, <1>7, <1>8, <1>9, <1>10, <1>11,
       <1>12, <1>13 DEF Next, Crash, Panic, TaskStep

\* Every reachable state of the table and the tasks is well formed: in
\* particular a task past its claim always knows its token, and a task that
\* stores or reports a result always has one.
THEOREM TypeCorrect == Spec => []TypeOK
  BY InitType, NextType, PTL DEF Spec

-----------------------------------------------------------------------------
(* The inductive invariant.                                                *)

\* A task works on a row that was inserted.
ClaimKnown == \A k \in Task : pc[k] # "idle" => status[claim[k]] # "absent"

\* A task that reports a result has stored it.
ReportsStored ==
    \A k \in Task : pc[k] = "webhook" => status[claim[k]] \in Terminal \cup {"deleted"}

RowInv == FinishedIffTerminal /\ PendingHasSource
TaskInv == ClaimKnown /\ ReportsStored
LeaseInv == LeaseHeld /\ LeaseExclusive
WebhookInv == WebhookAfterAnswer /\ DeliveredIsTrue

\* The statuses are pairwise different.
LEMMA StatusesDiffer ==
    /\ "absent" \notin Terminal /\ "deleted" \notin Terminal
    /\ "queued" \notin Terminal /\ "processing" \notin Terminal
    /\ \A v \in Verdict : v \notin NoRow /\ v \notin Pending
    /\ None # "delivered"
  BY SetsAssumption DEF Terminal, NoRow, Pending

\* What any step does to one row, as seen by everything that refers to it: a
\* row is only ever created, answered, erased, or moved between the pending
\* statuses, and an answered row is never pending again.
LEMMA RowMoves ==
    ASSUME TypeOK, [Next]_vars, NEW t \in Token
    PROVE  /\ status[t] \in Terminal => status'[t] \in Terminal \cup {"deleted"}
           /\ status[t] = "deleted" => status'[t] = "deleted"
           /\ status[t] # "absent" => status'[t] # "absent"
  <1> USE DEF rowVars, taskVars, books
  <1>0. status[t] \in Status
    BY DEF TypeOK
  <1>1. ASSUME NEW u \in Token, insert_submission(u) PROVE status[t] = "absent" \/ status'[t] = status[t]
    BY <1>1 DEF insert_submission, TypeOK
  <1>2. ASSUME NEW k \in Task, NEW u \in Token, claim_next(k, u)
        PROVE  \/ status'[t] = status[t]
               \/ status[t] = "queued" /\ status'[t] = "processing"
    BY <1>2 DEF claim_next, Claimable, TypeOK
  <1>3. ASSUME NEW k \in Task, TaskStep(k)
        PROVE  \/ status'[t] = status[t]
               \/ status[t] \notin NoRow /\ status'[t] \in Terminal
    <2>1. CASE admit(k) \/ Execute(k) \/ deliver(k)
      BY <2>1 DEF admit, Execute, deliver
    <2>2. CASE write_result(k)
      BY <2>2 DEF write_result, SetResult, TypeOK, Terminal
    <2>3. CASE write_sandbox_failure(k)
      BY <2>3 DEF write_sandbox_failure, SetFailure, TypeOK, Terminal
    <2> QED BY <1>3, <2>1, <2>2, <2>3 DEF TaskStep
  <1>4. ASSUME NEW S, Lose(S) PROVE status'[t] = status[t]
    BY <1>4 DEF Lose
  <1>5. CASE sweep_stale
    BY <1>5, StatusesDiffer DEF sweep_stale, Stale, TypeOK
  <1>6. CASE scrub_payloads \/ Tick \/ UNCHANGED vars
    BY <1>6 DEF scrub_payloads, Tick, vars
  <1>7. CASE expire_old_rows
    BY <1>7 DEF expire_old_rows, Older, NoRow, TypeOK
  <1> QED
    BY <1>1, <1>2, <1>3, <1>4, <1>5, <1>6, <1>7, StatusesDiffer DEF Next, Crash, Panic, NoRow

LEMMA RowInvStep == TypeOK /\ RowInv /\ [Next]_vars => RowInv'
  <1> SUFFICES ASSUME TypeOK, RowInv, [Next]_vars PROVE RowInv'
    OBVIOUS
  <1> USE StatusesDiffer DEF rowVars, taskVars, books, RowInv, FinishedIffTerminal, PendingHasSource
  <1>1. ASSUME NEW t \in Token, insert_submission(t) PROVE RowInv'
    BY <1>1 DEF insert_submission, TypeOK, Pending
  <1>2. ASSUME NEW k \in Task, NEW t \in Token, claim_next(k, t) PROVE RowInv'
    BY <1>2 DEF claim_next, Claimable, TypeOK, Pending
  <1>3. ASSUME NEW k \in Task, admit(k) \/ Execute(k) \/ deliver(k) PROVE RowInv'
    BY <1>3 DEF admit, Execute, deliver
  <1>4. ASSUME NEW k \in Task, write_result(k) PROVE RowInv'
    <2>1. claim[k] \in Token /\ result[k] \in Verdict
      BY <1>4 DEF write_result, TypeOK
    <2>2. CASE SetResult(claim[k], result[k])
      BY <1>4, <2>1, <2>2 DEF write_result, SetResult, TypeOK, Terminal, Null
    <2>3. CASE UNCHANGED <<status, finished_at, stdout>>
      BY <1>4, <2>3 DEF write_result
    <2> QED BY <1>4, <2>2, <2>3 DEF write_result
  <1>5. ASSUME NEW k \in Task, write_sandbox_failure(k) PROVE RowInv'
    <2>1. claim[k] \in Token
      BY <1>5 DEF write_sandbox_failure, TypeOK
    <2>2. CASE SetFailure(claim[k])
      BY <1>5, <2>1, <2>2 DEF write_sandbox_failure, SetFailure, TypeOK, Terminal, Null, Pending
    <2>3. CASE UNCHANGED <<status, finished_at, stdout>>
      BY <1>5, <2>3 DEF write_sandbox_failure
    <2> QED BY <1>5, <2>2, <2>3 DEF write_sandbox_failure
  <1>6. ASSUME NEW S, Lose(S) PROVE RowInv'
    BY <1>6 DEF Lose
  <1>7. CASE sweep_stale
    BY <1>7 DEF sweep_stale, Stale, TypeOK, Pending
  <1>8. CASE scrub_payloads
    \* Only finished rows are scrubbed, and those are not pending.
    <2>1. \A t \in Older(PayloadTtl) : status[t] \in Terminal
      BY TimeAssumption DEF Older, Null
    <2> QED BY <1>8, <2>1 DEF scrub_payloads, TypeOK, Pending
  <1>9. CASE expire_old_rows
    BY <1>9 DEF expire_old_rows, Older, TypeOK, Pending
  <1>10. CASE Tick
    <2>1. \A t \in Token : finished_at'[t] = Null <=> finished_at[t] = Null
      BY <1>10, Older1Type DEF Tick, TypeOK, Null
    <2> QED BY <1>10, <2>1 DEF Tick
  <1>11. CASE UNCHANGED vars
    BY <1>11 DEF vars
  <1> QED
    BY <1>1, <1>2, <1>3, <1>4, <1>5, <1>6, <1>7, <1>8, <1>9, <1>10, <1>11
       DEF Next, Crash, Panic, TaskStep

\* Which tasks are busy, and on what, after a step: a busy task either was
\* busy on the same row, or has just claimed it.
LEMMA TaskMoves ==
    ASSUME TypeOK, [Next]_vars, NEW k \in Task, pc'[k] # "idle"
    PROVE  \/ /\ pc[k] # "idle" /\ claim'[k] = claim[k]
              /\ age'[k] = age[k] \/ Tick
           \/ /\ pc[k] = "idle" /\ pc'[k] = "admit" /\ age'[k] = 0
              /\ claim'[k] \in Token /\ claim_next(k, claim'[k])
  <1> USE DEF rowVars, taskVars, books
  <1>1. ASSUME NEW j \in Task, NEW t \in Token, claim_next(j, t)
        PROVE  \/ pc[k] # "idle" /\ claim'[k] = claim[k] /\ age'[k] = age[k]
               \/ /\ pc[k] = "idle" /\ pc'[k] = "admit" /\ age'[k] = 0
                  /\ claim'[k] \in Token /\ claim_next(k, claim'[k])
    <2>1. CASE j = k
      BY <1>1, <2>1 DEF claim_next, TypeOK
    <2>2. CASE j # k
      BY <1>1, <2>2 DEF claim_next, TypeOK
    <2> QED BY <2>1, <2>2
  <1>2. ASSUME NEW j \in Task, TaskStep(j)
        PROVE  pc[k] # "idle" /\ claim'[k] = claim[k] /\ age'[k] = age[k]
    BY <1>2 DEF TaskStep, admit, Execute, write_result, write_sandbox_failure,
                deliver, Release, TypeOK
  <1>3. ASSUME NEW S, Lose(S)
        PROVE  pc[k] # "idle" /\ claim'[k] = claim[k] /\ age'[k] = age[k]
    BY <1>3 DEF Lose, TypeOK
  <1>4. ASSUME NEW t \in Token, insert_submission(t)
        PROVE  pc[k] # "idle" /\ claim'[k] = claim[k] /\ age'[k] = age[k]
    BY <1>4 DEF insert_submission
  <1>5. CASE sweep_stale \/ scrub_payloads \/ expire_old_rows \/ UNCHANGED vars
    BY <1>5 DEF sweep_stale, scrub_payloads, expire_old_rows, vars
  <1>6. CASE Tick
    BY <1>6 DEF Tick
  <1> QED BY <1>1, <1>2, <1>3, <1>4, <1>5, <1>6 DEF Next, Crash, Panic

LEMMA TaskInvStep == TypeOK /\ TaskInv /\ [Next]_vars => TaskInv'
  <1> SUFFICES ASSUME TypeOK, TaskInv, [Next]_vars PROVE TaskInv'
    OBVIOUS
  <1>1. ClaimKnown'
    <2> SUFFICES ASSUME NEW k \in Task, pc'[k] # "idle"
                 PROVE  status'[claim'[k]] # "absent"
      BY DEF ClaimKnown
    <2>1. CASE pc[k] # "idle" /\ claim'[k] = claim[k]
      BY <2>1, RowMoves DEF TaskInv, ClaimKnown, TypeOK
    <2>2. CASE claim'[k] \in Token /\ claim_next(k, claim'[k])
      BY <2>2 DEF claim_next, TypeOK
    <2> QED BY <2>1, <2>2, TaskMoves
  <1>2. ReportsStored'
    <2> SUFFICES ASSUME NEW k \in Task, pc'[k] = "webhook"
                 PROVE  status'[claim'[k]] \in Terminal \cup {"deleted"}
      BY DEF ReportsStored
    <2>1. pc[k] # "idle" /\ claim'[k] = claim[k] /\ claim[k] \in Token
      BY TaskMoves DEF TypeOK
    <2>2. CASE pc[k] = "webhook"
      BY <2>1, <2>2, RowMoves DEF TaskInv, ReportsStored
    <2>3. CASE pc[k] # "webhook"
      <3>1. write_result(k) /\ SetResult(claim[k], result[k])
        <4>1. ASSUME NEW j \in Task, TaskStep(j)
              PROVE  j = k /\ write_result(k) /\ SetResult(claim[k], result[k])
          BY <2>1, <2>3, <4>1
             DEF TaskStep, admit, Execute, write_result, write_sandbox_failure,
                 deliver, Release, TypeOK, rowVars, taskVars, books
        <4>2. ASSUME NEW j \in Task, NEW t \in Token, claim_next(j, t) PROVE FALSE
          BY <2>1, <2>3, <4>2 DEF claim_next, TypeOK
        <4>3. ASSUME NEW S, Lose(S) PROVE FALSE
          BY <2>1, <2>3, <4>3 DEF Lose, TypeOK
        <4>4. ASSUME NEW t \in Token, insert_submission(t) PROVE FALSE
          BY <2>3, <4>4 DEF insert_submission, taskVars
        <4>5. ~(sweep_stale \/ scrub_payloads \/ expire_old_rows \/ Tick
                  \/ UNCHANGED vars)
          BY <2>3 DEF sweep_stale, scrub_payloads, expire_old_rows, Tick, vars,
                      taskVars
        <4> QED BY <4>1, <4>2, <4>3, <4>4, <4>5 DEF Next, Crash, Panic
      <3>2. status[claim[k]] # "absent" /\ result[k] \in Verdict
        BY <2>1, <3>1 DEF TaskInv, ClaimKnown, TypeOK, write_result
      <3> QED
        BY <2>1, <3>1, <3>2 DEF SetResult, NoRow, Terminal, TypeOK
    <2> QED BY <2>2, <2>3
  <1> QED BY <1>1, <1>2 DEF TaskInv

\* While its lease runs, a claimed row keeps its claim until it is answered:
\* the sweeper, a second claim and retention all pass it by.
LEMMA LeasedRowMoves ==
    ASSUME TypeOK, RowInv, [Next]_vars, NEW t \in Token,
           status[t] = "processing", claimed_at[t] <= SweepAfter(t)
    PROVE  \/ status'[t] \in Terminal
           \/ /\ status'[t] = "processing"
              /\ claimed_at'[t] = IF Tick THEN Older1(claimed_at[t]) ELSE claimed_at[t]
  <1> USE DEF rowVars, taskVars, books
  <1>1. ASSUME NEW u \in Token, insert_submission(u)
        PROVE  status'[t] = "processing" /\ claimed_at'[t] = claimed_at[t]
    BY <1>1 DEF insert_submission, TypeOK
  <1>2. ASSUME NEW k \in Task, NEW u \in Token, claim_next(k, u)
        PROVE  status'[t] = "processing" /\ claimed_at'[t] = claimed_at[t]
    BY <1>2 DEF claim_next, Claimable, TypeOK
  <1>3. ASSUME NEW k \in Task, TaskStep(k)
        PROVE  /\ claimed_at'[t] = claimed_at[t]
               /\ status'[t] = "processing" \/ status'[t] \in Terminal
    <2>1. CASE admit(k) \/ Execute(k) \/ deliver(k)
      BY <2>1 DEF admit, Execute, deliver
    <2>2. CASE write_result(k)
      BY <2>2 DEF write_result, SetResult, TypeOK, Terminal
    <2>3. CASE write_sandbox_failure(k)
      BY <2>3 DEF write_sandbox_failure, SetFailure, TypeOK, Terminal
    <2> QED BY <1>3, <2>1, <2>2, <2>3 DEF TaskStep
  <1>4. ASSUME NEW S, Lose(S)
        PROVE  status'[t] = "processing" /\ claimed_at'[t] = claimed_at[t]
    BY <1>4 DEF Lose
  <1>5. CASE sweep_stale
    <2>1. t \notin Stale
      BY TimeAssumption DEF Stale, SweepAfter, TypeOK, Age, Null
    <2>2. status'[t] = "processing" /\ claimed_at'[t] = claimed_at[t]
      BY <1>5, <2>1 DEF sweep_stale
    <2>3. ~Tick \/ Older1(claimed_at[t]) = claimed_at[t]
      BY <2>2 DEF Tick, TypeOK
    <2> QED BY <2>2, <2>3
  <1>6. CASE scrub_payloads \/ UNCHANGED vars
    <2>1. status'[t] = "processing" /\ claimed_at'[t] = claimed_at[t]
      BY <1>6 DEF scrub_payloads, vars
    <2>2. ~Tick \/ Older1(claimed_at[t]) = claimed_at[t]
      BY <2>1 DEF Tick, TypeOK
    <2> QED BY <2>1, <2>2
  <1>7. CASE expire_old_rows
    <2>1. t \notin Older(RowTtl)
      BY StatusesDiffer, TimeAssumption DEF Older, RowInv, FinishedIffTerminal, Null
    <2>2. status'[t] = "processing" /\ claimed_at'[t] = claimed_at[t]
      BY <1>7, <2>1 DEF expire_old_rows, TypeOK
    <2>3. ~Tick \/ Older1(claimed_at[t]) = claimed_at[t]
      BY <2>2 DEF Tick, TypeOK
    <2> QED BY <2>2, <2>3
  <1>8. CASE Tick
    BY <1>8 DEF Tick, TypeOK
  <1>9. claimed_at'[t] = claimed_at[t] /\ status'[t] = "processing"
          => ~Tick \/ Older1(claimed_at[t]) = claimed_at[t]
    BY DEF Tick, TypeOK
  <1> QED
    BY <1>1, <1>2, <1>3, <1>4, <1>5, <1>6, <1>7, <1>8, <1>9 DEF Next, Crash, Panic

LEMMA LeaseInvStep ==
    TypeOK /\ RowInv /\ TaskInv /\ LeaseInv /\ [Next]_vars => LeaseInv'
  <1> SUFFICES ASSUME TypeOK, RowInv, TaskInv, LeaseInv, [Next]_vars
               PROVE  LeaseInv'
    OBVIOUS
  <1>0. \A t \in Token : SweepAfter(t) \in Nat /\ SweepAfter(t) < MaxAge
    BY TimeAssumption DEF SweepAfter
  <1>1. ASSUME NEW k \in Task, pc[k] # "idle", claim'[k] = claim[k],
               age'[k] = age[k] \/ Tick
        PROVE  /\ claim[k] \in Token
               /\ age[k] > SweepAfter(claim[k]) => age'[k] > SweepAfter(claim[k])
    BY <1>0, <1>1, TimeAssumption DEF Tick, Older1, TypeOK
  <1>2. LeaseHeld'
    <2> SUFFICES ASSUME NEW k \in Task, pc'[k] # "idle",
                        age'[k] <= SweepAfter(claim'[k])
                 PROVE  \/ /\ status'[claim'[k]] = "processing"
                           /\ claimed_at'[claim'[k]] = age'[k]
                        \/ status'[claim'[k]] \in Terminal \cup {"deleted"}
      BY DEF LeaseHeld, SweepAfter
    <2>1. CASE pc[k] # "idle" /\ claim'[k] = claim[k] /\ (age'[k] = age[k] \/ Tick)
      <3> DEFINE t == claim[k]
      <3>1. t \in Token /\ age[k] <= SweepAfter(t)
        <4>1. age[k] \in Nat /\ age'[k] \in Nat
          BY NextType, TimeAssumption DEF TypeOK
        <4> QED BY <1>0, <1>1, <2>1, <4>1
      <3>2. CASE status[t] \in Terminal \cup {"deleted"}
        BY <2>1, <3>1, <3>2, RowMoves
      <3>3. CASE status[t] = "processing" /\ claimed_at[t] = age[k]
        <4>1. claimed_at[t] <= SweepAfter(t)
          BY <3>1, <3>3
        <4>2. \/ status'[t] \in Terminal
              \/ /\ status'[t] = "processing"
                 /\ claimed_at'[t] = IF Tick THEN Older1(claimed_at[t])
                                     ELSE claimed_at[t]
          BY <3>1, <3>3, <4>1, LeasedRowMoves
        <4>3. age'[k] = IF Tick THEN Older1(age[k]) ELSE age[k]
          BY <2>1 DEF Tick, TypeOK
        <4> QED BY <2>1, <3>3, <4>2, <4>3
      <3> QED
        BY <2>1, <3>1, <3>2, <3>3 DEF LeaseInv, LeaseHeld
    <2>2. CASE claim'[k] \in Token /\ claim_next(k, claim'[k]) /\ age'[k] = 0
      BY <2>2 DEF claim_next, TypeOK
    <2> QED BY <2>1, <2>2, TaskMoves
  <1>3. LeaseExclusive'
    <2> SUFFICES ASSUME NEW j \in Task, NEW k \in Task, j # k,
                        pc'[j] # "idle", pc'[k] # "idle", claim'[j] = claim'[k]
                 PROVE  \/ age'[j] > SweepAfter(claim'[j])
                        \/ age'[k] > SweepAfter(claim'[k])
      BY DEF LeaseExclusive, SweepAfter
    <2>1. ASSUME NEW a \in Task, NEW b \in Task, a # b, claim'[a] = claim'[b],
                 pc[b] # "idle", claim'[b] = claim[b],
                 claim'[a] \in Token, claim_next(a, claim'[a])
          PROVE  age'[b] > SweepAfter(claim'[b])
      \* A row can be claimed again only when the older lease is over.
      <3>1. status[claim[b]] = "queued" /\ claim[b] \in Token
        BY <2>1 DEF claim_next, Claimable
      <3>2. age[b] > SweepAfter(claim[b])
        BY <1>0, <2>1, <3>1, StatusesDiffer DEF LeaseInv, LeaseHeld, TypeOK
      <3>3. age'[b] = age[b]
        BY <2>1 DEF claim_next, TypeOK
      <3> QED BY <2>1, <3>2, <3>3
    <2>2. ASSUME NEW a \in Task, NEW b \in Task, a # b,
                 pc[a] = "idle", pc'[a] = "admit", pc[b] = "idle", pc'[b] = "admit",
                 claim'[a] \in Token, claim_next(a, claim'[a])
          PROVE  FALSE
      BY <2>2 DEF claim_next, TypeOK
    <2>3. CASE /\ pc[j] # "idle" /\ claim'[j] = claim[j] /\ (age'[j] = age[j] \/ Tick)
               /\ pc[k] # "idle" /\ claim'[k] = claim[k] /\ (age'[k] = age[k] \/ Tick)
      BY <1>1, <2>3 DEF LeaseInv, LeaseExclusive
    <2> QED BY <2>1, <2>2, <2>3, TaskMoves
  <1> QED BY <1>2, <1>3 DEF LeaseInv

LEMMA WebhookInvStep ==
    TypeOK /\ TaskInv /\ WebhookInv /\ [Next]_vars => WebhookInv'
  <1> SUFFICES ASSUME TypeOK, TaskInv, WebhookInv, [Next]_vars PROVE WebhookInv'
    OBVIOUS
  <1> USE DEF rowVars, taskVars, books
  <1>1. ASSUME NEW k \in Task, deliver(k) PROVE WebhookInv'
    <2>1. claim[k] \in Token /\ status[claim[k]] \in Terminal \cup {"deleted"}
      BY <1>1 DEF deliver, TypeOK, TaskInv, ReportsStored
    <2>2. status' = status /\ received \subseteq received'
            /\ received' \subseteq received \cup {claim[k]}
      BY <1>1 DEF deliver
    <2>3. WebhookAfterAnswer'
      BY <2>1, <2>2 DEF WebhookInv, WebhookAfterAnswer
    <2>4. \A t \in Token : callback_status'[t] = "delivered" =>
                callback_status[t] = "delivered" \/ t \in received'
      BY <1>1, <2>1 DEF deliver, SetCallback, TypeOK
    <2>5. DeliveredIsTrue'
      BY <2>2, <2>4 DEF WebhookInv, DeliveredIsTrue
    <2> QED BY <2>3, <2>5 DEF WebhookInv
  <1>2. ASSUME received' = received,
               \A t \in Token : callback_status'[t] \in {callback_status[t], None}
        PROVE  WebhookInv'
    BY <1>2, RowMoves, StatusesDiffer
       DEF WebhookInv, WebhookAfterAnswer, DeliveredIsTrue, TypeOK
  <1>3. ASSUME NEW t \in Token, insert_submission(t) PROVE WebhookInv'
    BY <1>2, <1>3 DEF insert_submission
  <1>4. ASSUME NEW k \in Task, NEW t \in Token, claim_next(k, t) PROVE WebhookInv'
    BY <1>2, <1>4 DEF claim_next
  <1>5. ASSUME NEW k \in Task,
               admit(k) \/ Execute(k) \/ write_result(k) \/ write_sandbox_failure(k)
        PROVE  WebhookInv'
    BY <1>2, <1>5 DEF admit, Execute, write_result, write_sandbox_failure
  <1>6. ASSUME NEW S, Lose(S) PROVE WebhookInv'
    BY <1>2, <1>6 DEF Lose
  <1>7. CASE sweep_stale \/ scrub_payloads \/ Tick \/ UNCHANGED vars
    BY <1>2, <1>7 DEF sweep_stale, scrub_payloads, Tick, vars
  <1>8. CASE expire_old_rows
    BY <1>2, <1>8 DEF expire_old_rows
  <1> QED
    BY <1>1, <1>3, <1>4, <1>5, <1>6, <1>7, <1>8 DEF Next, Crash, Panic, TaskStep

-----------------------------------------------------------------------------
(* A submission that was never swept is executed once.                     *)

\* It is claimed by one task at a time,
SoleTask ==
    \A j, k \in Task :
        j # k /\ pc[j] # "idle" /\ pc[k] # "idle" /\ claim[j] = claim[k] => claim[k] \in swept

\* and nobody else answers it before that task does.
SoleAnswer ==
    \A k \in Task :
        pc[k] \in {"admit", "exec", "store", "fail"} /\ claim[k] \notin swept =>
            \/ status[claim[k]] = "processing"
            \/ pc[k] = "fail" /\ claim[k] \in unsure /\ status[claim[k]] # "queued"

AnswerInv == SoleTask /\ SoleAnswer

\* A row goes back to the queue only through the sweeper, which keeps its books.
LEMMA QueuedAgain ==
    ASSUME TypeOK, [Next]_vars, NEW t \in Token
    PROVE  /\ swept \subseteq swept' /\ unsure \subseteq unsure'
           /\ status[t] \notin {"absent", "queued"} /\ status'[t] = "queued" => t \in swept'
  <1> USE StatusesDiffer DEF rowVars, taskVars, books
  <1>1. ASSUME NEW u \in Token, insert_submission(u)
        PROVE  UNCHANGED books /\ (status[t] = "absent" \/ status'[t] = status[t])
    BY <1>1 DEF insert_submission, TypeOK
  <1>2. ASSUME NEW k \in Task, NEW u \in Token, claim_next(k, u)
        PROVE  UNCHANGED books /\ (status'[t] = status[t] \/ status'[t] = "processing")
    BY <1>2 DEF claim_next, TypeOK
  <1>3. ASSUME NEW k \in Task, TaskStep(k)
        PROVE  /\ swept \subseteq swept' /\ unsure \subseteq unsure'
               /\ status'[t] = status[t] \/ status'[t] \in Terminal
    <2>1. CASE admit(k) \/ Execute(k) \/ deliver(k)
      BY <2>1 DEF admit, Execute, deliver
    <2>2. CASE write_result(k)
      BY <2>2 DEF write_result, SetResult, TypeOK, Terminal
    <2>3. CASE write_sandbox_failure(k)
      BY <2>3 DEF write_sandbox_failure, SetFailure, TypeOK, Terminal
    <2> QED BY <1>3, <2>1, <2>2, <2>3 DEF TaskStep
  <1>4. ASSUME NEW S, Lose(S) PROVE UNCHANGED <<books, status>>
    BY <1>4 DEF Lose
  <1>5. CASE sweep_stale
    BY <1>5 DEF sweep_stale
  <1>6. CASE scrub_payloads \/ Tick \/ UNCHANGED vars
    BY <1>6 DEF scrub_payloads, Tick, vars
  <1>7. CASE expire_old_rows
    BY <1>7 DEF expire_old_rows, TypeOK
  <1> QED BY <1>1, <1>2, <1>3, <1>4, <1>5, <1>6, <1>7 DEF Next, Crash, Panic

\* What a step may do to a row whose one task k has not answered it.
LEMMA SoleMoves ==
    ASSUME TypeOK, RowInv, SoleTask, [Next]_vars, NEW k \in Task, pc[k] # "idle", pc'[k] # "idle",
           claim[k] \notin swept', claim[k] \notin swept, status[claim[k]] = "processing"
    PROVE  \/ status'[claim[k]] = "processing"
           \/ pc'[k] = "webhook"
           \/ pc'[k] = "fail" /\ claim[k] \in unsure' /\ status'[claim[k]] # "queued"
  <1> USE StatusesDiffer DEF rowVars, taskVars, books
  <1> DEFINE t == claim[k]
  <1>0. t \in Token
    BY DEF TypeOK
  <1>1. ASSUME NEW u \in Token, insert_submission(u) PROVE status'[t] = "processing"
    BY <1>1 DEF insert_submission, TypeOK
  <1>2. ASSUME NEW j \in Task, NEW u \in Token, claim_next(j, u) PROVE status'[t] = "processing"
    BY <1>0, <1>2 DEF claim_next, TypeOK
  <1>3. ASSUME NEW j \in Task, TaskStep(j), j # k PROVE status'[t] = "processing"
    <2>1. pc[j] # "idle" /\ claim[j] \in Token
      BY <1>3 DEF TaskStep, admit, Execute, write_result, write_sandbox_failure, deliver, TypeOK
    <2>2. claim[j] # t
      BY <1>3, <2>1 DEF SoleTask
    <2>3. CASE admit(j) \/ Execute(j) \/ deliver(j)
      BY <2>3 DEF admit, Execute, deliver
    <2>4. CASE write_result(j)
      BY <1>0, <2>1, <2>2, <2>4 DEF write_result, SetResult, TypeOK
    <2>5. CASE write_sandbox_failure(j)
      BY <1>0, <2>1, <2>2, <2>5 DEF write_sandbox_failure, SetFailure, TypeOK
    <2> QED BY <1>3, <2>3, <2>4, <2>5 DEF TaskStep
  <1>4. CASE TaskStep(k)
    <2>1. CASE admit(k) \/ Execute(k) \/ deliver(k)
      BY <2>1 DEF admit, Execute, deliver
    <2>2. CASE write_result(k)
      <3>1. result[k] \in Verdict
        BY <2>2 DEF write_result, TypeOK
      <3>2. pc'[k] \in {"idle", "webhook", "fail"}
        BY <2>2 DEF write_result, Release, TypeOK
      <3>3. pc'[k] = "fail" => t \in unsure'
        BY <2>2 DEF write_result, Release, TypeOK
      <3>4. status'[t] \in {"processing", result[k]}
        BY <1>0, <2>2 DEF write_result, SetResult, TypeOK
      <3> QED BY <3>1, <3>2, <3>3, <3>4 DEF Pending
    <2>3. CASE write_sandbox_failure(k)
      BY <2>3 DEF write_sandbox_failure, Release, TypeOK
    <2> QED BY <1>4, <2>1, <2>2, <2>3 DEF TaskStep
  <1>5. ASSUME NEW S, Lose(S) PROVE status'[t] = "processing"
    BY <1>5 DEF Lose
  <1>6. CASE sweep_stale
    BY <1>0, <1>6 DEF sweep_stale
  <1>7. CASE scrub_payloads \/ Tick \/ UNCHANGED vars
    BY <1>7 DEF scrub_payloads, Tick, vars
  <1>8. CASE expire_old_rows
    <2>1. t \notin Older(RowTtl)
      BY <1>0, TimeAssumption DEF Older, RowInv, FinishedIffTerminal, Null
    <2> QED BY <1>0, <1>8, <2>1 DEF expire_old_rows, TypeOK
  <1> QED BY <1>1, <1>2, <1>3, <1>4, <1>5, <1>6, <1>7, <1>8 DEF Next, Crash, Panic

\* No task goes back to work after its failure or its webhook.
LEMMA NoWayBack ==
    ASSUME TypeOK, [Next]_vars, NEW k \in Task, pc'[k] # "idle"
    PROVE  /\ pc[k] = "webhook" => pc'[k] = "webhook"
           /\ pc[k] = "fail" => pc'[k] = "fail"
  <1> USE DEF rowVars, taskVars
  <1>1. ASSUME NEW j \in Task, NEW t \in Token, claim_next(j, t) PROVE pc[k] = "idle" \/ pc'[k] = pc[k]
    BY <1>1 DEF claim_next, TypeOK
  <1>2. ASSUME NEW j \in Task, TaskStep(j), pc[k] \in {"webhook", "fail"} PROVE pc'[k] = pc[k]
    BY <1>2 DEF TaskStep, admit, Execute, write_result, write_sandbox_failure, deliver, Release, TypeOK
  <1>3. ASSUME NEW S, Lose(S) PROVE pc'[k] = pc[k]
    BY <1>3 DEF Lose, TypeOK
  <1>4. ASSUME NEW t \in Token, insert_submission(t) PROVE pc'[k] = pc[k]
    BY <1>4 DEF insert_submission
  <1>5. CASE sweep_stale \/ scrub_payloads \/ expire_old_rows \/ Tick \/ UNCHANGED vars
    BY <1>5 DEF sweep_stale, scrub_payloads, expire_old_rows, Tick, vars
  <1> QED BY <1>1, <1>2, <1>3, <1>4, <1>5 DEF Next, Crash, Panic

LEMMA AnswerInvStep ==
    TypeOK /\ RowInv /\ TaskInv /\ AnswerInv /\ [Next]_vars => AnswerInv'
  <1> SUFFICES ASSUME TypeOK, RowInv, TaskInv, AnswerInv, [Next]_vars PROVE AnswerInv'
    OBVIOUS
  <1>0. /\ SoleTask /\ SoleAnswer
        /\ \A k \in Task : pc[k] # "idle" => claim[k] \in Token
        /\ \A k \in Task : pc[k] \in Pc
    BY DEF AnswerInv, TypeOK
  <1>1. ASSUME NEW k \in Task, pc[k] # "idle", claim[k] \notin swept PROVE status[claim[k]] # "queued"
    <2>1. CASE pc[k] = "webhook"
      BY <2>1, StatusesDiffer DEF TaskInv, ReportsStored
    <2>2. CASE pc[k] # "webhook"
      BY <1>0, <1>1, <2>2 DEF SoleAnswer, Pc
    <2> QED BY <2>1, <2>2
  <1>2. SoleTask'
    <2> SUFFICES ASSUME NEW j \in Task, NEW k \in Task, j # k, pc'[j] # "idle", pc'[k] # "idle",
                        claim'[j] = claim'[k]
                 PROVE  claim'[k] \in swept'
      BY DEF SoleTask
    <2>1. ASSUME NEW a \in Task, NEW b \in Task, a # b, claim'[a] = claim'[b], pc[b] # "idle",
                 claim'[b] = claim[b], claim'[a] \in Token, claim_next(a, claim'[a])
          PROVE  claim'[b] \in swept'
      <3>1. status[claim[b]] = "queued" /\ claim[b] \in Token
        BY <2>1 DEF claim_next, Claimable
      <3> QED BY <1>1, <2>1, <3>1, QueuedAgain
    <2>2. ASSUME NEW a \in Task, NEW b \in Task, a # b, pc[a] = "idle", pc'[a] = "admit",
                 pc[b] = "idle", pc'[b] = "admit", claim'[a] \in Token, claim_next(a, claim'[a])
          PROVE  FALSE
      BY <2>2 DEF claim_next, TypeOK
    <2>3. CASE pc[j] # "idle" /\ claim'[j] = claim[j] /\ pc[k] # "idle" /\ claim'[k] = claim[k]
      BY <1>0, <2>3, QueuedAgain DEF SoleTask
    <2> QED BY <2>1, <2>2, <2>3, TaskMoves
  <1>3. SoleAnswer'
    <2> SUFFICES ASSUME NEW k \in Task, pc'[k] \in {"admit", "exec", "store", "fail"},
                        claim'[k] \notin swept'
                 PROVE  \/ status'[claim'[k]] = "processing"
                        \/ pc'[k] = "fail" /\ claim'[k] \in unsure' /\ status'[claim'[k]] # "queued"
      BY DEF SoleAnswer
    <2>1. CASE pc[k] # "idle" /\ claim'[k] = claim[k]
      <3> DEFINE t == claim[k]
      <3>1. t \in Token /\ t \notin swept /\ pc[k] \in {"admit", "exec", "store", "fail"}
        <4>1. t \in Token
          BY <1>0, <2>1
        <4>2. t \notin swept
          BY <2>1, <4>1, QueuedAgain
        <4>3. pc[k] # "webhook"
          BY NoWayBack
        <4> QED BY <1>0, <2>1, <4>1, <4>2, <4>3 DEF Pc
      <3>2. CASE status[t] = "processing"
        BY <1>0, <2>1, <3>1, <3>2, SoleMoves
      <3>3. CASE pc[k] = "fail" /\ t \in unsure /\ status[t] # "queued"
        <4>1. pc'[k] = "fail"
          BY <3>3, NoWayBack
        <4>2. status[t] # "absent"
          BY <2>1 DEF TaskInv, ClaimKnown
        <4> QED BY <2>1, <3>1, <3>3, <4>1, <4>2, QueuedAgain
      <3> QED BY <1>0, <3>1, <3>2, <3>3 DEF SoleAnswer
    <2>2. CASE claim'[k] \in Token /\ claim_next(k, claim'[k])
      BY <2>2 DEF claim_next, TypeOK
    <2> QED BY <2>1, <2>2, TaskMoves
  <1> QED BY <1>2, <1>3 DEF AnswerInv

-----------------------------------------------------------------------------
(* Theorems.                                                               *)

Inv == TypeOK /\ RowInv /\ TaskInv /\ LeaseInv /\ WebhookInv /\ AnswerInv

LEMMA InitInv == Init => Inv
  BY InitType, StatusesDiffer
     DEF Init, Inv, RowInv, TaskInv, LeaseInv, WebhookInv, FinishedIffTerminal,
         PendingHasSource, ClaimKnown, ReportsStored, LeaseHeld, LeaseExclusive,
         WebhookAfterAnswer, DeliveredIsTrue, Pending, AnswerInv, SoleTask, SoleAnswer

\* The invariant the safety results rest on is inductive.
THEOREM Invariance == Spec => []Inv
  <1>1. Inv /\ [Next]_vars => Inv'
    BY NextType, RowInvStep, TaskInvStep, LeaseInvStep, WebhookInvStep, AnswerInvStep DEF Inv
  <1> QED BY InitInv, <1>1, PTL DEF Spec

\* finished_at is set exactly on the rows with a terminal status, and a
\* submission that can still run has its program, for any interleaving of late
\* writers, sweeps and retention.
THEOREM RowSoundHolds == Spec => []RowSound
  BY Invariance, PTL DEF Inv, RowInv, RowSound

\* Two tasks, of any workers, never work on one submission within the lease,
\* and a task within its lease owns its row or finds it answered.
THEOREM LeaseSafeHolds == Spec => []LeaseSafe
  BY Invariance, PTL DEF Inv, LeaseInv, LeaseSafe

\* A webhook is only ever received for an answered submission, and a callback
\* recorded as delivered was delivered.
THEOREM WebhookHonestHolds == Spec => []WebhookHonest
  BY Invariance, PTL DEF Inv, WebhookInv, WebhookHonest

\* A stored answer is only replaced by the other task of a submission that was swept, or
\* by the failure a task writes when its result was stored and reported as not stored
\* (write_result, write_sandbox_failure, sweep_stale).
THEOREM AnswerStandsHolds == Spec => AnswerStands
  <1> DEFINE A == \A t \in Token : status[t] \in Terminal =>
                    \/ status'[t] \in {status[t], "deleted"}
                    \/ t \in swept
                    \/ t \in unsure /\ status'[t] = "sandbox_failure"
  <1>1. Inv /\ [Next]_vars => [A]_vars
    <2> SUFFICES ASSUME Inv, Next, NEW t \in Token, status[t] \in Terminal
                 PROVE  \/ status'[t] \in {status[t], "deleted"}
                        \/ t \in swept
                        \/ t \in unsure /\ status'[t] = "sandbox_failure"
      OBVIOUS
    <2> USE StatusesDiffer DEF rowVars, taskVars
    <2>0. TypeOK /\ SoleAnswer
      BY DEF Inv, AnswerInv
    <2>1. ASSUME NEW u \in Token, insert_submission(u) PROVE status'[t] = status[t]
      BY <2>0, <2>1 DEF insert_submission, TypeOK
    <2>2. ASSUME NEW k \in Task, NEW u \in Token, claim_next(k, u) PROVE status'[t] = status[t]
      BY <2>0, <2>2 DEF claim_next, Claimable, TypeOK
    <2>3. ASSUME NEW k \in Task, admit(k) \/ Execute(k) \/ deliver(k) PROVE status'[t] = status[t]
      BY <2>3 DEF admit, Execute, deliver
    <2>4. ASSUME NEW k \in Task, write_result(k) PROVE status'[t] = status[t] \/ t \in swept
      <3>1. CASE claim[k] = t
        BY <2>0, <2>4, <3>1 DEF write_result, SoleAnswer
      <3>2. CASE claim[k] # t
        BY <2>0, <2>4, <3>2 DEF write_result, SetResult, TypeOK
      <3> QED BY <3>1, <3>2
    <2>5. ASSUME NEW k \in Task, write_sandbox_failure(k)
          PROVE  \/ status'[t] = status[t]
                 \/ t \in swept
                 \/ t \in unsure /\ status'[t] = "sandbox_failure"
      <3>1. CASE claim[k] = t
        <4>1. t \in swept \/ t \in unsure
          BY <2>0, <2>5, <3>1 DEF write_sandbox_failure, SoleAnswer
        <4>2. status'[t] \in {status[t], "sandbox_failure"}
          BY <2>0, <2>5, <3>1 DEF write_sandbox_failure, SetFailure, TypeOK
        <4> QED BY <4>1, <4>2
      <3>2. CASE claim[k] # t
        BY <2>0, <2>5, <3>2 DEF write_sandbox_failure, SetFailure, TypeOK
      <3> QED BY <3>1, <3>2
    <2>6. ASSUME NEW S, Lose(S) PROVE status'[t] = status[t]
      BY <2>6 DEF Lose
    <2>7. CASE sweep_stale
      BY <2>0, <2>7 DEF sweep_stale, Stale, TypeOK
    <2>8. CASE scrub_payloads \/ Tick
      BY <2>8 DEF scrub_payloads, Tick
    <2>9. CASE expire_old_rows
      BY <2>0, <2>9 DEF expire_old_rows, TypeOK
    <2> QED BY <2>1, <2>2, <2>3, <2>4, <2>5, <2>6, <2>7, <2>8, <2>9 DEF Next, Crash, Panic, TaskStep
  <1> QED BY <1>1, Invariance, PTL DEF Spec, AnswerStands

-----------------------------------------------------------------------------
(* The table and the workers implement the client's contract.              *)

\* Every step of the service is a step of the contract, or invisible.
LEMMA ContractStep ==
    TypeOK /\ RowInv /\ [Next]_vars => [Contract!Next]_polled
  <1> SUFFICES ASSUME TypeOK, RowInv, [Next]_vars PROVE [Contract!Next]_polled
    OBVIOUS
  <1> USE StatusesDiffer DEF rowVars, taskVars, books
  <1>1. ASSUME NEW t \in Token, insert_submission(t) PROVE Contract!Submit(t)
    BY <1>1 DEF insert_submission, Contract!Submit, polled, TypeOK
  <1>2. ASSUME NEW k \in Task, NEW t \in Token, claim_next(k, t) PROVE Contract!Start(t)
    BY <1>2 DEF claim_next, Claimable, Contract!Start, polled, TypeOK
  <1>3. ASSUME NEW k \in Task, TaskStep(k)
        PROVE  (\E t \in Token : Contract!Finish(t)) \/ UNCHANGED polled
    <2>1. CASE UNCHANGED status
      BY <2>1 DEF polled
    <2>2. ASSUME NEW t \in Token, NEW v \in Terminal, status[t] \notin NoRow,
                 status' = [status EXCEPT ![t] = v]
          PROVE  Contract!Finish(t) \/ UNCHANGED polled
      <3>1. CASE status[t] \in Terminal
        BY <2>2, <3>1 DEF polled, TypeOK
      <3>2. CASE status[t] \in Pending
        BY <2>2, <3>2 DEF polled, TypeOK, Contract!Finish, Pending
      <3> QED BY <2>2, <3>1, <3>2 DEF TypeOK, Status
    <2>3. CASE write_result(k)
      <3>1. claim[k] \in Token /\ result[k] \in Terminal
        BY <2>3 DEF write_result, TypeOK, Terminal
      <3> QED BY <2>1, <2>2, <2>3, <3>1 DEF write_result, SetResult
    <2>4. CASE write_sandbox_failure(k)
      <3>1. claim[k] \in Token /\ "sandbox_failure" \in Terminal
        BY <2>4 DEF write_sandbox_failure, TypeOK, Terminal
      <3> QED BY <2>1, <2>2, <2>4, <3>1 DEF write_sandbox_failure, SetFailure
    <2>5. CASE admit(k) \/ Execute(k) \/ deliver(k)
      BY <2>1, <2>5 DEF admit, Execute, deliver
    <2> QED BY <1>3, <2>3, <2>4, <2>5 DEF TaskStep
  <1>4. ASSUME NEW S, Lose(S) PROVE UNCHANGED polled
    BY <1>4 DEF Lose, polled
  <1>5. CASE sweep_stale
    <2>1. Contract!Requeue(Stale)
      BY <1>5 DEF sweep_stale, Stale, Contract!Requeue, polled, TypeOK
    <2> QED BY <2>1 DEF Contract!Next, Stale
  <1>6. CASE expire_old_rows
    <2>1. Older(RowTtl) \subseteq {t \in Token : status[t] \in Terminal}
      BY TimeAssumption DEF Older, RowInv, FinishedIffTerminal, Null
    <2>2. Contract!Forget(Older(RowTtl))
      BY <1>6, <2>1 DEF expire_old_rows, Contract!Forget, polled, TypeOK
    <2> QED BY <2>1, <2>2 DEF Contract!Next
  <1>7. CASE scrub_payloads \/ Tick \/ UNCHANGED vars
    BY <1>7 DEF scrub_payloads, Tick, vars, polled
  <1> QED
    BY <1>1, <1>2, <1>3, <1>4, <1>5, <1>6, <1>7 DEF Next, Crash, Panic, Contract!Next

\* Whatever the number of executions behind a submission, a client that polls
\* it only ever sees the phases of the contract, in the contract's order.
THEOREM ImplementsContractHolds == Spec => ImplementsContract
  <1>1. Init => Contract!Init
    BY StatusesDiffer DEF Init, Contract!Init, polled
  <1>2. Inv /\ [Next]_vars => [Contract!Next]_polled
    BY ContractStep DEF Inv
  <1> QED
    BY <1>1, <1>2, Invariance, PTL DEF Spec, ImplementsContract, Contract!Spec
=============================================================================
