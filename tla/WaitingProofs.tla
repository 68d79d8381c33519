--------------------------- MODULE WaitingProofs ---------------------------
(* Proofs about Waiting, for any number of submissions, tasks, clients,    *)
(* listener connections, executions and faults.                            *)
EXTENDS Waiting, TLAPS

-----------------------------------------------------------------------------
(* Types.                                                                  *)

LEMMA InitType == Init => TypeOK
  BY WaitingAssumption DEF Init, TypeOK, Row!Init, Row!TypeOK, Row!Phase, Waiting

LEMMA FaultType ==
    ASSUME TypeOK, Fault \/ UNCHANGED faults
    PROVE  faults' \in 0 .. MaxFaults
  BY WaitingAssumption DEF TypeOK, Fault

\* An event is appended to the inbox of the one request that may listen.
LEMMA PublishType ==
    ASSUME TypeOK, NEW t \in Token, NEW e \in Event, publish_event(t, e)
    PROVE  /\ inbox' \in [Token -> Seq(Event)]
           /\ told' \in [Client -> SUBSET Event]
           /\ lost' \subseteq Token
           /\ faults' \in 0 .. MaxFaults
           /\ \A u \in Token : inbox'[u] = inbox[u] \/ (u = t /\ inbox'[u] = Append(inbox[u], e))
           /\ \A c \in Client :
                \/ told'[c] = told[c]
                \/ stream[c] = "open" /\ watch[c] = t /\ told'[c] = told[c] \cup {e}
           /\ t \in listening => inbox'[t] = Append(inbox[t], e) \/ t \in lost'
           /\ lost \subseteq lost'
  <1>1. PICK missWait \in SUBSET (listening \cap {t}), missStream \in SUBSET Open(t) :
          /\ inbox' = [inbox EXCEPT ![t] =
                          IF t \in listening \ missWait THEN Append(@, e) ELSE @]
          /\ told' = [c \in Client |-> IF c \in Open(t) \ missStream
                                        THEN told[c] \cup {e} ELSE told[c]]
          /\ IF missWait # {} \/ missStream # {}
             THEN Fault /\ lost' = lost \cup {t} ELSE UNCHANGED <<faults, lost>>
    BY DEF publish_event
  <1>2. Append(inbox[t], e) \in Seq(Event)
    BY DEF TypeOK
  <1>3. inbox' \in [Token -> Seq(Event)]
    BY <1>1, <1>2 DEF TypeOK
  <1>4. told' \in [Client -> SUBSET Event]
    BY <1>1 DEF TypeOK
  <1>5. lost' \subseteq Token /\ lost \subseteq lost'
    BY <1>1 DEF TypeOK
  <1>6. faults' \in 0 .. MaxFaults
    BY <1>1, FaultType
  <1>7. \A u \in Token : inbox'[u] = inbox[u] \/ (u = t /\ inbox'[u] = Append(inbox[u], e))
    BY <1>1 DEF TypeOK
  <1>8. \A c \in Client :
          \/ told'[c] = told[c]
          \/ stream[c] = "open" /\ watch[c] = t /\ told'[c] = told[c] \cup {e}
    BY <1>1 DEF Open
  <1>9. t \in listening => inbox'[t] = Append(inbox[t], e) \/ t \in lost'
    BY <1>1 DEF TypeOK
  <1> QED BY <1>3, <1>4, <1>5, <1>6, <1>7, <1>8, <1>9

\* The wait request of t changes; the others keep what they have.
LEMMA ReplyType ==
    ASSUME TypeOK, NEW t \in Token, NEW s \in Replied \cup {"final"}, Reply(t, s)
    PROVE  /\ waiter' \in [Token -> {"none"} \cup Waiting \cup Replied]
           /\ listening' \subseteq
                {u \in Token : waiter'[u] \in Waiting \ {"subscribe", "final"}}
           /\ inbox' \in [Token -> Seq(Event)]
  <1>1. waiter' \in [Token -> {"none"} \cup Waiting \cup Replied]
    BY DEF TypeOK, Reply, Waiting
  <1>2. listening' \subseteq
          {u \in Token : waiter'[u] \in Waiting \ {"subscribe", "final"}}
    BY DEF TypeOK, Reply
  <1>3. inbox' \in [Token -> Seq(Event)]
    BY DEF TypeOK, Reply
  <1> QED BY <1>1, <1>2, <1>3

\* A row only ever moves between the phases of the contract.
LEMMA StoreType ==
    ASSUME TypeOK, NEW t \in Token, Store(t) PROVE Row!TypeOK'
  BY DEF TypeOK, Store, Row!TypeOK, Row!Phase

LEMMA ViewType == \A t \in Token : View(t) \in Replied
  BY DEF View, Replied

LEMMA NextType == TypeOK /\ [Next]_vars => TypeOK'
  <1> SUFFICES ASSUME TypeOK, [Next]_vars PROVE TypeOK'
    OBVIOUS
  <1> USE DEF workerVars, waitVars, streamVars
  <1>1. ASSUME NEW t \in Token, create(t) PROVE TypeOK'
    <2>1. Row!TypeOK'
      BY <1>1 DEF create, TypeOK, Row!Submit, Row!TypeOK, Row!Phase
    <2>2. PICK next \in {"none", "subscribe"} : waiter' = [waiter EXCEPT ![t] = next]
      BY <1>1 DEF create
    <2>3. waiter' \in [Token -> {"none"} \cup Waiting \cup Replied]
      BY <2>2 DEF TypeOK, Waiting
    <2>4. t \notin listening
      BY <1>1 DEF create, TypeOK, Waiting
    <2> QED BY <1>1, <2>1, <2>2, <2>3, <2>4 DEF create, TypeOK
  <1>2. ASSUME NEW t \in Token, Sweep(t) PROVE TypeOK'
    BY <1>2 DEF Sweep, TypeOK, Row!Requeue, Row!TypeOK, Row!Phase
  <1>3. ASSUME NEW t \in Token, Expire(t) PROVE TypeOK'
    BY <1>3 DEF Expire, TypeOK, Row!Forget, Row!TypeOK, Row!Phase
  <1>4. ASSUME NEW k \in Task, NEW t \in Token, Claim(k, t) PROVE TypeOK'
    BY <1>4, WaitingAssumption DEF Claim, TypeOK, Row!Start, Row!TypeOK, Row!Phase
  <1>5. ASSUME NEW k \in Task, Begin(k) PROVE TypeOK'
    <2>1. job[k] \in Token
      BY <1>5 DEF Begin, TypeOK
    <2>2. /\ inbox' \in [Token -> Seq(Event)] /\ told' \in [Client -> SUBSET Event]
          /\ lost' \subseteq Token /\ faults' \in 0 .. MaxFaults
      BY <1>5, <2>1, PublishType DEF Begin, Event
    <2> QED BY <1>5, <2>2 DEF Begin, TypeOK, Row!TypeOK
  <1>6. ASSUME NEW k \in Task, write_result(k) PROVE TypeOK'
    <2>1. Row!TypeOK'
      BY <1>6, StoreType DEF write_result, TypeOK, Row!TypeOK
    <2>2. faults' \in 0 .. MaxFaults
      BY <1>6, FaultType DEF write_result
    <2> QED BY <1>6, <2>1, <2>2 DEF write_result, TypeOK
  <1>7. ASSUME NEW k \in Task, write_sandbox_failure(k) PROVE TypeOK'
    <2>1. Row!TypeOK'
      BY <1>7, StoreType DEF write_sandbox_failure, TypeOK, Row!TypeOK
    <2>2. faults' \in 0 .. MaxFaults
      BY <1>7, FaultType DEF write_sandbox_failure
    <2> QED BY <1>7, <2>1, <2>2 DEF write_sandbox_failure, TypeOK
  <1>8. ASSUME NEW k \in Task, Announce(k) PROVE TypeOK'
    <2>1. job[k] \in Token
      BY <1>8 DEF Announce, TypeOK
    <2>2. /\ inbox' \in [Token -> Seq(Event)] /\ told' \in [Client -> SUBSET Event]
          /\ lost' \subseteq Token /\ faults' \in 0 .. MaxFaults
      BY <1>8, <2>1, PublishType DEF Announce, Event
    <2> QED BY <1>8, <2>2 DEF Announce, TypeOK, Row!TypeOK
  <1>9. ASSUME NEW k \in Task, Crash(k) PROVE TypeOK'
    BY <1>9, FaultType DEF Crash, TypeOK, Row!TypeOK
  <1>10. ASSUME NEW t \in Token, subscribe(t) PROVE TypeOK'
    <2>1. faults' \in 0 .. MaxFaults
      BY <1>10, FaultType DEF subscribe
    <2> QED BY <1>10, <2>1 DEF subscribe, TypeOK, Row!TypeOK, Waiting
  <1>11. ASSUME NEW t \in Token, NEW s \in Replied \cup {"final"}, Reply(t, s),
                why' \in [Token -> {"none", "finished", "deadline", "broken"}],
                Fault \/ UNCHANGED faults,
                UNCHANGED <<phase, workerVars, streamVars, lost, unwritten>>
         PROVE  TypeOK'
    BY <1>11, ReplyType, FaultType DEF TypeOK, Row!TypeOK
  <1>12. ASSUME NEW t \in Token, Look(t) PROVE TypeOK'
    <2>1. CASE Reply(t, "done") \/ Reply(t, "error")
      BY <1>11, <1>12, <2>1 DEF Look, FetchError, GoTo, TypeOK, Replied
    <2>2. CASE GoTo(t, "loop") /\ UNCHANGED faults
      BY <1>12, <2>2 DEF Look, GoTo, TypeOK, Row!TypeOK, Waiting
    <2> QED BY <1>12, <2>1, <2>2 DEF Look, FetchError
  <1>13. ASSUME NEW t \in Token, NextEvent(t) PROVE TypeOK'
    <2>1. Tail(inbox[t]) \in Seq(Event)
      BY <1>13 DEF NextEvent, TypeOK
    <2> QED BY <1>13, <2>1 DEF NextEvent, TypeOK, Row!TypeOK, Waiting
  <1>14. ASSUME NEW t \in Token, FetchFinished(t) PROVE TypeOK'
    <2>1. CASE GoTo(t, "loop") /\ UNCHANGED faults
      BY <1>14, <2>1 DEF FetchFinished, GoTo, TypeOK, Row!TypeOK, Waiting
    <2>2. CASE (Reply(t, View(t)) /\ UNCHANGED <<why, faults>>) \/ FetchError(t)
      BY <1>11, <1>14, <2>2, ViewType DEF FetchFinished, FetchError, TypeOK, Replied
    <2> QED BY <1>14, <2>1, <2>2 DEF FetchFinished
  <1>15. ASSUME NEW t \in Token, Deadline(t) \/ ListenerError(t) PROVE TypeOK'
    BY <1>11, <1>15 DEF Deadline, ListenerError, Leave, TypeOK
  <1>16. ASSUME NEW t \in Token, FinalFetch(t) PROVE TypeOK'
    BY <1>11, <1>16, ViewType DEF FinalFetch, FetchError, TypeOK, Replied
  <1>17. ASSUME NEW t \in Token, Disconnect(t) PROVE TypeOK'
    BY <1>11, <1>17 DEF Disconnect, TypeOK, Replied
  <1>18. ASSUME NEW c \in Client, NEW t \in Token, StreamFetch(c, t) PROVE TypeOK'
    <2>1. told' \in [Client -> SUBSET Event]
      BY <1>18 DEF StreamFetch, TypeOK, Event
    <2>2. stream' \in [Client -> {"idle", "subscribe", "open", "closed"}]
      BY <1>18 DEF StreamFetch, StreamTo, TypeOK
    <2> QED BY <1>18, <2>1, <2>2 DEF StreamFetch, StreamTo, TypeOK, Row!TypeOK
  <1>19. ASSUME NEW c \in Client, StreamSubscribe(c) PROVE TypeOK'
    <2>1. faults' \in 0 .. MaxFaults
      BY <1>19, FaultType DEF StreamSubscribe
    <2> QED BY <1>19, <2>1 DEF StreamSubscribe, StreamTo, TypeOK, Row!TypeOK
  <1>20. ASSUME NEW c \in Client, StreamClose(c) PROVE TypeOK'
    BY <1>20 DEF StreamClose, StreamTo, TypeOK, Row!TypeOK
  <1>21. CASE UNCHANGED vars
    BY <1>21 DEF vars, TypeOK, Row!TypeOK
  <1> QED
    BY <1>1, <1>2, <1>3, <1>4, <1>5, <1>6, <1>7, <1>8, <1>9, <1>10, <1>12, <1>13,
       <1>14, <1>15, <1>16, <1>17, <1>18, <1>19, <1>20, <1>21
       DEF Next, TaskStep, WaitStep

\* Requests, inboxes, streams and tasks stay well formed; in particular only
\* a request that still waits holds a connection of the listener pool.
THEOREM TypeCorrect == Spec => []TypeOK
  BY InitType, NextType, PTL DEF Spec

-----------------------------------------------------------------------------
(* Whatever is announced is true.                                          *)

Holds(s, e) == \E i \in 1 .. Len(s) : s[i] = e

\* What Finished passes through on its way from a task to a client: the task
\* that is about to send it, the inbox of a request, the request that has
\* taken it out, the client of a stream.
TaskTruth == \A k \in Task : pc[k] = "announce" => Settled(job[k])
InboxTruth ==
    \A t \in Token : Holds(inbox[t], "finished") \/ waiter[t] = "fetch" => Settled(t)
StreamTruth ==
    \A c \in Client : "finished" \in told[c] => watch[c] \in Token /\ Settled(watch[c])
IdleUntold == \A c \in Client : stream[c] = "idle" => told[c] = {}
ReplyTruth ==
    /\ \A t \in Token : waiter[t] = "final" => why[t] \in {"deadline", "broken"}
    /\ PendingReplyIsTimeout

\* The inductive invariant of this module.
Inv ==
    /\ TypeOK
    /\ TaskTruth /\ InboxTruth /\ StreamTruth /\ IdleUntold /\ ReplyTruth
    /\ NoLostFinished

\* Appending to an inbox, and taking its first event out.
LEMMA HoldsAppend ==
    ASSUME NEW s \in Seq(Event), NEW e \in Event, NEW f \in Event
    PROVE  /\ Holds(Append(s, e), f) => Holds(s, f) \/ e = f
           /\ Holds(s, f) => Holds(Append(s, e), f)
           /\ Holds(Append(s, f), f)
  BY DEF Holds

LEMMA HoldsTail ==
    ASSUME NEW s \in Seq(Event), s # <<>>, NEW f \in Event
    PROVE  /\ Holds(Tail(s), f) => Holds(s, f)
           /\ Head(s) = f => Holds(s, f)
           /\ Holds(s, f) /\ Head(s) # f => Holds(Tail(s), f)
  <1>1. Holds(Tail(s), f) => Holds(s, f)
    <2> SUFFICES ASSUME NEW i \in 1 .. Len(Tail(s)), Tail(s)[i] = f PROVE Holds(s, f)
      BY DEF Holds
    <2>1. i + 1 \in 1 .. Len(s) /\ s[i + 1] = f
      OBVIOUS
    <2> QED BY <2>1 DEF Holds
  <1>2. Head(s) = f => Holds(s, f)
    <2>1. 1 \in 1 .. Len(s) /\ Head(s) = s[1]
      OBVIOUS
    <2> QED BY <2>1 DEF Holds
  <1>3. Holds(s, f) /\ Head(s) # f => Holds(Tail(s), f)
    <2> SUFFICES ASSUME NEW i \in 1 .. Len(s), s[i] = f, Head(s) # f PROVE Holds(Tail(s), f)
      BY DEF Holds
    <2>1. i - 1 \in 1 .. Len(Tail(s)) /\ Tail(s)[i - 1] = f
      OBVIOUS
    <2> QED BY <2>1 DEF Holds
  <1> QED BY <1>1, <1>2, <1>3

LEMMA HoldsNothing == \A f \in Event : ~Holds(<<>>, f)
  BY DEF Holds

\* A settled submission stays settled: terminal rows only disappear.
LEMMA SettledStable ==
    ASSUME TypeOK, [Next]_vars, NEW t \in Token, Settled(t)
    PROVE  Settled(t)'
  <1> USE DEF workerVars, waitVars, streamVars
  <1>1. ASSUME NEW u \in Token, Store(u), unwritten \subseteq unwritten' PROVE Settled(t)'
    BY <1>1 DEF Store, Settled, TypeOK, Row!TypeOK
  <1>2. ASSUME UNCHANGED phase, unwritten \subseteq unwritten' PROVE Settled(t)'
    BY <1>2 DEF Settled
  <1>3. ASSUME NEW u \in Token, create(u) \/ Sweep(u) \/ Expire(u) PROVE Settled(t)'
    BY <1>3 DEF create, Sweep, Expire, Row!Submit, Row!Requeue, Row!Forget, Settled,
                TypeOK, Row!TypeOK
  <1>4. ASSUME NEW k \in Task, NEW u \in Token, Claim(k, u) PROVE Settled(t)'
    BY <1>4 DEF Claim, Row!Start, Settled, TypeOK, Row!TypeOK
  <1>5. ASSUME NEW k \in Task, TaskStep(k) \/ Crash(k) PROVE Settled(t)'
    <2>1. CASE Begin(k) \/ Announce(k) \/ Crash(k)
      BY <1>2, <2>1 DEF Begin, Announce, Crash
    <2>2. CASE write_result(k)
      <3>1. job[k] \in Token
        BY <2>2 DEF write_result, TypeOK
      <3> QED BY <1>1, <1>2, <2>2, <3>1 DEF write_result
    <2>3. CASE write_sandbox_failure(k)
      <3>1. job[k] \in Token
        BY <2>3 DEF write_sandbox_failure, TypeOK
      <3> QED BY <1>1, <1>2, <2>3, <3>1 DEF write_sandbox_failure
    <2> QED BY <1>5, <2>1, <2>2, <2>3 DEF TaskStep
  <1>6. ASSUME NEW u \in Token,
               WaitStep(u) \/ Deadline(u) \/ ListenerError(u) \/ Disconnect(u)
        PROVE  Settled(t)'
    BY <1>2, <1>6 DEF WaitStep, subscribe, Look, NextEvent, FetchFinished, FinalFetch,
                      Deadline, ListenerError, Leave, Disconnect
  <1>7. ASSUME NEW c \in Client, NEW u \in Token, StreamFetch(c, u) PROVE Settled(t)'
    BY <1>2, <1>7 DEF StreamFetch, StreamTo
  <1>8. ASSUME NEW c \in Client, StreamSubscribe(c) \/ StreamClose(c) PROVE Settled(t)'
    BY <1>2, <1>8 DEF StreamSubscribe, StreamClose, StreamTo
  <1>9. CASE UNCHANGED vars
    BY <1>2, <1>9 DEF vars
  <1> QED BY <1>3, <1>4, <1>5, <1>6, <1>7, <1>8, <1>9 DEF Next

\* A stored row is settled.
LEMMA StoreSettles == ASSUME TypeOK, NEW t \in Token, Store(t) PROVE Settled(t)'
  BY DEF TypeOK, Row!TypeOK, Store, Settled

\* The steps that leave the tasks alone.
LEMMA TasksUnchanged ==
    ASSUME [Next]_vars
    PROVE  \/ UNCHANGED <<pc, job>>
           \/ \E k \in Task : \E t \in Token : Claim(k, t)
           \/ \E k \in Task : TaskStep(k) \/ Crash(k)
  BY DEF Next, vars, workerVars, create, Sweep, Expire, WaitStep, subscribe, Look,
         NextEvent, FetchFinished, FinalFetch, Deadline, ListenerError, Leave,
         Disconnect, StreamFetch, StreamSubscribe, StreamClose, StreamTo

LEMMA TaskTruthStep ==
    ASSUME TypeOK, TaskTruth, [Next]_vars PROVE TaskTruth'
  <1> SUFFICES ASSUME NEW j \in Task, pc'[j] = "announce" PROVE Settled(job[j])'
    BY DEF TaskTruth
  <1>1. ASSUME pc[j] = "announce", job'[j] = job[j] PROVE Settled(job[j])'
    <2>1. job[j] \in Token /\ Settled(job[j])
      BY <1>1 DEF TypeOK, TaskTruth
    <2>2. PICK t \in Token : t = job[j] /\ t = job'[j]
      BY <1>1, <2>1
    <2>3. Settled(t)'
      BY <2>1, <2>2, SettledStable
    <2> QED BY <2>2, <2>3 DEF Settled
  <1>2. CASE UNCHANGED <<pc, job>>
    BY <1>1, <1>2
  <1>3. ASSUME NEW k \in Task, NEW t \in Token, Claim(k, t) PROVE Settled(job[j])'
    BY <1>1, <1>3 DEF Claim, TypeOK
  <1>4. ASSUME NEW k \in Task, TaskStep(k) \/ Crash(k) PROVE Settled(job[j])'
    <2>1. CASE j # k
      BY <1>1, <1>4, <2>1 DEF TaskStep, Begin, write_result, write_sandbox_failure,
                              Announce, Crash, TypeOK
    <2>2. CASE j = k
      <3>1. write_result(k) \/ write_sandbox_failure(k)
        BY <1>4, <2>2 DEF TaskStep, Begin, write_result, write_sandbox_failure,
                          Announce, Crash, TypeOK
      <3>2. job[k] \in Token /\ job' = job
        BY <3>1 DEF write_result, write_sandbox_failure, TypeOK
      <3>3. Store(job[k]) \/ job[k] \in unwritten'
        BY <2>2, <3>1 DEF write_result, write_sandbox_failure, TypeOK
      <3>4. PICK t \in Token : t = job[k]
        BY <3>2
      <3>5. Settled(t)'
        BY <3>3, <3>4, StoreSettles DEF Settled
      <3> QED BY <2>2, <3>2, <3>4, <3>5 DEF Settled
    <2> QED BY <2>1, <2>2
  <1> QED BY <1>2, <1>3, <1>4, TasksUnchanged

\* What a step may do to the inbox and the place of a wait request.
LEMMA WaiterMoves ==
    ASSUME TypeOK, [Next]_vars, NEW t \in Token
    PROVE  \/ inbox'[t] = inbox[t] /\ waiter'[t] = waiter[t]
           \/ inbox'[t] = <<>> /\ waiter'[t] # "fetch"
           \/ inbox'[t] = inbox[t] /\ waiter'[t] # "fetch"
           \/ NextEvent(t)
           \/ \E k \in Task : /\ Begin(k) \/ Announce(k)
                              /\ job[k] = t /\ waiter'[t] = waiter[t]
                              /\ inbox'[t] = Append(inbox[t],
                                    IF Begin(k) THEN "processing" ELSE "finished")
  <1> DEFINE Goal ==
           \/ inbox'[t] = inbox[t] /\ waiter'[t] = waiter[t]
           \/ inbox'[t] = <<>> /\ waiter'[t] # "fetch"
           \/ inbox'[t] = inbox[t] /\ waiter'[t] # "fetch"
           \/ NextEvent(t)
           \/ \E k \in Task : /\ Begin(k) \/ Announce(k)
                              /\ job[k] = t /\ waiter'[t] = waiter[t]
                              /\ inbox'[t] = Append(inbox[t],
                                    IF Begin(k) THEN "processing" ELSE "finished")
  <1> USE DEF workerVars, waitVars, streamVars
  <1>1. ASSUME NEW u \in Token, create(u) \/ Sweep(u) \/ Expire(u) PROVE Goal
    BY <1>1 DEF create, Sweep, Expire, TypeOK
  <1>2. ASSUME NEW k \in Task, NEW u \in Token, Claim(k, u) PROVE Goal
    BY <1>2 DEF Claim
  <1>3. ASSUME NEW k \in Task, Begin(k) PROVE Goal
    <2>1. job[k] \in Token /\ publish_event(job[k], "processing") /\ waiter' = waiter
      BY <1>3 DEF Begin, TypeOK
    <2>2. inbox'[t] = inbox[t] \/ (t = job[k] /\ inbox'[t] = Append(inbox[t], "processing"))
      BY <2>1, PublishType DEF Event
    <2> QED BY <1>3, <2>1, <2>2
  <1>4. ASSUME NEW k \in Task, Announce(k) PROVE Goal
    <2>1. job[k] \in Token /\ publish_event(job[k], "finished") /\ waiter' = waiter
      BY <1>4 DEF Announce, TypeOK
    <2>2. inbox'[t] = inbox[t] \/ (t = job[k] /\ inbox'[t] = Append(inbox[t], "finished"))
      BY <2>1, PublishType DEF Event
    <2>3. ~Begin(k)
      BY <1>4 DEF Announce, Begin
    <2> QED BY <1>4, <2>1, <2>2, <2>3
  <1>5. ASSUME NEW k \in Task, write_result(k) \/ write_sandbox_failure(k) \/ Crash(k)
        PROVE  Goal
    BY <1>5 DEF write_result, write_sandbox_failure, Crash
  <1>6. ASSUME NEW u \in Token, NEW x \in Replied \cup {"final"}, Reply(u, x) PROVE Goal
    BY <1>6 DEF Reply, TypeOK, Replied
  <1>7. ASSUME NEW u \in Token, NEW x \in {"guard", "loop"},
               waiter' = [waiter EXCEPT ![u] = x], UNCHANGED inbox
        PROVE  Goal
    BY <1>7 DEF TypeOK
  <1>8. ASSUME NEW u \in Token,
               WaitStep(u) \/ Deadline(u) \/ ListenerError(u) \/ Disconnect(u)
        PROVE  Goal
    <2>1. CASE subscribe(u)
      BY <1>7, <2>1 DEF subscribe
    <2>2. CASE Look(u)
      BY <1>6, <1>7, <2>2 DEF Look, GoTo, FetchError, Replied
    <2>3. CASE NextEvent(u)
      BY <2>3 DEF NextEvent, TypeOK
    <2>4. CASE FetchFinished(u)
      BY <1>6, <1>7, <2>4, ViewType DEF FetchFinished, GoTo, FetchError, Replied
    <2>5. CASE FinalFetch(u)
      BY <1>6, <2>5, ViewType DEF FinalFetch, FetchError, Replied
    <2>6. CASE Deadline(u) \/ ListenerError(u) \/ Disconnect(u)
      BY <1>6, <2>6 DEF Deadline, ListenerError, Leave, Disconnect, Replied
    <2> QED BY <1>8, <2>1, <2>2, <2>3, <2>4, <2>5, <2>6 DEF WaitStep
  <1>9. ASSUME NEW c \in Client, NEW u \in Token, StreamFetch(c, u) PROVE Goal
    BY <1>9 DEF StreamFetch, StreamTo
  <1>10. ASSUME NEW c \in Client, StreamSubscribe(c) \/ StreamClose(c) PROVE Goal
    BY <1>10 DEF StreamSubscribe, StreamClose, StreamTo
  <1>11. CASE UNCHANGED vars
    BY <1>11 DEF vars
  <1> QED
    BY <1>1, <1>2, <1>3, <1>4, <1>5, <1>8, <1>9, <1>10, <1>11 DEF Next, TaskStep

LEMMA InboxTruthStep ==
    ASSUME TypeOK, TaskTruth, InboxTruth, [Next]_vars PROVE InboxTruth'
  <1> SUFFICES ASSUME NEW t \in Token, Holds(inbox'[t], "finished") \/ waiter'[t] = "fetch"
               PROVE  Settled(t)'
    BY DEF InboxTruth
  <1> SUFFICES Settled(t)
    BY SettledStable
  <1>1. "finished" \in Event /\ "processing" \in Event /\ inbox[t] \in Seq(Event)
    BY DEF Event, TypeOK
  <1>2. CASE inbox'[t] = inbox[t] /\ waiter'[t] = waiter[t]
    BY <1>2 DEF InboxTruth
  <1>3. CASE inbox'[t] = <<>> /\ waiter'[t] # "fetch"
    BY <1>1, <1>3, HoldsNothing
  <1>4. CASE inbox'[t] = inbox[t] /\ waiter'[t] # "fetch"
    BY <1>4 DEF InboxTruth
  <1>5. CASE NextEvent(t)
    <2>1. inbox[t] # <<>> /\ inbox'[t] = Tail(inbox[t]) /\ waiter[t] = "loop"
      BY <1>5 DEF NextEvent, TypeOK
    <2>2. waiter'[t] = "fetch" => Head(inbox[t]) = "finished"
      BY <1>5, <2>1 DEF NextEvent
    <2> QED BY <1>1, <2>1, <2>2, HoldsTail DEF InboxTruth
  <1>6. ASSUME NEW k \in Task, Begin(k) \/ Announce(k), job[k] = t, waiter'[t] = waiter[t],
               inbox'[t] = Append(inbox[t], IF Begin(k) THEN "processing" ELSE "finished")
        PROVE  Settled(t)
    <2>1. CASE Begin(k)
      BY <1>1, <1>6, <2>1, HoldsAppend DEF InboxTruth
    <2>2. CASE ~Begin(k)
      BY <1>6, <2>2 DEF Announce, TaskTruth
    <2> QED BY <2>1, <2>2
  <1> QED BY <1>2, <1>3, <1>4, <1>5, <1>6, WaiterMoves

LEMMA StreamTruthStep ==
    ASSUME TypeOK, TaskTruth, StreamTruth, IdleUntold, [Next]_vars PROVE StreamTruth'
  <1> SUFFICES ASSUME NEW c \in Client, "finished" \in told'[c]
               PROVE  watch'[c] \in Token /\ Settled(watch[c])'
    BY DEF StreamTruth
  <1> USE DEF workerVars, waitVars, streamVars
  <1> SUFFICES \E t \in Token : t = watch'[c] /\ Settled(t)
    <2>1. PICK t \in Token : t = watch'[c] /\ Settled(t)
      OBVIOUS
    <2>2. Settled(t)'
      BY <2>1, SettledStable
    <2> QED BY <2>1, <2>2 DEF Settled
  <1>1. CASE told'[c] = told[c] /\ watch'[c] = watch[c]
    BY <1>1 DEF StreamTruth
  <1>2. ASSUME NEW d \in Client, NEW t \in Token, StreamFetch(d, t)
        PROVE  \E u \in Token : u = watch'[c] /\ Settled(u)
    <2>1. CASE d # c
      BY <1>1, <1>2, <2>1 DEF StreamFetch, TypeOK
    <2>2. CASE d = c
      <3>1. watch'[c] = t
        BY <1>2, <2>2 DEF StreamFetch, TypeOK
      <3>2. phase[t] = "terminal"
        BY <1>2, <2>2 DEF StreamFetch, TypeOK, IdleUntold
      <3> QED BY <1>2, <2>2, <3>1, <3>2 DEF StreamFetch, Settled
    <2> QED BY <2>1, <2>2
  <1>3. ASSUME NEW k \in Task, Begin(k) \/ Announce(k)
        PROVE  \E u \in Token : u = watch'[c] /\ Settled(u)
    <2>1. watch' = watch /\ job[k] \in Token
      BY <1>3 DEF Begin, Announce, TypeOK
    <2>2. CASE told'[c] = told[c]
      BY <1>1, <2>1, <2>2
    <2>3. CASE Begin(k)
      BY <1>1, <2>1, <2>3, PublishType DEF Begin, Event, StreamTruth
    <2>4. CASE Announce(k) /\ told'[c] # told[c]
      <3>1. watch[c] = job[k]
        BY <2>1, <2>4, PublishType DEF Announce, Event
      <3>2. Settled(job[k])
        BY <2>4 DEF Announce, TaskTruth
      <3> QED BY <2>1, <3>1, <3>2
    <2> QED BY <1>3, <2>2, <2>3, <2>4
  <1>4. ASSUME NEW k \in Task,
               write_result(k) \/ write_sandbox_failure(k) \/ Crash(k)
        PROVE  UNCHANGED <<told, watch>>
    BY <1>4 DEF write_result, write_sandbox_failure, Crash
  <1>5. ASSUME NEW t \in Token, create(t) \/ Sweep(t) \/ Expire(t)
        PROVE  UNCHANGED <<told, watch>>
    BY <1>5 DEF create, Sweep, Expire
  <1>6. ASSUME NEW t \in Token,
               WaitStep(t) \/ Deadline(t) \/ ListenerError(t) \/ Disconnect(t)
        PROVE  UNCHANGED <<told, watch>>
    BY <1>6 DEF WaitStep, subscribe, Look, NextEvent, FetchFinished, FinalFetch,
                Deadline, ListenerError, Leave, Disconnect
  <1>7. ASSUME NEW d \in Client, StreamSubscribe(d) \/ StreamClose(d)
        PROVE  UNCHANGED <<told, watch>>
    BY <1>7 DEF StreamSubscribe, StreamClose, StreamTo
  <1>8. ASSUME NEW k \in Task, NEW t \in Token, Claim(k, t)
        PROVE  UNCHANGED <<told, watch>>
    BY <1>8 DEF Claim
  <1> QED
    BY <1>1, <1>2, <1>3, <1>4, <1>5, <1>6, <1>7, <1>8 DEF Next, TaskStep, vars

LEMMA IdleUntoldStep ==
    ASSUME TypeOK, IdleUntold, [Next]_vars PROVE IdleUntold'
  <1> SUFFICES ASSUME NEW c \in Client, stream'[c] = "idle" PROVE told'[c] = {}
    BY DEF IdleUntold
  <1> USE DEF workerVars, waitVars, streamVars
  <1>1. CASE UNCHANGED <<stream, told>>
    BY <1>1 DEF IdleUntold
  <1>2. ASSUME NEW d \in Client, NEW t \in Token, StreamFetch(d, t) PROVE told'[c] = {}
    BY <1>2 DEF StreamFetch, StreamTo, TypeOK, IdleUntold
  <1>3. ASSUME NEW d \in Client, StreamSubscribe(d) \/ StreamClose(d) PROVE told'[c] = {}
    BY <1>3 DEF StreamSubscribe, StreamClose, StreamTo, TypeOK, IdleUntold
  <1>4. ASSUME NEW k \in Task, Begin(k) \/ Announce(k) PROVE told'[c] = {}
    <2>1. job[k] \in Token /\ stream' = stream
      BY <1>4 DEF Begin, Announce, TypeOK
    <2>2. told'[c] = told[c] \/ stream[c] = "open"
      BY <1>4, <2>1, PublishType DEF Begin, Announce, Event
    <2> QED BY <2>1, <2>2 DEF IdleUntold
  <1>5. ASSUME NEW k \in Task, write_result(k) \/ write_sandbox_failure(k) \/ Crash(k)
        PROVE  UNCHANGED <<stream, told>>
    BY <1>5 DEF write_result, write_sandbox_failure, Crash
  <1>6. ASSUME NEW t \in Token, create(t) \/ Sweep(t) \/ Expire(t)
        PROVE  UNCHANGED <<stream, told>>
    BY <1>6 DEF create, Sweep, Expire
  <1>7. ASSUME NEW t \in Token,
               WaitStep(t) \/ Deadline(t) \/ ListenerError(t) \/ Disconnect(t)
        PROVE  UNCHANGED <<stream, told>>
    BY <1>7 DEF WaitStep, subscribe, Look, NextEvent, FetchFinished, FinalFetch,
                Deadline, ListenerError, Leave, Disconnect
  <1>8. ASSUME NEW k \in Task, NEW t \in Token, Claim(k, t)
        PROVE  UNCHANGED <<stream, told>>
    BY <1>8 DEF Claim
  <1> QED
    BY <1>1, <1>2, <1>3, <1>4, <1>5, <1>6, <1>7, <1>8 DEF Next, TaskStep, vars

LEMMA ReplyTruthStep ==
    ASSUME TypeOK, InboxTruth, ReplyTruth, [Next]_vars PROVE ReplyTruth'
  <1> SUFFICES ASSUME NEW t \in Token
               PROVE  /\ waiter'[t] = "final" => why'[t] \in {"deadline", "broken"}
                      /\ waiter'[t] = "pending" =>
                            why'[t] \in {"deadline", "broken"} \/ t \in unwritten'
    BY DEF ReplyTruth, PendingReplyIsTimeout
  <1> DEFINE Goal == /\ waiter'[t] = "final" => why'[t] \in {"deadline", "broken"}
                     /\ waiter'[t] = "pending" =>
                            why'[t] \in {"deadline", "broken"} \/ t \in unwritten'
  <1> USE DEF workerVars, waitVars, streamVars
  <1>1. ASSUME UNCHANGED <<waiter, why>>, unwritten \subseteq unwritten' PROVE Goal
    BY <1>1 DEF ReplyTruth, PendingReplyIsTimeout
  <1>2. ASSUME NEW u \in Token, NEW x, waiter' = [waiter EXCEPT ![u] = x],
               x \notin {"final", "pending"}, UNCHANGED <<why, unwritten>>
        PROVE  Goal
    BY <1>2 DEF ReplyTruth, PendingReplyIsTimeout, TypeOK
  <1>3. ASSUME NEW u \in Token, Deadline(u) \/ ListenerError(u) PROVE Goal
    BY <1>3 DEF Deadline, ListenerError, Leave, Reply, ReplyTruth,
                PendingReplyIsTimeout, TypeOK
  <1>4. ASSUME NEW u \in Token, FetchFinished(u) PROVE Goal
    <2>1. CASE GoTo(u, "loop") \/ FetchError(u)
      BY <1>2, <1>4, <2>1 DEF FetchFinished, GoTo, FetchError, Reply
    <2>2. CASE Reply(u, View(u)) /\ UNCHANGED why
      <3>1. Settled(u)
        BY <1>4 DEF FetchFinished, InboxTruth
      <3>2. View(u) = "pending" => u \in unwritten
        BY <3>1 DEF View, Settled
      <3>3. View(u) # "final"
        BY DEF View
      <3> QED BY <1>4, <2>2, <3>2, <3>3
              DEF FetchFinished, Reply, ReplyTruth, PendingReplyIsTimeout, TypeOK
    <2> QED BY <1>4, <2>1, <2>2 DEF FetchFinished
  <1>5. ASSUME NEW u \in Token, FinalFetch(u) PROVE Goal
    <2>1. CASE FetchError(u)
      <3>1. waiter' = [waiter EXCEPT ![u] = "error"] /\ UNCHANGED <<why, unwritten>>
        BY <1>5, <2>1 DEF FinalFetch, FetchError, Reply
      <3>2. "error" \notin {"final", "pending"}
        OBVIOUS
      <3> QED BY <1>2, <3>1, <3>2
    <2>2. CASE Reply(u, View(u)) /\ UNCHANGED why
      <3>1. why[u] \in {"deadline", "broken"}
        BY <1>5 DEF FinalFetch, ReplyTruth
      <3> QED BY <1>5, <2>2, <3>1
              DEF FinalFetch, Reply, ReplyTruth, PendingReplyIsTimeout, TypeOK
    <2> QED BY <1>5, <2>1, <2>2 DEF FinalFetch
  <1>6. ASSUME NEW u \in Token, subscribe(u) \/ Look(u) \/ Disconnect(u) PROVE Goal
    <2>1. CASE subscribe(u)
      BY <1>2, <2>1 DEF subscribe
    <2>2. CASE Look(u)
      <3>1. CASE GoTo(u, "loop")
        BY <1>2, <2>2, <3>1 DEF Look, GoTo
      <3>2. CASE Reply(u, "done") /\ UNCHANGED why
        BY <1>2, <2>2, <3>2 DEF Look, Reply
      <3>3. CASE FetchError(u)
        BY <1>2, <2>2, <3>3 DEF Look, FetchError, Reply
      <3> QED BY <2>2, <3>1, <3>2, <3>3 DEF Look
    <2>3. CASE Disconnect(u)
      BY <1>2, <2>3 DEF Disconnect, Reply
    <2> QED BY <1>6, <2>1, <2>2, <2>3
  <1>7. ASSUME NEW u \in Token, NextEvent(u) PROVE Goal
    BY <1>7 DEF NextEvent, ReplyTruth, PendingReplyIsTimeout, TypeOK
  <1>8. ASSUME NEW u \in Token, create(u) PROVE Goal
    <2>1. PICK x \in {"none", "subscribe"} : waiter' = [waiter EXCEPT ![u] = x]
      BY <1>8 DEF create
    <2> QED BY <1>2, <1>8, <2>1 DEF create
  <1>9. ASSUME NEW u \in Token, Sweep(u) \/ Expire(u) PROVE Goal
    BY <1>1, <1>9 DEF Sweep, Expire
  <1>10. ASSUME NEW k \in Task, TaskStep(k) \/ Crash(k) PROVE Goal
    BY <1>1, <1>10 DEF TaskStep, Begin, write_result, write_sandbox_failure, Announce, Crash
  <1>11. ASSUME NEW k \in Task, NEW u \in Token, Claim(k, u) PROVE Goal
    BY <1>1, <1>11 DEF Claim
  <1>12. ASSUME NEW c \in Client, NEW u \in Token, StreamFetch(c, u) PROVE Goal
    BY <1>1, <1>12 DEF StreamFetch, StreamTo
  <1>13. ASSUME NEW c \in Client, StreamSubscribe(c) \/ StreamClose(c) PROVE Goal
    BY <1>1, <1>13 DEF StreamSubscribe, StreamClose, StreamTo
  <1>14. CASE UNCHANGED vars
    BY <1>1, <1>14 DEF vars
  <1> QED
    BY <1>3, <1>4, <1>5, <1>6, <1>7, <1>8, <1>9, <1>10, <1>11, <1>12, <1>13, <1>14
       DEF Next, WaitStep

-----------------------------------------------------------------------------
(* No announcement is overlooked.                                          *)

\* Why the request of t may sleep although the row is terminal.
Excused(t) == Holds(inbox[t], "finished") \/ Announcing(t) \/ t \in lost

\* A step of one task leaves what the other tasks are going to announce.
LEMMA AnnouncingOthers ==
    ASSUME TypeOK, NEW t \in Token, Announcing(t), NEW k \in Task,
           pc[k] \notin {"failing", "announce"} \/ job[k] # t,
           \A j \in Task \ {k} : pc'[j] = pc[j] /\ job'[j] = job[j]
    PROVE  Announcing(t)'
  BY DEF Announcing

LEMMA NoLostFinishedStep ==
    ASSUME TypeOK, NoLostFinished, [Next]_vars PROVE NoLostFinished'
  <1> SUFFICES ASSUME NEW t \in Token, t \in listening', waiter'[t] = "loop",
                      phase'[t] = "terminal"
               PROVE  Excused(t)'
    <2>1. listening' \subseteq Token
      BY NextType DEF TypeOK
    <2> QED BY <2>1 DEF NoLostFinished, Excused, Holds
  <1> USE DEF workerVars, waitVars, streamVars
  <1>0. /\ "finished" \in Event /\ "processing" \in Event /\ inbox[t] \in Seq(Event)
        /\ t \in listening /\ waiter[t] = "loop" /\ phase[t] = "terminal" => Excused(t)
    BY DEF Event, TypeOK, NoLostFinished, Excused, Holds
  \* The request and the row of t have not moved, and nothing was forgotten.
  <1>1. ASSUME t \in listening, waiter[t] = "loop", phase[t] = "terminal",
               inbox'[t] = inbox[t], lost \subseteq lost', Announcing(t) => Announcing(t)'
        PROVE  Excused(t)'
    BY <1>0, <1>1 DEF Excused
  <1>2. ASSUME UNCHANGED <<pc, job>> PROVE Announcing(t) => Announcing(t)'
    BY <1>2 DEF Announcing
  <1>3. ASSUME NEW u \in Token, create(u) \/ Sweep(u) \/ Expire(u) PROVE Excused(t)'
    <2>1. /\ t \in listening /\ UNCHANGED <<pc, job, inbox, lost>>
          /\ waiter[t] = "loop" /\ phase[t] = "terminal"
      BY <1>3 DEF create, Sweep, Expire, Row!Submit, Row!Requeue, Row!Forget, TypeOK,
                  Row!TypeOK
    <2> QED BY <1>1, <1>2, <2>1
  <1>4. ASSUME NEW k \in Task, NEW u \in Token, Claim(k, u) PROVE Excused(t)'
    <2>1. /\ t \in listening /\ UNCHANGED <<inbox, lost>>
          /\ waiter[t] = "loop" /\ phase[t] = "terminal"
      BY <1>4 DEF Claim, Row!Start, TypeOK, Row!TypeOK
    <2>2. Announcing(t) => Announcing(t)'
      BY <1>4, AnnouncingOthers DEF Claim, TypeOK
    <2> QED BY <1>1, <2>1, <2>2
  <1>5. ASSUME NEW k \in Task, Begin(k) PROVE Excused(t)'
    <2>1. /\ t \in listening /\ waiter[t] = "loop" /\ phase[t] = "terminal"
          /\ job[k] \in Token /\ publish_event(job[k], "processing")
      BY <1>5 DEF Begin, TypeOK
    <2>2. /\ inbox'[t] = inbox[t] \/ inbox'[t] = Append(inbox[t], "processing")
          /\ lost \subseteq lost'
      BY <1>0, <2>1, PublishType
    <2>3. Announcing(t) => Announcing(t)'
      BY <1>5, AnnouncingOthers DEF Begin, TypeOK
    <2>4. Holds(inbox[t], "finished") => Holds(inbox'[t], "finished")
      <3>1. Holds(inbox[t], "finished") => Holds(Append(inbox[t], "processing"), "finished")
        BY <1>0, HoldsAppend
      <3> QED BY <2>2, <3>1
    <2> QED BY <1>0, <2>1, <2>2, <2>3, <2>4 DEF Excused
  <1>6. ASSUME NEW k \in Task, write_result(k) \/ write_sandbox_failure(k)
        PROVE  Excused(t)'
    <2>1. CASE job[k] = t
      BY <1>6, <2>1 DEF write_result, write_sandbox_failure, Excused, Announcing, TypeOK
    <2>2. CASE job[k] # t
      <3>1. /\ t \in listening /\ inbox' = inbox /\ lost' = lost
            /\ waiter[t] = "loop" /\ phase[t] = "terminal"
        BY <1>6, <2>2 DEF write_result, write_sandbox_failure, Store, TypeOK, Row!TypeOK
      <3>2. Announcing(t) => Announcing(t)'
        BY <1>6, <2>2, AnnouncingOthers DEF write_result, write_sandbox_failure, TypeOK
      <3> QED BY <1>1, <3>1, <3>2
    <2> QED BY <2>1, <2>2
  <1>7. ASSUME NEW k \in Task, Announce(k) PROVE Excused(t)'
    <2>1. /\ t \in listening /\ waiter[t] = "loop" /\ phase[t] = "terminal"
          /\ job[k] \in Token /\ publish_event(job[k], "finished")
      BY <1>7 DEF Announce, TypeOK
    <2>2. CASE job[k] = t
      <3>1. inbox'[t] = Append(inbox[t], "finished") \/ t \in lost'
        BY <1>0, <2>1, <2>2, PublishType
      <3> QED BY <1>0, <3>1, HoldsAppend DEF Excused
    <2>3. CASE job[k] # t
      <3>1. inbox'[t] = inbox[t] /\ lost \subseteq lost'
        BY <1>0, <2>1, <2>3, PublishType
      <3>2. Announcing(t) => Announcing(t)'
        BY <1>7, <2>3, AnnouncingOthers DEF Announce, TypeOK
      <3> QED BY <1>1, <2>1, <3>1, <3>2
    <2> QED BY <2>2, <2>3
  <1>8. ASSUME NEW k \in Task, Crash(k) PROVE Excused(t)'
    <2>1. CASE job[k] = t
      BY <1>8, <2>1 DEF Crash, Excused
    <2>2. CASE job[k] # t
      <3>1. Announcing(t) => Announcing(t)'
        BY <1>8, <2>2, AnnouncingOthers DEF Crash, TypeOK
      <3> QED BY <1>1, <1>8, <3>1 DEF Crash
    <2> QED BY <2>1, <2>2
  <1>9. ASSUME NEW u \in Token, subscribe(u) PROVE Excused(t)'
    <2>1. u # t
      BY <1>9 DEF subscribe, TypeOK
    <2> QED BY <1>1, <1>2, <1>9, <2>1 DEF subscribe, TypeOK
  <1>10. ASSUME NEW u \in Token, NEW x, Reply(u, x),
                UNCHANGED <<phase, pc, job, lost>>
         PROVE  Excused(t)'
    <2>1. u # t
      BY <1>10 DEF Reply
    <2> QED BY <1>1, <1>2, <1>10, <2>1 DEF Reply, TypeOK
  <1>11. ASSUME NEW u \in Token, GoTo(u, "loop"), phase[u] # "terminal",
                UNCHANGED <<phase, pc, job, lost>>
         PROVE  Excused(t)'
    <2>1. u # t
      BY <1>11
    <2> QED BY <1>1, <1>2, <1>11, <2>1 DEF GoTo, TypeOK
  <1>12. ASSUME NEW u \in Token, Look(u) PROVE Excused(t)'
    BY <1>10, <1>11, <1>12 DEF Look, FetchError
  <1>13. ASSUME NEW u \in Token, FetchFinished(u) PROVE Excused(t)'
    BY <1>10, <1>11, <1>13 DEF FetchFinished, FetchError
  <1>14. ASSUME NEW u \in Token, FinalFetch(u) \/ Deadline(u) \/ ListenerError(u)
                                     \/ Disconnect(u)
         PROVE  Excused(t)'
    BY <1>10, <1>14 DEF FinalFetch, FetchError, Deadline, ListenerError, Leave, Disconnect
  <1>15. ASSUME NEW u \in Token, NextEvent(u) PROVE Excused(t)'
    <2>1. CASE u # t
      BY <1>1, <1>2, <1>15, <2>1 DEF NextEvent, TypeOK
    <2>2. CASE u = t
      <3>1. /\ t \in listening /\ waiter[t] = "loop" /\ phase[t] = "terminal"
            /\ inbox[t] # <<>> /\ inbox'[t] = Tail(inbox[t])
            /\ Head(inbox[t]) # "finished"
            /\ UNCHANGED <<pc, job, lost>>
        BY <1>15, <2>2 DEF NextEvent, TypeOK
      <3> QED BY <1>0, <1>2, <3>1, HoldsTail DEF Excused
    <2> QED BY <2>1, <2>2
  <1>16. ASSUME NEW c \in Client, NEW u \in Token, StreamFetch(c, u) PROVE Excused(t)'
    BY <1>1, <1>2, <1>16 DEF StreamFetch, StreamTo
  <1>17. ASSUME NEW c \in Client, StreamSubscribe(c) \/ StreamClose(c) PROVE Excused(t)'
    BY <1>1, <1>2, <1>17 DEF StreamSubscribe, StreamClose, StreamTo
  <1>18. CASE UNCHANGED vars
    BY <1>1, <1>2, <1>18 DEF vars
  <1> QED
    BY <1>3, <1>4, <1>5, <1>6, <1>7, <1>8, <1>9, <1>12, <1>13, <1>14, <1>15, <1>16,
       <1>17, <1>18 DEF Next, TaskStep, WaitStep

-----------------------------------------------------------------------------
(* The theorems.                                                           *)

\* Truth of the announcements and completeness of the wake-ups, together with
\* the types, are preserved by every step of workers, requests and streams.
THEOREM Invariance == Spec => []Inv
  <1>1. Init => Inv
    <2> SUFFICES ASSUME Init PROVE Inv
      OBVIOUS
    <2>1. TypeOK
      BY InitType
    <2>2. InboxTruth
      BY HoldsNothing DEF Init, InboxTruth, Event
    <2>3. TaskTruth /\ StreamTruth /\ IdleUntold /\ ReplyTruth /\ NoLostFinished
      BY DEF Init, TaskTruth, StreamTruth, IdleUntold, ReplyTruth,
             PendingReplyIsTimeout, NoLostFinished
    <2> QED BY <2>1, <2>2, <2>3 DEF Inv
  <1>2. Inv /\ [Next]_vars => Inv'
    BY NextType, TaskTruthStep, InboxTruthStep, StreamTruthStep, IdleUntoldStep,
       ReplyTruthStep, NoLostFinishedStep DEF Inv
  <1> QED BY <1>1, <1>2, PTL DEF Spec

\* A wait=true request never sleeps through a Finished that was delivered.
THEOREM NoLostFinishedHolds == Spec => []NoLostFinished
  <1>1. Inv => NoLostFinished
    BY DEF Inv
  <1> QED BY <1>1, Invariance, PTL

\* A wait=true reply with an unfinished submission means that the time was up
\* or a connection broke, unless a failure could not be stored.
THEOREM PendingReplyIsTimeoutHolds == Spec => []PendingReplyIsTimeout
  <1>1. Inv => PendingReplyIsTimeout
    BY DEF Inv, ReplyTruth
  <1> QED BY <1>1, Invariance, PTL

\* No stream reports the end of a submission before its row does.
THEOREM AnnouncedIsStoredHolds == Spec => []AnnouncedIsStored
  <1>1. Inv => AnnouncedIsStored
    BY DEF Inv, StreamTruth, AnnouncedIsStored
  <1> QED BY <1>1, Invariance, PTL
=============================================================================
