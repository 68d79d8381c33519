-------------------------- MODULE PlaygroundProofs --------------------------
(* Proofs about Playground, for any number of runs, any length of the      *)
(* history and any finished rows.                                          *)
EXTENDS Playground, FiniteSetTheorems, SequenceTheorems, TLAPS

-----------------------------------------------------------------------------
(* The inductive invariant.                                                *)

\* A finished row has been stored by the end of an execution, and no frame comes of
\* an end that has not been.
Sound ==
    \A r \in Runs : /\ phase[r] = "terminal" =>
                         ends[r] # <<>> /\ ends[r][Len(ends[r])].row \in Outcome \ {NoResult}
                    /\ passed[r] \subseteq DOMAIN ends[r]

\* A GET on its way was sent by the frame of an end, one for each.
Fetching ==
    /\ \A g \in gets : /\ g.of \in passed[g.run] /\ g.run \in finished /\ pc[g.run] = "fetch"
                        /\ g.of <= g.since /\ g.since <= Len(ends[g.run])
    /\ \A g, h \in gets : g.run = h.run /\ g.of = h.of => g = h

\* Until the verdict a stream is read for its own run; only a run that has begun
\* has a controller.
Streams ==
    \A r \in Runs : /\ r \in reader \ finished => pc[r] = "stream"
                    /\ r \in finished => pc[r] \in {"fetch", "done"}
                    /\ pc[r] = "none" => r \notin aborted /\ r # ctlRef

Started == {r \in Runs : pc[r] # "none"}

\* The runs are numbered in the order they began.
Numbered == Started = 1..Current

\* An entry reports the polling loop of a run that is over, or an end whose frame has
\* come and whose GET has returned.
Recorded ==
    \A i \in DOMAIN history : history[i].run \in Runs =>
       \/ history[i].of = 0 /\ history[i].run \notin finished /\ pc[history[i].run] = "done"
       \/ /\ history[i].of \in passed[history[i].run] /\ history[i].run \in finished
          /\ \A g \in gets : g.run = history[i].run => g.of # history[i].of

\* Without overlap only the latest run is neither settled nor aborted.
OneUnsettled == ~overlap => \A r \in Runs : Unsettled(r) => r = Current

\* If moreover no answer came late, the page holds that run's controller and, until
\* the verdict, its stream, and its status is the one the run has given it.
Held ==
    ~overlap /\ ~late => \A r \in Runs : Unsettled(r) =>
        /\ ctlRef = r
        /\ r \in reader => streamRef = r /\ pc[r] = "stream"
        /\ pc[r] = "submit" => status = "queued"
        /\ pc[r] = "stream" => status = "processing"

\* A pane that is not mounted is as it will be when it is mounted.
PaneKept == ~shown => Pane!Fresh

Inv == /\ TypeOK /\ Sound /\ Fetching /\ Streams /\ Numbered /\ Recorded /\ HistoryTrue
       /\ OneUnsettled /\ ShownIsCurrent /\ Held /\ PaneKept /\ TabFollowsVerdict

-----------------------------------------------------------------------------
(* Operators.                                                              *)

\* The page's word for a finished row is a verdict.
LEMMA KindIsVerdict ==
    ASSUME NEW o \in Outcome
    PROVE  statusKind(o.kind) \in Verdict \ {"idle", "queued", "processing"}
  <1>1. statusKind(o.kind) \in Verdict
    BY DEF Verdict
  <1>2. o.kind \notin {"idle", "queued", "processing"}
    BY OutcomeAssumption
  <1>3. statusKind(o.kind) \notin {"idle", "queued", "processing"}
    BY <1>2 DEF statusKind
  <1> QED BY <1>1, <1>3

\* What is kept of a history are its first entries.
LEMMA KeptProperties ==
    ASSUME NEW S, NEW h \in Seq(S)
    PROVE  /\ Kept(h) \in Seq(S)
           /\ Len(Kept(h)) = (IF Len(h) < HistoryMax THEN Len(h) ELSE HistoryMax)
           /\ Len(Kept(h)) <= HistoryMax
           /\ \A i \in 1..Len(Kept(h)) : i \in 1..Len(h) /\ Kept(h)[i] = h[i]
  <1> DEFINE n == IF Len(h) < HistoryMax THEN Len(h) ELSE HistoryMax
  <1>1. Len(h) \in Nat /\ n \in 0..Len(h) /\ n <= HistoryMax
    BY HistoryAssumption, LenProperties
  <1>2. /\ SubSeq(h, 1, n) \in Seq(S) /\ Len(SubSeq(h, 1, n)) = n
        /\ \A i \in 1..n : SubSeq(h, 1, n)[i] = h[i]
    BY <1>1, SubSeqProperties
  <1> QED BY <1>1, <1>2 DEF Kept

\* A new entry comes first, the others move down by one.
LEMMA RecordProperties ==
    ASSUME NEW e \in Entry, NEW h \in Seq(Entry)
    PROVE  LET k == Kept(<<e>> \o h)
           IN  /\ k \in Seq(Entry) /\ Len(k) <= HistoryMax
               /\ \A i \in DOMAIN k : \/ i = 1 /\ k[i] = e
                                      \/ i > 1 /\ i - 1 \in DOMAIN h /\ k[i] = h[i - 1]
  <1> DEFINE f == <<e>>
             c == f \o h
             k == Kept(c)
  <1>1. f \in Seq(Entry) /\ Len(f) = 1 /\ f[1] = e
    OBVIOUS
  <1> HIDE DEF f
  <1>2. /\ c \in Seq(Entry) /\ Len(c) = 1 + Len(h)
        /\ \A i \in 1..Len(c) : c[i] = IF i <= 1 THEN f[i] ELSE h[i - 1]
    <2>1. /\ c \in Seq(Entry) /\ Len(c) = Len(f) + Len(h)
          /\ \A i \in 1..Len(f) + Len(h) : c[i] = IF i <= Len(f) THEN f[i] ELSE h[i - Len(f)]
      BY <1>1, ConcatProperties, Zenon
    <2> QED BY <1>1, <2>1
  <1> HIDE DEF c
  <1>3. /\ k \in Seq(Entry) /\ Len(k) <= HistoryMax
        /\ \A i \in 1..Len(k) : i \in 1..Len(c) /\ k[i] = c[i]
    BY <1>2, KeptProperties
  <1> HIDE DEF k
  <1>4. DOMAIN k = 1..Len(k) /\ DOMAIN h = 1..Len(h) /\ Len(h) \in Nat /\ Len(k) \in Nat
    BY <1>3, LenProperties
  <1>5. ASSUME NEW i \in 1..Len(k)
        PROVE  \/ i = 1 /\ k[i] = e
               \/ i > 1 /\ i - 1 \in DOMAIN h /\ k[i] = h[i - 1]
    <2>1. i \in 1..Len(c) /\ k[i] = c[i] /\ c[i] = IF i <= 1 THEN f[i] ELSE h[i - 1]
      BY <1>2, <1>3
    <2>2. i \in Nat /\ i >= 1 /\ i <= 1 + Len(h)
      BY <1>2, <1>4, <2>1
    <2> QED BY <1>1, <1>4, <2>1, <2>2
  <1>6. QED BY <1>3, <1>4, <1>5 DEF k, c, f

\* The run that begins is the one after the latest.
LEMMA FreshIsNext ==
    ASSUME TypeOK, Numbered, NEW r \in Runs, Fresh(r)
    PROVE  r = Current + 1 /\ Current \in Nat
  <1>1. IsFiniteSet(Started)
    <2>1. IsFiniteSet(Runs)
      BY FS_Interval, MaxRunsAssumption DEF Runs
    <2> QED BY <2>1, FS_Subset DEF Started
  <1>2. Current \in Nat
    BY <1>1, FS_CardinalityType DEF Current, Started
  <1>3. r \in Nat /\ r >= 1 /\ r \notin 1..Current
    BY MaxRunsAssumption DEF Numbered, Started, Fresh, Runs
  <1>4. r > 1 => r - 1 \in Runs /\ pc[r - 1] # "none"
    BY <1>3, MaxRunsAssumption DEF Fresh, Runs
  <1>5. r > 1 => r - 1 \in 1..Current
    BY <1>4 DEF Numbered, Started
  <1> QED BY <1>2, <1>3, <1>5

-----------------------------------------------------------------------------
(* Types.                                                                  *)

\* TypeOK but for the pane.
CoreType ==
    /\ status \in Verdict /\ token \in Runs \cup {None}
    /\ out \subseteq Runs /\ err \subseteq Runs /\ cmp \subseteq Runs /\ metrics \in Runs \cup {None}
    /\ history \in Seq(Entry) /\ Len(history) <= HistoryMax
    /\ pc \in [Runs -> {"none", "submit", "stream", "poll", "fetch", "done"}]
    /\ aborted \subseteq Runs /\ finished \subseteq Runs /\ reader \subseteq Runs
    /\ streamRef \in Runs \cup {None} /\ ctlRef \in Runs \cup {None}
    /\ gets \subseteq Get /\ passed \in [Runs -> SUBSET Nat]
    /\ phase \in [Runs -> Row!Phase] /\ ends \in [Runs -> Seq(End)]
    /\ tasks \in [Runs -> Nat] /\ faults \in Nat
    /\ overlap \in BOOLEAN /\ ended \subseteq Runs /\ late \in BOOLEAN

LEMMA TypeParts == TypeOK <=> CoreType /\ Pane!TypeOK
  BY DEF TypeOK, CoreType, Row!TypeOK

LEMMA TypePartsNext == CoreType' /\ Pane!TypeOK' => TypeOK'
  BY DEF TypeOK, CoreType, Row!TypeOK

LEMMA Words ==
    /\ {"idle", "accepted", "cancelled", "se", "queued", "processing"} \subseteq Verdict
    /\ None \notin Runs
  BY MaxRunsAssumption DEF Verdict, Live, None, Runs

LEMMA InitType == Init => TypeOK
  <1> SUFFICES ASSUME Init PROVE TypeOK
    OBVIOUS
  <1>1. history \in Seq(Entry) /\ Len(history) <= HistoryMax
    <2> DEFINE h == [i \in 1..Earlier |-> [run |-> None, verdict |-> "accepted", of |-> 0]]
    <2>1. h \in Seq(Entry)
      BY HistoryAssumption, Words DEF Entry
    <2> HIDE DEF h
    <2>2. Kept(h) \in Seq(Entry) /\ Len(Kept(h)) <= HistoryMax
      BY <2>1, KeptProperties
    <2> QED BY <2>2 DEF Init, loadHistory, h
  <1>2. Pane!TypeOK
    BY DEF Init, Pane!Fresh, Pane!TypeOK, Pane!Tab
  <1>3. CoreType
    <2>1. <<>> \in Seq(End)
      OBVIOUS
    <2>2. ends \in [Runs -> Seq(End)]
      BY <2>1 DEF Init
    <2> QED BY <1>1, <2>2, Words DEF Init, CoreType, Row!Init, Row!TypeOK, Row!Phase
  <1> QED BY <1>2, <1>3, TypeParts

\* The row of a run becomes the view.
LEMMA ApplyType ==
    ASSUME CoreType, NEW r \in Runs, NEW v \in 0..Len(ends[r]), NEW row \in Rows(r, v)
    PROVE  /\ statusKind(row.kind) \in Verdict
           /\ v # 0 /\ ends[r][v].row # NoResult =>
                 /\ row = ends[r][v].row /\ row \in Outcome
                 /\ statusKind(row.kind) \notin {"idle", "queued", "processing"}
           /\ applySubmissionView(r, row) =>
                 /\ status' = statusKind(row.kind)
                 /\ out' \in {out, {r}} /\ err' \in {err, {r}} /\ cmp' \in {cmp, {r}}
                 /\ metrics' = r
  <1>1. CASE v = 0 \/ ends[r][v].row = NoResult
    <2>1. PICK k \in Live : row = Unfinished(k)
      BY <1>1 DEF Rows
    <2>2. row.kind = k
      BY <2>1 DEF Unfinished
    <2>3. statusKind(row.kind) = k
      BY <2>2 DEF statusKind, Live
    <2> QED BY <1>1, <2>3, Words DEF Live, applySubmissionView
  <1>2. CASE v # 0 /\ ends[r][v].row # NoResult
    <2>1. row = ends[r][v].row
      BY <1>2 DEF Rows
    <2>2. ends[r] \in Seq(End) /\ v \in 1..Len(ends[r])
      BY <1>2 DEF CoreType
    <2>3. ends[r][v] \in End
      BY <2>2
    <2>4. row \in Outcome
      BY <1>2, <2>1, <2>3 DEF End
    <2> QED BY <1>2, <2>1, <2>4, KindIsVerdict DEF applySubmissionView
  <1> QED BY <1>1, <1>2

LEMMA RecordType ==
    ASSUME CoreType, NEW r \in Runs, NEW k \in Verdict, NEW n \in Nat, recordHistory(r, k, n)
    PROVE  /\ history' \in Seq(Entry) /\ Len(history') <= HistoryMax
           /\ \A i \in DOMAIN history' :
                \/ /\ i = 1 /\ history'[i].run = r
                   /\ history'[i].verdict = k /\ history'[i].of = n
                \/ i > 1 /\ i - 1 \in DOMAIN history /\ history'[i] = history[i - 1]
  <1> DEFINE e == [run |-> r, verdict |-> k, of |-> n]
  <1>1. e \in Entry /\ e.run = r /\ e.verdict = k /\ e.of = n
    BY DEF Entry
  <1>2. history' = Kept(<<e>> \o history)
    BY DEF recordHistory
  <1> HIDE DEF e
  <1>3. /\ history' \in Seq(Entry) /\ Len(history') <= HistoryMax
        /\ \A i \in DOMAIN history' :
              \/ i = 1 /\ history'[i] = e
              \/ i > 1 /\ i - 1 \in DOMAIN history /\ history'[i] = history[i - 1]
    BY <1>1, <1>2, RecordProperties DEF CoreType
  <1> QED BY <1>1, <1>3

-----------------------------------------------------------------------------
(* The parts of the steps that handle a verdict.                           *)

LEMMA EndOf ==
    ASSUME CoreType, NEW r \in Runs, NEW i \in DOMAIN ends[r]
    PROVE  ends[r][i] \in End /\ ends[r][i].verdict \in Verdict
  <1>1. ends[r] \in Seq(End)
    BY DEF CoreType
  <1>2. ends[r][i] \in End
    BY <1>1
  <1> QED BY <1>2 DEF End

\* What the frames of a chunk do from the first verdict on, the verdicts being I.
Chunk(r, I) ==
    /\ I # {}
    /\ gets' = gets \cup {[run |-> r, of |-> i, since |-> Len(ends[r])] : i \in I}
    /\ passed' = [passed EXCEPT ![r] = @ \cup I]
    /\ \/ \E i \in I : status' = ends[r][i].verdict
       \/ status' = "processing"
    /\ out' \in {out, out \cup {r}} /\ err' \in {err, err \cup {r}}

LEMMA FinishedChunk ==
    ASSUME NEW r \in Runs, EventFinished(r) PROVE \E I \in SUBSET Due(r) : Chunk(r, I)
  BY DEF EventFinished, Chunk

\* What the answer to the GET g does.
RowArrives(r, g) ==
    /\ Returned(r, g)
    /\ \/ r \in aborted /\ UNCHANGED <<view, history>>
       \/ /\ r \notin aborted
          /\ \E v \in g.since..Len(ends[r]) : \E row \in Rows(r, v) :
               applySubmissionView(r, row) /\ recordHistory(r, statusKind(row.kind), g.of)

LEMMA FetchArrives ==
    ASSUME NEW r \in Runs, FetchRow(r) PROVE \E g \in gets : RowArrives(r, g)
  BY DEF FetchRow, RowArrives

LEMMA GetType ==
    ASSUME CoreType, Sound, Fetching, NEW g \in gets
    PROVE  /\ g.run \in Runs /\ g.of \in Nat /\ g.since \in Nat
           /\ g.of \in DOMAIN ends[g.run] /\ g.of # 0
           /\ g.of <= g.since /\ g.since <= Len(ends[g.run])
  <1>1. g.run \in Runs /\ g.of \in Nat /\ g.since \in Nat
    BY DEF CoreType, Get
  <1>2. g.of \in DOMAIN ends[g.run] /\ g.of <= g.since /\ g.since <= Len(ends[g.run])
    BY <1>1 DEF Sound, Fetching
  <1>3. DOMAIN ends[g.run] = 1..Len(ends[g.run])
    BY <1>1 DEF CoreType
  <1> QED BY <1>1, <1>2, <1>3

\* What the end of an execution does to the row.
Concluded(r, e) ==
    /\ tasks[r] > 0 /\ tasks' = [tasks EXCEPT ![r] = @ - 1]
    /\ ends' = [ends EXCEPT ![r] = Append(@, e)]
    /\ phase' = IF e.row = NoResult THEN phase ELSE [phase EXCEPT ![r] = "terminal"]
    /\ e.row = NoResult => Stored(r) = NoResult

LEMMA ConcludesEnd ==
    ASSUME CoreType, NEW r \in Runs, Conclude(r) \/ ConcludeUnwritten(r)
    PROVE  \E e \in End : Concluded(r, e)
  <1>0. NoResult \notin Outcome
    BY OutcomeAssumption DEF NoResult, Unfinished
  <1>1. CASE Conclude(r)
    <2>1. PICK o \in Outcome : Concludes(r, statusKind(o.kind), o)
      BY <1>1 DEF Conclude
    <2> DEFINE e == [verdict |-> statusKind(o.kind), row |-> o]
    <2>2. e \in End
      BY KindIsVerdict DEF End, Live
    <2>3. Concluded(r, e)
      BY <1>0, <2>1 DEF Concludes, Concluded
    <2> QED BY <2>2, <2>3
  <1>2. CASE ConcludeUnwritten(r)
    <2>1. PICK row \in Outcome \cup {Stored(r)} : Concludes(r, "se", row)
      BY <1>2 DEF ConcludeUnwritten
    <2> DEFINE e == [verdict |-> "se", row |-> row]
    <2>2. Stored(r) \in Outcome \cup {NoResult}
      <3>1. CASE ends[r] = <<>>
        BY <3>1 DEF Stored
      <3>2. CASE ends[r] # <<>>
        <4>1. ends[r] \in Seq(End)
          BY DEF CoreType
        <4>2. Len(ends[r]) \in DOMAIN ends[r]
          BY <3>2, <4>1
        <4>3. ends[r][Len(ends[r])] \in End
          BY <4>1, <4>2
        <4> QED BY <3>2, <4>3 DEF Stored, End
      <3> QED BY <3>1, <3>2
    <2>3. e \in End
      BY <2>2, Words DEF End, Live
    <2>4. Concluded(r, e)
      BY <1>0, <2>1 DEF Concludes, Concluded
    <2> QED BY <2>3, <2>4
  <1> QED BY <1>1, <1>2

-----------------------------------------------------------------------------
(* Every step, but for the pane.                                           *)

LEMMA UserType == ASSUME CoreType, User PROVE CoreType'
  <1>1. CASE Run
    BY <1>1, Words DEF Run, runOnApi, clearResults, CoreType, service
  <1>2. CASE Cancel \/ selectLang \/ reset
    BY <1>2, Words DEF Cancel, selectLang, reset, cancelRun, clearResults, CoreType, service
  <1> QED BY <1>1, <1>2 DEF User

LEMMA StreamType == ASSUME CoreType, NEW r \in Runs, Stream(r) PROVE CoreType'
  <1>1. CASE EventProcessing(r)
    BY <1>1, Words DEF EventProcessing, CoreType, service, runs
  <1>2. CASE EventChunk(r)
    BY <1>2 DEF EventChunk, CoreType, service, runs
  <1>3. CASE EventFinished(r)
    <2>1. PICK I \in SUBSET Due(r) : Chunk(r, I)
      BY <1>3, FinishedChunk
    <2>2. ends[r] \in Seq(End) /\ DOMAIN ends[r] = 1..Len(ends[r]) /\ Len(ends[r]) \in Nat
      BY DEF CoreType
    <2>3. I \subseteq 1..Len(ends[r]) /\ I \subseteq Nat
      BY <2>2 DEF Due
    <2>4. \A i \in I : ends[r][i].verdict \in Verdict
      BY EndOf DEF Due
    <2>5. status' \in Verdict
      BY <2>1, <2>4, Words DEF Chunk
    <2>6. gets' \subseteq Get
      BY <2>1, <2>2, <2>3 DEF Chunk, CoreType, Get
    <2>7. passed' \in [Runs -> SUBSET Nat]
      BY <2>1, <2>3 DEF Chunk, CoreType
    <2>8. out' \subseteq Runs /\ err' \subseteq Runs
      BY <2>1 DEF Chunk, CoreType
    <2> QED BY <1>3, <2>5, <2>6, <2>7, <2>8 DEF EventFinished, CoreType, service
  <1>4. CASE StreamFails(r)
    BY <1>4 DEF StreamFails, CoreType, view, service
  <1>5. CASE StreamEnds(r)
    BY <1>5 DEF StreamEnds, CoreType, view, service
  <1>6. CASE StreamMisses(r)
    <2>1. DOMAIN ends[r] \subseteq Nat
      BY DEF CoreType
    <2>2. passed' \in [Runs -> SUBSET Nat]
      BY <1>6, <2>1 DEF StreamMisses, CoreType
    <2> QED BY <1>6, <2>2 DEF StreamMisses, CoreType, view, service
  <1> QED BY <1>1, <1>2, <1>3, <1>4, <1>5, <1>6 DEF Stream

LEMMA RequestType == ASSUME CoreType, Sound, Fetching, NEW r \in Runs, Request(r) PROVE CoreType'
  <1>1. CASE Acknowledged(r)
    BY <1>1, Words DEF Acknowledged, Row!Submit, Row!Phase, CoreType
  <1>2. CASE SubmitFails(r)
    <2>1. phase' \in [Runs -> Row!Phase]
      BY <1>2 DEF SubmitFails, Row!Submit, Row!Phase, CoreType
    <2> QED BY <1>2, <2>1, Words DEF SubmitFails, CoreType, view
  <1>3. CASE FetchRow(r)
    <2>1. PICK g \in gets : RowArrives(r, g)
      BY <1>3, FetchArrives
    <2>2. gets' \subseteq Get /\ pc' \in [Runs -> {"none", "submit", "stream", "poll", "fetch", "done"}]
      BY <2>1 DEF RowArrives, Returned, CoreType
    <2>3. CASE UNCHANGED <<view, history>>
      BY <1>3, <2>1, <2>2, <2>3 DEF FetchRow, RowArrives, Returned, CoreType, view, service
    <2>4. CASE ~ UNCHANGED <<view, history>>
      <3>0. PICK v \in g.since..Len(ends[r]) : \E row \in Rows(r, v) :
                applySubmissionView(r, row) /\ recordHistory(r, statusKind(row.kind), g.of)
        BY <2>1, <2>4 DEF RowArrives
      <3>1. PICK row \in Rows(r, v) :
                applySubmissionView(r, row) /\ recordHistory(r, statusKind(row.kind), g.of)
        BY <3>0
      <3>2. v \in 0..Len(ends[r]) /\ g.of \in Nat
        BY <2>1, GetType
      <3>3. /\ status' \in Verdict /\ statusKind(row.kind) \in Verdict
            /\ out' \in {out, {r}} /\ err' \in {err, {r}} /\ cmp' \in {cmp, {r}} /\ metrics' = r
        BY <3>1, <3>2, ApplyType
      <3>4. history' \in Seq(Entry) /\ Len(history') <= HistoryMax
        BY <3>1, <3>2, <3>3, RecordType
      <3> QED BY <1>3, <2>1, <2>2, <3>3, <3>4 DEF FetchRow, RowArrives, Returned, CoreType, service
    <2> QED BY <2>3, <2>4
  <1>4. CASE FetchFails(r)
    <2>1. PICK g \in gets : Returned(r, g) /\ recordHistory(r, ends[r][g.of].verdict, g.of)
      BY <1>4 DEF FetchFails
    <2>2. gets' \subseteq Get /\ pc' \in [Runs -> {"none", "submit", "stream", "poll", "fetch", "done"}]
      BY <2>1 DEF Returned, CoreType
    <2>3. g.of \in DOMAIN ends[r] /\ g.of \in Nat
      BY <2>1, GetType DEF Returned
    <2>4. ends[r][g.of].verdict \in Verdict
      BY <2>3, EndOf
    <2>5. history' \in Seq(Entry) /\ Len(history') <= HistoryMax
      BY <2>1, <2>3, <2>4, RecordType
    <2> QED BY <1>4, <2>1, <2>2, <2>5 DEF FetchFails, Returned, CoreType, view, service
  <1>5. CASE PollRow(r)
    <2>1. Len(ends[r]) \in 0..Len(ends[r])
      BY DEF CoreType
    <2>2. PICK row \in Rows(r, Len(ends[r])) :
              applySubmissionView(r, row) /\ recordHistory(r, statusKind(row.kind), 0)
      BY <1>5 DEF PollRow
    <2>3. /\ status' \in Verdict /\ statusKind(row.kind) \in Verdict
          /\ out' \in {out, {r}} /\ err' \in {err, {r}} /\ cmp' \in {cmp, {r}} /\ metrics' = r
      BY <2>1, <2>2, ApplyType
    <2>4. history' \in Seq(Entry) /\ Len(history') <= HistoryMax
      BY <2>2, <2>3, RecordType
    <2> QED BY <1>5, <2>3, <2>4 DEF PollRow, Ends, CoreType, service
  <1>6. CASE PollFails(r) \/ PollAborts(r)
    BY <1>6, Words DEF PollFails, PollAborts, Ends, CoreType, view, service
  <1> QED BY <1>1, <1>2, <1>3, <1>4, <1>5, <1>6 DEF Request

LEMMA ServeType == ASSUME CoreType, NEW r \in Runs, Serve(r) PROVE CoreType'
  <1>1. CASE Claim(r)
    BY <1>1 DEF Serve, Claim, Row!Start, Row!Phase, CoreType, view, runs
  <1>2. CASE Sweep(r)
    <2>1. phase' \in [Runs -> Row!Phase]
      BY <1>2 DEF Sweep, Row!Requeue, Row!Phase, CoreType
    <2>2. faults' \in Nat
      BY <1>2 DEF Sweep, Fault, CoreType
    <2> QED BY <1>2, <2>1, <2>2 DEF Serve, Sweep, CoreType, view, runs
  <1>3. ASSUME Conclude(r) \/ ConcludeUnwritten(r) PROVE CoreType'
    <2>1. PICK e \in End : Concluded(r, e)
      BY <1>3, ConcludesEnd
    <2>2. phase' \in [Runs -> Row!Phase]
      BY <2>1 DEF Concluded, Row!Phase, CoreType
    <2>3. ends' \in [Runs -> Seq(End)]
      BY <2>1 DEF Concluded, CoreType
    <2>4. tasks' \in [Runs -> Nat]
      BY <2>1 DEF Concluded, CoreType
    <2>5. faults' \in Nat
      BY <1>3 DEF Conclude, ConcludeUnwritten, Fault, CoreType
    <2> QED BY <2>2, <2>3, <2>4, <2>5 DEF Serve, CoreType, view, runs
  <1> QED BY <1>1, <1>2, <1>3 DEF Serve

-----------------------------------------------------------------------------
(* The pane.                                                               *)

\* The pane's own steps change nothing else, the others do not mount it.
Aside == UNCHANGED <<status, out, err, cmp, metrics, token, history, pc, aborted, finished,
                     reader, streamRef, ctlRef, gets, passed, phase, ends, tasks, faults, overlap, ended,
                     late>>

LEMMA PaneAside == ASSUME PickTab \/ SetMode \/ UNCHANGED vars PROVE Aside
  BY DEF PickTab, SetMode, Pane!pickTab, Pane!setMode, Aside, vars, view, pane, runs, service

LEMMA MountedStays ==
    ASSUME User \/ \E r \in Runs : Stream(r) \/ Request(r) \/ Serve(r) PROVE shown' = shown
  <1>1. CASE User
    BY <1>1 DEF User, Run, runOnApi, Cancel, selectLang, reset
  <1>2. ASSUME NEW r \in Runs, Stream(r) PROVE shown' = shown
    BY <1>2 DEF Stream, EventProcessing, EventChunk, EventFinished, StreamFails, StreamEnds,
                StreamMisses
  <1>3. ASSUME NEW r \in Runs, Request(r) PROVE shown' = shown
    BY <1>3 DEF Request, Acknowledged, SubmitFails, FetchRow, FetchFails, PollRow, PollFails,
                PollAborts
  <1>4. ASSUME NEW r \in Runs, Serve(r) PROVE shown' = shown
    BY <1>4 DEF Serve
  <1> QED BY <1>1, <1>2, <1>3, <1>4

\* What the effects of a commit do, for the old status, texts and pane.
LEMMA EffectsShape ==
    ASSUME NEW s0, NEW e0, NEW c0, NEW tab0 \in Pane!Tab, NEW picked0 \in BOOLEAN,
           NEW unseen0 \in SUBSET Pane!Tab,
           Pane!Effects(s0, e0, c0, tab0, picked0, unseen0)
    PROVE  /\ tab' \in Pane!Tab /\ picked' \in BOOLEAN /\ unseen' \subseteq Pane!Tab
           /\ picked' = (picked0 /\ ~(status' = "queued" /\ s0 # "queued"))
           /\ tab' # "compile" \/ cmp' # {} \/ (c0 = {} /\ tab0 = "compile")
           /\ ~picked' /\ status' # s0 /\ status' \in Pane!Failure =>
                tab' = Pane!TerminalTab(status', err', cmp')
           /\ ~picked' /\ status' = s0 =>
                \/ e0 = {} /\ err' # {} /\ tab' = "stderr"
                \/ ~(e0 = {} /\ err' # {}) /\ cmp' # {} /\ tab' = "compile"
                \/ /\ ~(e0 = {} /\ err' # {}) /\ (cmp' = {} \/ c0 # {})
                   /\ tab' = tab0 \/ (cmp' = {} /\ c0 # {})
  <1>1. PICK longer \in BOOLEAN :
          /\ c0 = {} => longer = TRUE
          /\ LET newRun   == status' = "queued" /\ s0 # "queued"
                 manual   == picked0 /\ ~newRun
                 compiled == cmp' # c0 /\ cmp' # {} /\ longer
                 cleared  == cmp' # c0 /\ cmp' = {} /\ tab0 = "compile"
                 firstErr == e0 = {} /\ err' # {}
                 routed   == IF status' # s0 THEN Pane!TerminalTab(status', err', cmp') ELSE "none"
                 target   == IF ~manual /\ routed # "none" THEN routed
                             ELSE IF ~manual /\ firstErr THEN "stderr"
                             ELSE IF ~manual /\ compiled THEN "compile"
                             ELSE IF cleared \/ newRun THEN "stdout" ELSE tab0
                 marked   == {t \in {"compile", "stderr"} :
                                 /\ manual /\ tab0 # t
                                 /\ IF t = "compile" THEN compiled ELSE firstErr}
                 kept     == IF newRun THEN {} ELSE unseen0
             IN  /\ tab' = target
                 /\ picked' = manual
                 /\ unseen' = (kept \cup marked) \ (IF target # tab0 THEN {target} ELSE {})
    BY ZenonT(30) DEF Pane!Effects
  <1>2. Pane!TerminalTab(status', err', cmp') \in Pane!Tab \cup {"none"}
    BY DEF Pane!TerminalTab, Pane!Tab
  <1>3. status' \in Pane!Failure => Pane!TerminalTab(status', err', cmp') # "none"
    BY DEF Pane!TerminalTab, Pane!Failure
  <1>4. cmp' = {} => Pane!TerminalTab(status', err', cmp') # "compile"
    BY DEF Pane!TerminalTab
  <1>5. tab' \in Pane!Tab
    BY <1>1, <1>2 DEF Pane!Tab
  <1>6. /\ picked' \in BOOLEAN
        /\ picked' = (picked0 /\ ~(status' = "queued" /\ s0 # "queued"))
    BY <1>1
  <1>7. unseen' \subseteq Pane!Tab
    BY <1>1 DEF Pane!Tab
  <1>8. tab' # "compile" \/ cmp' # {} \/ (c0 = {} /\ tab0 = "compile")
    BY <1>1, <1>4
  <1>9. ~picked' /\ status' # s0 /\ status' \in Pane!Failure =>
           tab' = Pane!TerminalTab(status', err', cmp')
    BY <1>1, <1>3
  <1>10. ~picked' /\ status' = s0 =>
            \/ e0 = {} /\ err' # {} /\ tab' = "stderr"
            \/ ~(e0 = {} /\ err' # {}) /\ cmp' # {} /\ tab' = "compile"
            \/ /\ ~(e0 = {} /\ err' # {}) /\ (cmp' = {} \/ c0 # {})
               /\ tab' = tab0 \/ (cmp' = {} /\ c0 # {})
    BY <1>1
  <1> QED BY <1>5, <1>6, <1>7, <1>8, <1>9, <1>10

LEMMA NextType == ASSUME TypeOK, Sound, Fetching, [Next]_vars PROVE TypeOK'
  <1>0. CoreType /\ Pane!TypeOK
    BY TypeParts
  <1>1. CASE PickTab \/ SetMode \/ UNCHANGED vars
    <2>1. CoreType'
      BY <1>0, <1>1, PaneAside DEF Aside, CoreType
    <2>2. CASE PickTab
      BY <1>0, <2>1, <2>2, TypePartsNext DEF PickTab, Pane!pickTab, Pane!tabs, Pane!TypeOK
    <2>3. CASE SetMode
      <3>1. shown' \in BOOLEAN
        BY <1>0, <2>3 DEF SetMode, Pane!setMode, Pane!TypeOK
      <3>2. "stdout" \in Pane!Tab /\ {} \in SUBSET Pane!Tab /\ FALSE \in BOOLEAN
        BY DEF Pane!Tab
      <3>3. CASE Pane!Effects("idle", {}, {}, "stdout", FALSE, {})
        <4>1. tab' \in Pane!Tab /\ picked' \in BOOLEAN /\ unseen' \subseteq Pane!Tab
          BY <3>2, <3>3, EffectsShape, Zenon
        <4> QED BY <2>1, <3>1, <4>1, TypePartsNext DEF Pane!TypeOK
      <3>4. CASE tab' = "stdout" /\ picked' = FALSE /\ unseen' = {}
        BY <2>1, <3>1, <3>2, <3>4, TypePartsNext DEF Pane!TypeOK
      <3> QED BY <2>3, <3>3, <3>4 DEF SetMode, Pane!setMode
    <2>4. CASE UNCHANGED vars
      BY <1>0, <2>1, <2>4, TypePartsNext DEF vars, pane, Pane!TypeOK
    <2> QED BY <1>1, <2>2, <2>3, <2>4
  <1>2. CASE (User \/ \E r \in Runs : Stream(r) \/ Request(r) \/ Serve(r)) /\ Rendered
    <2>1. CoreType'
      BY <1>0, <1>2, UserType, StreamType, RequestType, ServeType
    <2>2. shown' = shown
      BY <1>2, MountedStays
    <2>3. tab' \in Pane!Tab /\ picked' \in BOOLEAN /\ unseen' \subseteq Pane!Tab
      BY <1>0, <1>2, EffectsShape DEF Rendered, Pane!Commit, Pane!TypeOK
    <2> QED BY <1>0, <2>1, <2>2, <2>3, TypePartsNext DEF Pane!TypeOK
  <1> QED BY <1>1, <1>2 DEF Next

\* A step of the page that is not the pane's own.
Work == User \/ \E r \in Runs : Stream(r) \/ Request(r) \/ Serve(r)

LEMMA Steps == ASSUME [Next]_vars PROVE Aside \/ (Work /\ Rendered)
  BY PaneAside DEF Next, Work

-----------------------------------------------------------------------------
(* Rows, streams and requests.                                             *)

\* The ends of a run stay as they are; an execution adds one.
LEMMA EndsStep ==
    ASSUME TypeOK, Work, NEW q \in Runs
    PROVE  /\ Len(ends[q]) \in Nat /\ Len(ends'[q]) \in Nat /\ Len(ends[q]) <= Len(ends'[q])
           /\ DOMAIN ends[q] = 1..Len(ends[q]) /\ DOMAIN ends'[q] = 1..Len(ends'[q])
           /\ \A i \in DOMAIN ends[q] : i \in DOMAIN ends'[q] /\ ends'[q][i] = ends[q][i]
           /\ \/ ends'[q] = ends[q] /\ (phase'[q] = "terminal" <=> phase[q] = "terminal")
              \/ \E e \in End : ends'[q] = Append(ends[q], e) /\ Concluded(q, e)
  <1>0. CoreType
    BY TypeParts
  <1>1. ends[q] \in Seq(End) /\ Len(ends[q]) \in Nat /\ DOMAIN ends[q] = 1..Len(ends[q])
    BY <1>0 DEF CoreType
  <1> DEFINE Stays == ends'[q] = ends[q] /\ (phase'[q] = "terminal" <=> phase[q] = "terminal")
             Grows == \E e \in End : ends'[q] = Append(ends[q], e) /\ Concluded(q, e)
  <1>2. Stays \/ Grows
    <2>1. CASE User
      BY <2>1 DEF User, Run, runOnApi, Cancel, selectLang, reset, service
    <2>2. ASSUME NEW r \in Runs, Stream(r) PROVE Stays
      BY <2>2 DEF Stream, EventProcessing, EventChunk, EventFinished, StreamFails, StreamEnds,
           StreamMisses, service
    <2>3. ASSUME NEW r \in Runs, Request(r) PROVE Stays
      BY <1>0, <2>3 DEF Request, Acknowledged, SubmitFails, Row!Submit, FetchRow, FetchFails, PollRow,
           PollFails, PollAborts, service, CoreType
    <2>4. ASSUME NEW r \in Runs, Claim(r) \/ Sweep(r) PROVE Stays
      BY <1>0, <2>4 DEF Claim, Sweep, Row!Start, Row!Requeue, CoreType
    <2>5. ASSUME NEW r \in Runs, Conclude(r) \/ ConcludeUnwritten(r) PROVE Stays \/ Grows
      <3>1. PICK e \in End : Concluded(r, e)
        BY <1>0, <2>5, ConcludesEnd
      <3>2. CASE r = q
        <4>1. ends'[q] = Append(ends[q], e)
          BY <1>0, <3>1, <3>2 DEF Concluded, CoreType
        <4> QED BY <3>1, <3>2, <4>1
      <3>3. CASE r # q
        BY <1>0, <3>1, <3>3 DEF Concluded, CoreType
      <3> QED BY <3>2, <3>3
    <2> HIDE DEF Stays, Grows
    <2>6. CASE User
      BY <2>1, <2>6 DEF Stays
    <2> QED BY <2>2, <2>3, <2>4, <2>5, <2>6 DEF Work, Serve
  <1>3. CASE Stays
    BY <1>1, <1>3
  <1>4. CASE Grows
    <2>1. PICK e \in End : ends'[q] = Append(ends[q], e) /\ Concluded(q, e)
      BY <1>4
    <2>2. /\ Len(ends'[q]) = Len(ends[q]) + 1 /\ DOMAIN ends'[q] = 1..Len(ends[q]) + 1
          /\ \A i \in 1..Len(ends[q]) : ends'[q][i] = ends[q][i]
      BY <1>1, <2>1, AppendProperties
    <2> QED BY <1>1, <2>1, <2>2
  <1> QED BY <1>2, <1>3, <1>4

LEMMA SoundStep == ASSUME TypeOK, Sound, Work PROVE Sound'
  <1>0. CoreType
    BY TypeParts
  <1> SUFFICES ASSUME NEW q \in Runs
               PROVE  /\ phase'[q] = "terminal" =>
                           /\ ends'[q] # <<>>
                           /\ ends'[q][Len(ends'[q])].row \in Outcome \ {NoResult}
                      /\ passed'[q] \subseteq DOMAIN ends'[q]
    BY DEF Sound
  <1>1. phase'[q] = "terminal" => ends'[q] # <<>> /\ ends'[q][Len(ends'[q])].row \in Outcome \ {NoResult}
    <2>1. CASE ends'[q] = ends[q] /\ (phase'[q] = "terminal" <=> phase[q] = "terminal")
      BY <2>1 DEF Sound
    <2>2. ASSUME NEW e \in End, ends'[q] = Append(ends[q], e), Concluded(q, e), phase'[q] = "terminal"
          PROVE  ends'[q] # <<>> /\ ends'[q][Len(ends'[q])].row \in Outcome \ {NoResult}
      <3>1. ends[q] \in Seq(End)
        BY <1>0 DEF CoreType
      <3>2. ends'[q] # <<>> /\ ends'[q][Len(ends'[q])] = e
        <4>1. Append(ends[q], e) \in Seq(End) /\ Len(Append(ends[q], e)) = Len(ends[q]) + 1
          BY <3>1
        <4>2. Append(ends[q], e)[Len(ends[q]) + 1] = e /\ Len(ends[q]) \in Nat
          BY <3>1
        <4> QED BY <2>2, <4>1, <4>2
      <3>3. e.row # NoResult
        <4>1. SUFFICES ASSUME e.row = NoResult PROVE FALSE
          OBVIOUS
        <4>2. phase[q] = "terminal" /\ Stored(q) = NoResult
          BY <2>2, <4>1 DEF Concluded
        <4> QED BY <4>2 DEF Sound, Stored
      <3> QED BY <3>2, <3>3 DEF End
    <2> QED BY <2>1, <2>2, EndsStep
  <1>2. passed'[q] \subseteq DOMAIN ends'[q]
    <2>1. DOMAIN ends[q] \subseteq DOMAIN ends'[q]
      BY EndsStep
    <2>2. passed'[q] \subseteq DOMAIN ends[q]
      <3>1. CASE User
        BY <3>1 DEF User, Run, runOnApi, Cancel, selectLang, reset, cancelRun, Sound
      <3>2. ASSUME NEW r \in Runs, EventFinished(r) PROVE passed'[q] \subseteq DOMAIN ends[q]
        <4>1. PICK I \in SUBSET Due(r) : Chunk(r, I)
          BY <3>2, FinishedChunk
        <4> QED BY <1>0, <4>1 DEF Chunk, Due, Sound, CoreType
      <3>3. ASSUME NEW r \in Runs, StreamMisses(r) PROVE passed'[q] \subseteq DOMAIN ends[q]
        BY <1>0, <3>3 DEF StreamMisses, Sound, CoreType
      <3>4. ASSUME NEW r \in Runs,
                   EventProcessing(r) \/ EventChunk(r) \/ StreamFails(r) \/ StreamEnds(r) \/ Serve(r)
            PROVE  passed'[q] \subseteq DOMAIN ends[q]
        BY <3>4 DEF EventProcessing, EventChunk, StreamFails, StreamEnds, Serve, runs, Sound
      <3>5. ASSUME NEW r \in Runs, Request(r) PROVE passed' = passed
        BY <3>5 DEF Request, Acknowledged, SubmitFails, FetchRow, FetchFails, PollRow, PollFails,
             PollAborts, Ends, Returned
      <3> QED BY <3>1, <3>2, <3>3, <3>4, <3>5 DEF Work, Stream, Sound
    <2> QED BY <2>1, <2>2
  <1> QED BY <1>1, <1>2

\* The steps that send a GET or end one; no other touches a GET, or a run that has
\* one on its way.
LEMMA GetsStep ==
    ASSUME TypeOK, Streams, Fetching, Work
    PROVE  \/ \E r \in Runs : \E I \in SUBSET Due(r) :
                 Hears(r) /\ Chunk(r, I) /\ finished' = finished \cup {r} /\ pc' = [pc EXCEPT ![r] = "fetch"]
           \/ \E r \in Runs, g \in gets : Returned(r, g)
           \/ /\ gets' = gets /\ finished' = finished
              /\ \A r \in Runs : r \in finished => passed'[r] = passed[r] /\ pc'[r] = pc[r]
              /\ \A r \in Runs : passed[r] \subseteq passed'[r] \/ r \notin finished
  <1>0. CoreType
    BY TypeParts
  <1> DEFINE G == /\ gets' = gets /\ finished' = finished
                  /\ \A r \in Runs : r \in finished => passed'[r] = passed[r] /\ pc'[r] = pc[r]
                  /\ \A r \in Runs : passed[r] \subseteq passed'[r] \/ r \notin finished
  <1>1. Run => G
    BY <1>0 DEF Run, runOnApi, Fresh, Streams, CoreType
  <1>2. Cancel \/ selectLang \/ reset => G
    BY DEF Cancel, selectLang, reset, cancelRun
  <1>3. ASSUME NEW r \in Runs, EventProcessing(r) \/ EventChunk(r) \/ StreamEnds(r) \/ Serve(r) PROVE G
    BY <1>3 DEF EventProcessing, EventChunk, StreamEnds, Serve, runs
  <1>4. ASSUME NEW r \in Runs, StreamFails(r) \/ StreamMisses(r) PROVE G
    BY <1>0, <1>4 DEF StreamFails, StreamMisses, Streams, CoreType
  <1>5. ASSUME NEW r \in Runs, Acknowledged(r) \/ SubmitFails(r) PROVE G
    BY <1>0, <1>5 DEF Acknowledged, SubmitFails, Streams, CoreType
  <1>6. ASSUME NEW r \in Runs, PollRow(r) \/ PollFails(r) \/ PollAborts(r) PROVE G
    BY <1>0, <1>6 DEF PollRow, PollFails, PollAborts, Ends, Streams, CoreType
  <1>7. ASSUME NEW r \in Runs, FetchRow(r) \/ FetchFails(r) PROVE \E g \in gets : Returned(r, g)
    BY <1>7 DEF FetchRow, FetchFails
  <1>8. ASSUME NEW r \in Runs, EventFinished(r)
        PROVE  /\ \E I \in SUBSET Due(r) : Chunk(r, I)
               /\ Hears(r) /\ finished' = finished \cup {r} /\ pc' = [pc EXCEPT ![r] = "fetch"]
    BY <1>8, FinishedChunk DEF EventFinished
  <1> HIDE DEF G
  <1>9. \/ G
        \/ \E r \in Runs, g \in gets : Returned(r, g)
        \/ \E r \in Runs : EventFinished(r)
    BY <1>1, <1>2, <1>3, <1>4, <1>5, <1>6, <1>7 DEF Work, User, Stream, Request
  <1> QED BY <1>8, <1>9 DEF G

LEMMA FetchingStep == ASSUME TypeOK, Sound, Streams, Fetching, Work PROVE Fetching'
  <1>0. CoreType
    BY TypeParts
  <1>1. ASSUME NEW g \in gets PROVE g.run \in Runs /\ Len(ends[g.run]) <= Len(ends'[g.run])
    BY <1>0, EndsStep DEF CoreType, Get
  <1>2. ASSUME NEW r \in Runs, NEW I \in SUBSET Due(r), Hears(r), Chunk(r, I),
               finished' = finished \cup {r}, pc' = [pc EXCEPT ![r] = "fetch"]
        PROVE  Fetching'
    <2>1. passed'[r] = passed[r] \cup I /\ \A q \in Runs \ {r} : passed'[q] = passed[q]
      BY <1>0, <1>2 DEF Chunk, CoreType
    <2>2. pc'[r] = "fetch" /\ \A q \in Runs \ {r} : pc'[q] = pc[q]
      BY <1>0, <1>2 DEF CoreType
    <2>3. \A i \in I : i \in 1..Len(ends[r]) /\ i \notin passed[r]
      BY <1>0, <1>2 DEF Due, CoreType
    <2>4. gets' = gets \cup {[run |-> r, of |-> i, since |-> Len(ends[r])] : i \in I}
      BY <1>2 DEF Chunk
    <2>5. Len(ends[r]) \in Nat /\ Len(ends'[r]) \in Nat /\ Len(ends[r]) <= Len(ends'[r])
      BY EndsStep
    <2>6. ASSUME NEW g \in gets'
          PROVE  /\ g.of \in passed'[g.run] /\ g.run \in finished' /\ pc'[g.run] = "fetch"
                 /\ g.of <= g.since /\ g.since <= Len(ends'[g.run])
                 /\ g \in gets \/ (g.run = r /\ g.of \in I /\ g.since = Len(ends[r]))
      <3>1. CASE g \in gets
        <4>1. g.since \in Nat /\ g.run \in Runs /\ Len(ends[g.run]) \in Nat /\ Len(ends'[g.run]) \in Nat
          BY <1>0, <3>1, EndsStep DEF CoreType, Get
        <4>2. g.since <= Len(ends'[g.run])
          BY <1>1, <3>1, <4>1 DEF Fetching
        <4> QED BY <1>2, <2>1, <2>2, <3>1, <4>1, <4>2 DEF Fetching
      <3>2. CASE g \notin gets
        <4>1. PICK i \in I : g = [run |-> r, of |-> i, since |-> Len(ends[r])]
          BY <2>4, <2>6, <3>2
        <4>2. g.run = r /\ g.of = i /\ g.since = Len(ends[r])
          BY <4>1
        <4> QED BY <1>2, <2>1, <2>2, <2>3, <2>5, <4>1, <4>2
      <3> QED BY <3>1, <3>2
    <2>7. ASSUME NEW g \in gets', NEW h \in gets', g.run = h.run, g.of = h.of PROVE g = h
      <3>1. gets' \subseteq [run : Runs, of : Nat, since : Nat]
        <4>1. I \subseteq Nat
          BY <2>3, <2>5
        <4> QED BY <1>0, <2>4, <2>5, <4>1 DEF CoreType, Get
      <3>2. CASE g \in gets /\ h \in gets
        BY <2>7, <3>2 DEF Fetching
      <3>3. CASE g \in gets /\ h \notin gets
        BY <2>3, <2>6, <2>7, <3>3 DEF Fetching
      <3>4. CASE g \notin gets /\ h \in gets
        BY <2>3, <2>6, <2>7, <3>4 DEF Fetching
      <3>5. CASE g \notin gets /\ h \notin gets
        <4>1. g.since = h.since
          BY <2>6, <3>5
        <4> QED BY <2>7, <3>1, <4>1
      <3> QED BY <3>2, <3>3, <3>4, <3>5
    <2> QED BY <2>6, <2>7 DEF Fetching
  <1>3. ASSUME NEW r \in Runs, NEW g \in gets, Returned(r, g) PROVE Fetching'
    <2>1. gets' \subseteq gets /\ finished' = finished /\ passed' = passed
      BY <1>3 DEF Returned
    <2>2. \A h \in gets' : pc'[h.run] = pc[h.run]
      BY <1>0, <1>3 DEF Returned, CoreType
    <2>3. ASSUME NEW h \in gets' PROVE h.since <= Len(ends'[h.run])
      <3>1. /\ h.since \in Nat /\ h.run \in Runs /\ Len(ends[h.run]) \in Nat
            /\ Len(ends'[h.run]) \in Nat /\ Len(ends[h.run]) <= Len(ends'[h.run])
        BY <1>0, <2>1, EndsStep DEF CoreType, Get
      <3> QED BY <2>1, <3>1 DEF Fetching
    <2> QED BY <2>1, <2>2, <2>3 DEF Fetching
  <1>4. ASSUME gets' = gets, finished' = finished,
               \A r \in Runs : r \in finished => passed'[r] = passed[r] /\ pc'[r] = pc[r]
        PROVE  Fetching'
    <2>1. ASSUME NEW h \in gets PROVE h.run \in Runs /\ h.since <= Len(ends'[h.run])
      <3>1. /\ h.since \in Nat /\ h.run \in Runs /\ Len(ends[h.run]) \in Nat
            /\ Len(ends'[h.run]) \in Nat /\ Len(ends[h.run]) <= Len(ends'[h.run])
        BY <1>0, EndsStep DEF CoreType, Get
      <3> QED BY <3>1 DEF Fetching
    <2> QED BY <1>4, <2>1 DEF Fetching
  <1> QED BY <1>2, <1>3, <1>4, GetsStep

LEMMA StreamsStep == ASSUME TypeOK, Sound, Fetching, Streams, Work PROVE Streams'
  <1>0. CoreType
    BY TypeParts
  <1> DEFINE G(q) == /\ q \in reader' \ finished' => pc'[q] = "stream"
                     /\ q \in finished' => pc'[q] \in {"fetch", "done"}
                     /\ pc'[q] = "none" => q \notin aborted' /\ q # ctlRef'
  <1> SUFFICES ASSUME NEW q \in Runs PROVE G(q)
    BY DEF Streams
  <1>1. CASE Run
    BY <1>0, <1>1 DEF Run, runOnApi, Fresh, Streams, CoreType
  <1>2. CASE Cancel \/ selectLang \/ reset
    BY <1>0, <1>2, Words DEF Cancel, selectLang, reset, cancelRun, Streams, CoreType
  <1>3. ASSUME NEW r \in Runs, EventProcessing(r) \/ EventChunk(r) \/ StreamMisses(r) \/ Serve(r) PROVE G(q)
    BY <1>3 DEF EventProcessing, EventChunk, StreamMisses, Serve, runs, Streams
  <1>4. ASSUME NEW r \in Runs, EventFinished(r) PROVE G(q)
    BY <1>0, <1>4 DEF EventFinished, Hears, Streams, CoreType
  <1>5. ASSUME NEW r \in Runs, StreamFails(r) \/ StreamEnds(r) PROVE G(q)
    BY <1>0, <1>5 DEF StreamFails, StreamEnds, Streams, CoreType
  <1>6. ASSUME NEW r \in Runs, Acknowledged(r) PROVE G(q)
    BY <1>0, <1>6 DEF Acknowledged, Streams, CoreType
  <1>7. ASSUME NEW r \in Runs, SubmitFails(r) PROVE G(q)
    BY <1>0, <1>7, Words DEF SubmitFails, Streams, CoreType
  <1>8. ASSUME NEW r \in Runs, FetchRow(r) \/ FetchFails(r) PROVE G(q)
    <2>1. PICK g \in gets : Returned(r, g)
      BY <1>8 DEF FetchRow, FetchFails
    <2>2. pc[r] = "fetch" /\ r \in finished
      BY <2>1 DEF Returned, Fetching
    <2>3. /\ reader' = reader /\ finished' = finished /\ aborted' = aborted /\ ctlRef' = ctlRef
          /\ pc' = pc \/ pc' = [pc EXCEPT ![r] = "done"]
      BY <2>1 DEF Returned
    <2> QED BY <1>0, <2>2, <2>3 DEF Streams, CoreType
  <1>9. ASSUME NEW r \in Runs, PollRow(r) \/ PollFails(r) \/ PollAborts(r) PROVE G(q)
    BY <1>0, <1>9 DEF PollRow, PollFails, PollAborts, Ends, Streams, CoreType
  <1> QED BY <1>1, <1>2, <1>3, <1>4, <1>5, <1>6, <1>7, <1>8, <1>9 DEF Work, User, Stream, Request

\* No run goes back to where it had not begun, and only runOnApi begins one; a run
\* that is over stays so unless its stream is still read.
LEMMA PlacesStep ==
    ASSUME TypeOK, Sound, Fetching, Streams, Work, NEW q \in Runs
    PROVE  /\ pc[q] # "none" => pc'[q] # "none"
           /\ pc[q] = "done" /\ q \notin reader => pc'[q] = "done"
           /\ pc[q] = "done" /\ q \notin finished => pc'[q] = "done" /\ q \notin finished'
           /\ pc[q] = "none" => pc'[q] = "none" \/ (runOnApi(q) /\ Run)
           /\ q \in reader' => q \in reader \/ (pc[q] = "submit" /\ q \notin finished)
  <1>0. CoreType
    BY TypeParts
  <1> DEFINE G == /\ pc[q] # "none" => pc'[q] # "none"
                  /\ pc[q] = "done" /\ q \notin reader => pc'[q] = "done"
                  /\ pc[q] = "done" /\ q \notin finished => pc'[q] = "done" /\ q \notin finished'
                  /\ pc[q] = "none" => pc'[q] = "none" \/ (runOnApi(q) /\ Run)
                  /\ q \in reader' => q \in reader \/ (pc[q] = "submit" /\ q \notin finished)
  <1>1. CASE Run
    BY <1>0, <1>1 DEF Run, runOnApi, Fresh, CoreType
  <1>2. CASE Cancel \/ selectLang \/ reset
    BY <1>2 DEF Cancel, selectLang, reset, cancelRun
  <1>3. ASSUME NEW r \in Runs, Stream(r) PROVE G
    BY <1>0, <1>3 DEF Stream, EventProcessing, EventChunk, EventFinished, StreamFails, StreamEnds,
         StreamMisses, Hears, runs, Streams, CoreType
  <1>4. ASSUME NEW r \in Runs, Acknowledged(r) \/ SubmitFails(r) \/ PollRow(r) \/ PollFails(r) \/ PollAborts(r)
        PROVE  G
    BY <1>0, <1>4 DEF Acknowledged, SubmitFails, PollRow, PollFails, PollAborts, Ends, Streams, CoreType
  <1>5. ASSUME NEW r \in Runs, FetchRow(r) \/ FetchFails(r) PROVE G
    <2>1. PICK g \in gets : Returned(r, g)
      BY <1>5 DEF FetchRow, FetchFails
    <2>2. pc[r] = "fetch" /\ r \in finished
      BY <2>1 DEF Returned, Fetching
    <2>3. /\ reader' = reader /\ finished' = finished
          /\ pc' = pc \/ pc' = [pc EXCEPT ![r] = "done"]
      BY <2>1 DEF Returned
    <2> QED BY <1>0, <2>2, <2>3 DEF CoreType
  <1>6. ASSUME NEW r \in Runs, Serve(r) PROVE G
    BY <1>6 DEF Serve, runs
  <1> QED BY <1>1, <1>2, <1>3, <1>4, <1>5, <1>6 DEF Work, User, Request

\* The latest run is the one that begins in this step, or the same as before.
LEMMA CurrentStep ==
    ASSUME TypeOK, Sound, Fetching, Streams, Numbered, Work
    PROVE  /\ Numbered' /\ Current \in Nat
           /\ \/ \E r \in Runs : runOnApi(r) /\ Run /\ Current' = r /\ r = Current + 1
              \/ Current' = Current /\ Started' = Started
  <1>0. CoreType
    BY TypeParts
  <1>1. IsFiniteSet(Started) /\ Current = Cardinality(Started) /\ Current \in Nat
    <2>1. IsFiniteSet(Runs)
      BY FS_Interval, MaxRunsAssumption DEF Runs
    <2>2. IsFiniteSet(Started)
      BY <2>1, FS_Subset DEF Started
    <2> QED BY <2>2, FS_CardinalityType DEF Current, Started
  <1>2. Current' = Cardinality(Started')
    BY DEF Current, Started
  <1>3. CASE \E r \in Runs : pc[r] = "none" /\ pc'[r] # "none"
    <2>1. PICK r \in Runs : pc[r] = "none" /\ pc'[r] # "none"
      BY <1>3
    <2>2. runOnApi(r) /\ Run
      BY <2>1, PlacesStep
    <2>3. r = Current + 1
      BY <2>2, FreshIsNext DEF runOnApi
    <2>4. Started' = Started \cup {r} /\ r \notin Started
      BY <1>0, <2>1, <2>2 DEF runOnApi, Started, CoreType
    <2>5. Cardinality(Started \cup {r}) = Cardinality(Started) + 1
      BY <1>1, <2>4, FS_AddElement
    <2>6. Current' = r
      BY <1>1, <1>2, <2>3, <2>4, <2>5
    <2>7. Started' = 1..r
      <3>1. (1..Current) \cup {Current + 1} = 1..(Current + 1)
        BY <1>1
      <3> QED BY <2>3, <2>4, <3>1 DEF Numbered
    <2> QED BY <1>1, <2>2, <2>3, <2>6, <2>7 DEF Numbered
  <1>4. CASE ~ \E r \in Runs : pc[r] = "none" /\ pc'[r] # "none"
    <2>1. Started' = Started
      BY <1>4, PlacesStep DEF Started
    <2> QED BY <1>1, <1>2, <2>1 DEF Numbered
  <1> QED BY <1>3, <1>4

-----------------------------------------------------------------------------
(* The history.                                                            *)

\* The steps that record a run: the GET of an end has returned, with the row as it was
\* then or later, or without; or the polling loop has met a finished row.
LEMMA HistorySteps ==
    ASSUME TypeOK, Sound, Fetching, Work
    PROVE  \/ history' = history
           \/ \E r \in Runs, k \in Verdict, g \in gets :
                Returned(r, g) /\ recordHistory(r, k, g.of) /\ k \in Reported(r, g.of)
           \/ \E r \in Runs, k \in Verdict :
                /\ pc[r] = "poll" /\ pc'[r] = "done" /\ recordHistory(r, k, 0)
                /\ UNCHANGED <<finished, gets, passed>>
                /\ \E v \in DOMAIN ends[r] : ends[r][v].row # NoResult /\ k = statusKind(ends[r][v].row.kind)
  <1>0. CoreType
    BY TypeParts
  <1> DEFINE Got == \E r \in Runs, k \in Verdict, g \in gets :
                      Returned(r, g) /\ recordHistory(r, k, g.of) /\ k \in Reported(r, g.of)
             Polled == \E r \in Runs, k \in Verdict :
                /\ pc[r] = "poll" /\ pc'[r] = "done" /\ recordHistory(r, k, 0)
                /\ UNCHANGED <<finished, gets, passed>>
                /\ \E v \in DOMAIN ends[r] : ends[r][v].row # NoResult /\ k = statusKind(ends[r][v].row.kind)
  <1>1. ASSUME User PROVE history' = history
    BY <1>1 DEF User, Run, runOnApi, Cancel, selectLang, reset
  <1>2. ASSUME NEW r \in Runs, Stream(r) \/ Serve(r) PROVE history' = history
    BY <1>2 DEF Stream, EventProcessing, EventChunk, EventFinished, StreamFails, StreamEnds,
         StreamMisses, Serve
  <1>3. ASSUME NEW r \in Runs, Acknowledged(r) \/ SubmitFails(r) \/ PollFails(r) \/ PollAborts(r)
        PROVE  history' = history
    BY <1>3 DEF Acknowledged, SubmitFails, PollFails, PollAborts
  <1>4. ASSUME NEW r \in Runs, FetchRow(r) PROVE history' = history \/ Got
    <2>1. PICK g \in gets : RowArrives(r, g)
      BY <1>4, FetchArrives
    <2>2. CASE r \in aborted
      BY <2>1, <2>2 DEF RowArrives
    <2>3. CASE r \notin aborted
      <3>1. PICK v \in g.since..Len(ends[r]) : \E row \in Rows(r, v) :
                applySubmissionView(r, row) /\ recordHistory(r, statusKind(row.kind), g.of)
        BY <2>1, <2>3 DEF RowArrives
      <3>2. PICK row \in Rows(r, v) :
                applySubmissionView(r, row) /\ recordHistory(r, statusKind(row.kind), g.of)
        BY <3>1
      <3>3. g.run = r /\ Returned(r, g)
        BY <2>1 DEF RowArrives, Returned
      <3>4. v \in 0..Len(ends[r]) /\ v \in g.of..Len(ends[r])
        BY <1>0, <3>3, GetType
      <3>5. statusKind(row.kind) \in Verdict
        BY <1>0, <3>4, ApplyType
      <3>6. statusKind(row.kind) \in Reported(r, g.of)
        BY <3>2, <3>4 DEF Reported
      <3> QED BY <3>2, <3>3, <3>5, <3>6
    <2> QED BY <2>2, <2>3
  <1>5. ASSUME NEW r \in Runs, FetchFails(r) PROVE Got
    <2>1. PICK g \in gets : Returned(r, g) /\ recordHistory(r, ends[r][g.of].verdict, g.of)
      BY <1>5 DEF FetchFails
    <2>2. g.of \in DOMAIN ends[r]
      BY <1>0, <2>1, GetType DEF Returned
    <2>3. ends[r][g.of].verdict \in Verdict
      BY <1>0, <2>2, EndOf
    <2>4. ends[r][g.of].verdict \in Reported(r, g.of)
      BY DEF Reported
    <2> QED BY <2>1, <2>3, <2>4
  <1>6. ASSUME NEW r \in Runs, PollRow(r) PROVE Polled
    <2>1. PICK row \in Rows(r, Len(ends[r])) :
              applySubmissionView(r, row) /\ recordHistory(r, statusKind(row.kind), 0)
      BY <1>6 DEF PollRow
    <2>2. ends[r] # <<>> /\ ends[r][Len(ends[r])].row # NoResult
      BY <1>6 DEF PollRow, Sound
    <2>3. Len(ends[r]) \in DOMAIN ends[r] /\ Len(ends[r]) \in 0..Len(ends[r]) /\ Len(ends[r]) # 0
      BY <1>0, <2>2 DEF CoreType
    <2>4. statusKind(row.kind) \in Verdict /\ row = ends[r][Len(ends[r])].row
      BY <1>0, <2>1, <2>2, <2>3, ApplyType
    <2>5. pc[r] = "poll" /\ pc'[r] = "done" /\ UNCHANGED <<finished, gets, passed>>
      BY <1>0, <1>6 DEF PollRow, Ends, CoreType
    <2> QED BY <2>1, <2>2, <2>3, <2>4, <2>5
  <1> HIDE DEF Got, Polled
  <1>7. history' = history \/ Got \/ Polled
    <2>1. ASSUME NEW r \in Runs, Request(r) PROVE history' = history \/ Got \/ Polled
      BY <1>3, <1>4, <1>5, <1>6, <2>1 DEF Request
    <2> QED BY <1>1, <1>2, <2>1 DEF Work
  <1> QED BY <1>7 DEF Got, Polled

\* What an entry of the history may be.
Truthful(x) ==
    x.run \in Runs =>
       \/ x.of \in DOMAIN ends[x.run] /\ x.verdict \in Reported(x.run, x.of)
       \/ /\ x.of = 0
          /\ \E v \in DOMAIN ends[x.run] : /\ ends[x.run][v].row # NoResult
                                         /\ x.verdict = statusKind(ends[x.run][v].row.kind)

LEMMA HistoryParts ==
    HistoryTrue <=> /\ \A i \in DOMAIN history : Truthful(history[i])
                    /\ \A i, j \in DOMAIN history :
                         i < j /\ history[i].run = history[j].run /\ history[i].run \in Runs =>
                            history[i].of # history[j].of /\ 0 \notin {history[i].of, history[j].of}
  BY DEF HistoryTrue, Truthful

\* The same of an entry after the step.
ReportedNext(r, i, k) ==
    \/ k = ends'[r][i].verdict
    \/ \E v \in i..Len(ends'[r]) :
          \E row \in (IF v = 0 \/ ends'[r][v].row = NoResult
                       THEN {Unfinished(l) : l \in Live} ELSE {ends'[r][v].row}) : k = statusKind(row.kind)

TruthfulNext(r, k, n) ==
    r \in Runs =>
       \/ n \in DOMAIN ends'[r] /\ ReportedNext(r, n, k)
       \/ /\ n = 0
          /\ \E v \in DOMAIN ends'[r] : ends'[r][v].row # NoResult /\ k = statusKind(ends'[r][v].row.kind)

LEMMA HistoryPartsNext ==
    ASSUME \A i \in DOMAIN history' : TruthfulNext(history'[i].run, history'[i].verdict, history'[i].of),
           \A i, j \in DOMAIN history' :
              i < j /\ history'[i].run = history'[j].run /\ history'[i].run \in Runs =>
                 history'[i].of # history'[j].of /\ 0 \notin {history'[i].of, history'[j].of}
    PROVE  HistoryTrue'
  BY DEF HistoryTrue, TruthfulNext, ReportedNext, Reported, Rows

\* What was truly reported stays so.
LEMMA ReportedStays ==
    ASSUME TypeOK, Work, NEW r \in Runs, NEW e \in DOMAIN ends[r], NEW k \in Reported(r, e)
    PROVE  e \in DOMAIN ends'[r] /\ ReportedNext(r, e, k)
  <1>1. /\ Len(ends[r]) \in Nat /\ Len(ends'[r]) \in Nat /\ Len(ends[r]) <= Len(ends'[r])
        /\ DOMAIN ends[r] = 1..Len(ends[r]) /\ DOMAIN ends'[r] = 1..Len(ends'[r])
        /\ \A i \in DOMAIN ends[r] : i \in DOMAIN ends'[r] /\ ends'[r][i] = ends[r][i]
    BY EndsStep
  <1>2. CASE k = ends[r][e].verdict
    BY <1>1, <1>2 DEF ReportedNext
  <1>3. CASE k # ends[r][e].verdict
    <2>1. PICK v \in e..Len(ends[r]) : \E row \in Rows(r, v) : k = statusKind(row.kind)
      BY <1>3 DEF Reported
    <2>2. v \in DOMAIN ends[r] /\ v \in e..Len(ends'[r])
      BY <1>1
    <2>3. ends'[r][v] = ends[r][v]
      BY <1>1, <2>2
    <2>4. PICK row \in Rows(r, v) : k = statusKind(row.kind)
      BY <2>1
    <2> QED BY <1>1, <2>2, <2>3, <2>4 DEF ReportedNext, Rows
  <1> QED BY <1>2, <1>3

LEMMA HistoryStep ==
    ASSUME TypeOK, Sound, Fetching, Streams, Recorded, HistoryTrue, Work
    PROVE  Recorded' /\ HistoryTrue'
  <1>0. CoreType
    BY TypeParts
  <1> DEFINE Rec(x) == x.run \in Runs =>
                \/ x.of = 0 /\ x.run \notin finished' /\ pc'[x.run] = "done"
                \/ /\ x.of \in passed'[x.run] /\ x.run \in finished'
                   /\ \A g \in gets' : g.run = x.run => g.of # x.of
             Tru(x) == TruthfulNext(x.run, x.verdict, x.of)
  <1>1. ASSUME NEW i \in DOMAIN history PROVE Tru(history[i])
    <2>1. Truthful(history[i])
      BY HistoryParts
    <2>2. ASSUME history[i].run \in Runs, history[i].of \in DOMAIN ends[history[i].run],
                 history[i].verdict \in Reported(history[i].run, history[i].of)
          PROVE  Tru(history[i])
      BY <2>2, ReportedStays DEF TruthfulNext
    <2>3. ASSUME history[i].run \in Runs, history[i].of = 0,
                 NEW v \in DOMAIN ends[history[i].run], ends[history[i].run][v].row # NoResult,
                 history[i].verdict = statusKind(ends[history[i].run][v].row.kind)
          PROVE  Tru(history[i])
      <3>1. v \in DOMAIN ends'[history[i].run] /\ ends'[history[i].run][v] = ends[history[i].run][v]
        BY <2>3, EndsStep
      <3> QED BY <2>3, <3>1 DEF TruthfulNext
    <2>4. CASE history[i].run \notin Runs
      BY <2>4 DEF TruthfulNext
    <2> HIDE DEF Tru
    <2> QED BY <2>1, <2>2, <2>3, <2>4 DEF Truthful
  <1>2. ASSUME NEW i \in DOMAIN history PROVE Rec(history[i])
    <2> SUFFICES ASSUME history[i].run \in Runs PROVE Rec(history[i])
      OBVIOUS
    <2> DEFINE r == history[i].run
               n == history[i].of
    <2>1. CASE n = 0 /\ r \notin finished /\ pc[r] = "done"
      BY <2>1, PlacesStep
    <2>2. CASE n \in passed[r] /\ r \in finished /\ \A g \in gets : g.run = r => g.of # n
      <3>1. ASSUME NEW q \in Runs, NEW I \in SUBSET Due(q), Chunk(q, I), finished' = finished \cup {q}
            PROVE  Rec(history[i])
        <4>1. n \in passed'[r] /\ r \in finished'
          BY <1>0, <2>2, <3>1 DEF Chunk, CoreType
        <4>2. ASSUME NEW g \in gets', g.run = r PROVE g.of # n
          <5>1. CASE g \in gets
            BY <2>2, <4>2, <5>1
          <5>2. CASE g \notin gets
            <6>1. PICK j \in I : g = [run |-> q, of |-> j, since |-> Len(ends[q])]
              BY <3>1, <4>2, <5>2 DEF Chunk
            <6>2. g.run = q /\ g.of = j /\ j \notin passed[q]
              BY <6>1 DEF Due
            <6> QED BY <2>2, <4>2, <6>2
          <5> QED BY <5>1, <5>2
        <4> QED BY <4>1, <4>2
      <3>2. ASSUME NEW q \in Runs, NEW g \in gets, Returned(q, g) PROVE Rec(history[i])
        BY <2>2, <3>2 DEF Returned
      <3>3. ASSUME gets' = gets, finished' = finished, passed'[r] = passed[r] PROVE Rec(history[i])
        BY <2>2, <3>3
      <3> QED BY <2>2, <3>1, <3>2, <3>3, GetsStep
    <2> QED BY <2>1, <2>2 DEF Recorded
  <1>3. CASE history' = history
    <2>1. Recorded'
      BY <1>2, <1>3 DEF Recorded
    <2>2. HistoryTrue'
      BY <1>1, <1>3, HistoryParts, HistoryPartsNext
    <2> QED BY <2>1, <2>2
  <1>4. ASSUME NEW r \in Runs, NEW k \in Verdict, NEW n \in Nat, recordHistory(r, k, n),
               Rec([run |-> r, verdict |-> k, of |-> n]), Tru([run |-> r, verdict |-> k, of |-> n]),
               \A j \in DOMAIN history : history[j].run = r =>
                  history[j].of # n /\ 0 \notin {n, history[j].of}
        PROVE  Recorded' /\ HistoryTrue'
    <2>1. /\ history' \in Seq(Entry)
          /\ \A i \in DOMAIN history' :
             \/ /\ i = 1 /\ history'[i].run = r
                /\ history'[i].verdict = k /\ history'[i].of = n
             \/ i > 1 /\ i - 1 \in DOMAIN history /\ history'[i] = history[i - 1]
      BY <1>0, <1>4, RecordType
    <2>2. DOMAIN history' \subseteq Nat
      BY <2>1
    <2>3. ASSUME NEW i \in DOMAIN history' PROVE Rec(history'[i]) /\ Tru(history'[i])
      <3>1. CASE i = 1 /\ history'[i].run = r /\ history'[i].verdict = k /\ history'[i].of = n
        BY <1>4, <3>1
      <3>2. CASE i > 1 /\ i - 1 \in DOMAIN history /\ history'[i] = history[i - 1]
        <4> HIDE DEF Rec, Tru
        <4>1. Rec(history[i - 1]) /\ Tru(history[i - 1])
          BY <1>1, <1>2, <3>2
        <4> QED BY <3>2, <4>1 DEF Rec, Tru
      <3> QED BY <2>1, <3>1, <3>2
    <2>4. ASSUME NEW i \in DOMAIN history', NEW j \in DOMAIN history', i < j,
                 history'[i].run = history'[j].run, history'[i].run \in Runs
          PROVE  history'[i].of # history'[j].of /\ 0 \notin {history'[i].of, history'[j].of}
      <3>1. i \in Nat /\ j \in Nat
        BY <2>2
      <3>2. j > 1 /\ j - 1 \in DOMAIN history /\ history'[j] = history[j - 1]
        BY <2>1, <2>4, <3>1
      <3>3. CASE i = 1 /\ history'[i].run = r /\ history'[i].of = n
        BY <1>4, <2>4, <3>2, <3>3
      <3>4. CASE i > 1 /\ i - 1 \in DOMAIN history /\ history'[i] = history[i - 1]
        <4>1. i - 1 < j - 1
          BY <2>4, <3>1
        <4> QED BY <2>4, <3>2, <3>4, <4>1, HistoryParts
      <3> QED BY <2>1, <3>3, <3>4
    <2>5. Recorded'
      BY <2>3 DEF Recorded
    <2>6. HistoryTrue'
      BY <2>3, <2>4, HistoryPartsNext
    <2> QED BY <2>5, <2>6
  <1>5. ASSUME NEW r \in Runs, NEW k \in Verdict, NEW g \in gets,
               Returned(r, g), recordHistory(r, k, g.of), k \in Reported(r, g.of)
        PROVE  Recorded' /\ HistoryTrue'
    <2>1. /\ g.run = r /\ g.of \in Nat /\ g.of # 0 /\ g.of \in DOMAIN ends[r]
          /\ r \in finished /\ g.of \in passed[r]
      BY <1>0, <1>5, GetType DEF Returned, Fetching
    <2>2. \A h \in gets' : h.run = r => h.of # g.of
      BY <1>5, <2>1 DEF Returned, Fetching
    <2>3. finished' = finished /\ passed' = passed
      BY <1>5 DEF Returned
    <2>4. Rec([run |-> r, verdict |-> k, of |-> g.of])
      BY <2>1, <2>2, <2>3
    <2>5. Tru([run |-> r, verdict |-> k, of |-> g.of])
      <3>1. g.of \in DOMAIN ends'[r] /\ ReportedNext(r, g.of, k)
        BY <1>5, <2>1, ReportedStays
      <3> QED BY <3>1 DEF TruthfulNext
    <2>6. ASSUME NEW j \in DOMAIN history, history[j].run = r
          PROVE  history[j].of # g.of /\ 0 \notin {g.of, history[j].of}
      <3>1. /\ history[j].of \in passed[r]
            /\ \A h \in gets : h.run = r => h.of # history[j].of
        BY <2>1, <2>6 DEF Recorded
      <3>2. 0 \notin passed[r]
        BY <1>0 DEF Sound, CoreType
      <3> QED BY <2>1, <3>1, <3>2
    <2> HIDE DEF Rec, Tru
    <2> QED BY <1>4, <1>5, <2>1, <2>4, <2>5, <2>6
  <1>6. ASSUME NEW r \in Runs, NEW k \in Verdict, pc[r] = "poll", pc'[r] = "done", recordHistory(r, k, 0),
               UNCHANGED <<finished, gets, passed>>,
               NEW v \in DOMAIN ends[r], ends[r][v].row # NoResult, k = statusKind(ends[r][v].row.kind)
        PROVE  Recorded' /\ HistoryTrue'
    <2>1. r \notin finished
      BY <1>6 DEF Streams
    <2>2. Rec([run |-> r, verdict |-> k, of |-> 0])
      BY <1>6, <2>1
    <2>3. Tru([run |-> r, verdict |-> k, of |-> 0])
      <3>1. v \in DOMAIN ends'[r] /\ ends'[r][v] = ends[r][v]
        BY <1>6, EndsStep
      <3> QED BY <1>6, <3>1 DEF TruthfulNext
    <2>4. \A j \in DOMAIN history : history[j].run # r
      BY <1>6, <2>1 DEF Recorded
    <2> HIDE DEF Rec, Tru
    <2> QED BY <1>4, <1>6, <2>2, <2>3, <2>4
  <1> HIDE DEF Rec, Tru
  <1> QED BY <1>3, <1>5, <1>6, HistorySteps

-----------------------------------------------------------------------------
(* Overlap and what the page shows.                                        *)

\* An aborted run stays aborted, and the auxiliary variables only become true.
LEMMA SignalsStep ==
    ASSUME TypeOK, Work
    PROVE  /\ aborted \subseteq aborted'
           /\ Run \/ overlap' = overlap
           /\ overlap => overlap'
           /\ late => late'
  <1>1. CASE Run
    <2>1. PICK r \in Runs : runOnApi(r)
      BY <1>1 DEF Run
    <2>2. overlap => overlap'
      BY <2>1, Zenon DEF runOnApi
    <2>3. aborted' = aborted /\ late' = late
      BY <2>1 DEF runOnApi
    <2> QED BY <1>1, <2>2, <2>3
  <1>2. CASE Cancel \/ selectLang \/ reset
    BY <1>2 DEF Cancel, selectLang, reset, cancelRun
  <1>3. ASSUME NEW r \in Runs, Stream(r) \/ Serve(r)
        PROVE  aborted' = aborted /\ overlap' = overlap /\ late' = late
    BY <1>3 DEF Stream, EventProcessing, EventChunk, EventFinished, StreamFails, StreamEnds,
         StreamMisses, Serve, runs
  <1>4. ASSUME NEW r \in Runs, Request(r)
        PROVE  aborted' = aborted /\ overlap' = overlap /\ (late => late')
    <2>1. CASE Acknowledged(r)
      <3>1. aborted' = aborted /\ overlap' = overlap
        BY <2>1 DEF Acknowledged
      <3>2. late => late'
        BY <2>1, Zenon DEF Acknowledged
      <3> QED BY <3>1, <3>2
    <2>2. CASE ~Acknowledged(r)
      BY <1>4, <2>2 DEF Request, SubmitFails, FetchRow, FetchFails, PollRow, PollFails, PollAborts, Ends,
           Returned
    <2> QED BY <2>1, <2>2
  <1> QED BY <1>1, <1>2, <1>3, <1>4 DEF Work, User

\* A run becomes unsettled when it begins, and then no other is unless runs overlap.
LEMMA UnsettledStep ==
    ASSUME TypeOK, Sound, Fetching, Streams, Work, NEW q \in Runs, Unsettled(q)'
    PROVE  \/ ~Run /\ Unsettled(q)
           \/ Run /\ runOnApi(q)
           \/ Run /\ overlap'
  <1>0. CoreType
    BY TypeParts
  <1>1. q \notin aborted' /\ (pc'[q] \notin {"none", "done"} \/ q \in reader')
    BY DEF Unsettled
  <1>2. CASE Run
    <2>1. PICK r \in Runs : runOnApi(r)
      BY <1>2 DEF Run
    <2>2. CASE q = r
      BY <1>2, <2>1, <2>2
    <2>3. CASE q # r
      <3>1. Unsettled(q)
        BY <1>0, <1>1, <2>1, <2>3 DEF runOnApi, Unsettled, CoreType
      <3> QED BY <1>2, <2>1, <3>1 DEF runOnApi
    <2> QED BY <2>2, <2>3
  <1>3. CASE ~Run
    <2>1. q \notin aborted
      BY <1>1, SignalsStep
    <2>2. pc[q] = "none" => pc'[q] = "none" /\ q \notin reader'
      <3>1. pc[q] = "none" => q \notin reader
        BY DEF Streams
      <3> QED BY <1>3, <3>1, PlacesStep
    <2>3. pc[q] = "done" /\ q \notin reader => pc'[q] = "done" /\ q \notin reader'
      BY PlacesStep
    <2> QED BY <1>1, <1>3, <2>1, <2>2, <2>3 DEF Unsettled
  <1> QED BY <1>2, <1>3

LEMMA OneUnsettledStep ==
    ASSUME TypeOK, Sound, Fetching, Streams, Numbered, OneUnsettled, Work PROVE OneUnsettled'
  <1> SUFFICES ASSUME ~overlap', NEW q \in Runs, Unsettled(q)' PROVE q = Current'
    BY DEF OneUnsettled
  <1>1. CASE Run /\ runOnApi(q)
    <2>1. q = Current + 1 /\ Current \in Nat
      BY <1>1, FreshIsNext DEF runOnApi
    <2>2. pc[q] = "none" /\ pc'[q] # "none"
      BY <1>1, TypeParts DEF runOnApi, Fresh, CoreType
    <2>3. Started' # Started
      BY <2>2 DEF Started
    <2>4. \E r \in Runs : Current' = r /\ r = Current + 1
      BY <2>3, CurrentStep
    <2> QED BY <2>1, <2>4
  <1>2. CASE ~Run /\ Unsettled(q)
    <2>1. ~overlap
      BY SignalsStep
    <2>2. Current' = Current
      BY <1>2, CurrentStep
    <2> QED BY <1>2, <2>1, <2>2 DEF OneUnsettled
  <1> QED BY <1>1, <1>2, UnsettledStep

\* Who writes to the page: the user clears it, and an unsettled run adds its own.
LEMMA TextsStep ==
    ASSUME TypeOK, Sound, Fetching, Streams, Work
    PROVE  \/ Texts' = {} /\ metrics' = None
           \/ ~Run /\ Texts' = Texts /\ metrics' = metrics
           \/ /\ ~Run
              /\ \E r \in Runs : Unsettled(r) /\ Texts' \subseteq Texts \cup {r} /\ metrics' \in {metrics, r}
  <1>0. CoreType
    BY TypeParts
  <1> DEFINE Same == Texts' = Texts /\ metrics' = metrics
             Adds(r) == Unsettled(r) /\ Texts' \subseteq Texts \cup {r} /\ metrics' \in {metrics, r}
  <1>1. CASE Run \/ selectLang \/ reset
    BY <1>1 DEF Run, runOnApi, selectLang, reset, clearResults, Texts
  <1>2. Cancel => Same
    BY DEF Cancel, Texts
  <1>3. ASSUME NEW r \in Runs,
               \/ EventProcessing(r) \/ StreamFails(r) \/ StreamEnds(r)
               \/ StreamMisses(r) \/ Serve(r)
        PROVE  Same
    BY <1>3 DEF EventProcessing, StreamFails, StreamEnds, StreamMisses, Serve, view, Texts
  <1>4. ASSUME NEW r \in Runs, EventChunk(r) \/ EventFinished(r) PROVE Adds(r)
    BY <1>0, <1>4 DEF EventChunk, EventFinished, Hears, Unsettled, Texts
  <1>5. ASSUME NEW r \in Runs,
               Acknowledged(r) \/ SubmitFails(r) \/ FetchFails(r) \/ PollFails(r) \/ PollAborts(r)
        PROVE  Same
    BY <1>5 DEF Acknowledged, SubmitFails, FetchFails, PollFails, PollAborts, view, Texts
  <1>6. ASSUME NEW r \in Runs, FetchRow(r) PROVE Same \/ Adds(r)
    <2>1. PICK g \in gets : RowArrives(r, g)
      BY <1>6, FetchArrives
    <2>2. pc[r] = "fetch"
      BY <2>1 DEF RowArrives, Returned, Fetching
    <2> QED BY <2>1, <2>2 DEF RowArrives, applySubmissionView, view, Unsettled, Texts
  <1>7. ASSUME NEW r \in Runs, PollRow(r) PROVE Adds(r)
    BY <1>0, <1>7 DEF PollRow, applySubmissionView, Unsettled, Texts
  <1> HIDE DEF Same, Adds
  <1>8. CASE Run
    BY <1>1, <1>8
  <1>9. CASE ~Run
    BY <1>1, <1>2, <1>3, <1>4, <1>5, <1>6, <1>7, <1>9 DEF Work, User, Stream, Request, Same, Adds
  <1> QED BY <1>8, <1>9

LEMMA ShownIsCurrentStep ==
    ASSUME TypeOK, Sound, Fetching, Streams, Numbered, OneUnsettled, ShownIsCurrent, Work
    PROVE  ShownIsCurrent'
  <1> SUFFICES ASSUME ~overlap' PROVE Texts' \subseteq {Current'} /\ metrics' \in {Current', None}
    BY DEF ShownIsCurrent
  <1>1. ~overlap
    BY SignalsStep
  <1>2. CASE Texts' = {} /\ metrics' = None
    BY <1>2
  <1>3. CASE ~Run
    <2>1. Current' = Current
      BY <1>3, CurrentStep
    <2>2. CASE Texts' = Texts /\ metrics' = metrics
      BY <1>1, <2>1, <2>2 DEF ShownIsCurrent
    <2>3. ASSUME NEW r \in Runs, Unsettled(r), Texts' \subseteq Texts \cup {r}, metrics' \in {metrics, r}
          PROVE  Texts' \subseteq {Current'} /\ metrics' \in {Current', None}
      <3>1. r = Current
        BY <1>1, <2>3 DEF OneUnsettled
      <3> QED BY <1>1, <2>1, <2>3, <3>1 DEF ShownIsCurrent
    <2> QED BY <1>2, <2>2, <2>3, TextsStep
  <1> QED BY <1>2, <1>3, TextsStep

LEMMA HeldStep == ASSUME TypeOK, Sound, Fetching, Streams, Held, Work PROVE Held'
  <1>0. CoreType
    BY TypeParts
  <1> DEFINE G(q) == /\ ctlRef' = q
                     /\ q \in reader' => streamRef' = q /\ pc'[q] = "stream"
                     /\ pc'[q] = "submit" => status' = "queued"
                     /\ pc'[q] = "stream" => status' = "processing"
  <1> SUFFICES ASSUME ~overlap', ~late', NEW q \in Runs, Unsettled(q)' PROVE G(q)
    BY DEF Held
  <1>1. CASE Run
    <2>1. runOnApi(q)
      BY <1>1, UnsettledStep
    <2>2. q \notin reader
      BY <2>1 DEF runOnApi, Fresh, Streams
    <2> QED BY <1>0, <2>1, <2>2 DEF runOnApi, clearResults, CoreType
  <1>2. CASE ~Run
    <2>1. Unsettled(q) /\ ~overlap /\ ~late
      BY <1>2, UnsettledStep, SignalsStep
    <2>2. /\ ctlRef = q
          /\ q \in reader => streamRef = q /\ pc[q] = "stream"
          /\ pc[q] = "submit" => status = "queued"
          /\ pc[q] = "stream" => status = "processing"
      BY <2>1 DEF Held
    <2>3. \A r \in Runs : Unsettled(r) => r = q
      BY <2>1, <2>2 DEF Held
    <2>4. q \notin aborted' /\ (pc'[q] \notin {"none", "done"} \/ q \in reader')
      BY DEF Unsettled
    <2>5. CASE Cancel \/ selectLang \/ reset
      BY <2>2, <2>4, <2>5, Words DEF Cancel, selectLang, reset, cancelRun
    <2>6. ASSUME NEW r \in Runs, EventProcessing(r) PROVE G(q)
      BY <2>2, <2>3, <2>6 DEF EventProcessing, Hears, Unsettled, runs
    <2>7. ASSUME NEW r \in Runs, EventFinished(r) PROVE G(q)
      <3>1. r = q /\ streamRef = q /\ q \in reader
        BY <2>2, <2>3, <2>7 DEF EventFinished, Hears, Unsettled
      <3>2. reader' = reader \ {q} /\ pc'[q] = "fetch" /\ ctlRef' = ctlRef
        BY <1>0, <2>7, <3>1 DEF EventFinished, CoreType
      <3> QED BY <2>2, <3>2
    <2>8. ASSUME NEW r \in Runs, EventChunk(r) \/ StreamEnds(r) \/ StreamMisses(r) \/ Serve(r)
          PROVE  G(q)
      BY <1>0, <2>2, <2>8 DEF EventChunk, StreamEnds, StreamMisses, Serve, view, runs, CoreType
    <2>9. ASSUME NEW r \in Runs, StreamFails(r) PROVE G(q)
      BY <1>0, <2>2, <2>3, <2>9 DEF StreamFails, Unsettled, view, CoreType
    <2>10. ASSUME NEW r \in Runs, Acknowledged(r) PROVE G(q)
      <3>1. r \notin aborted
        BY <2>10 DEF Acknowledged
      <3>2. r = q
        BY <2>3, <2>10, <3>1 DEF Acknowledged, Unsettled
      <3> QED BY <1>0, <2>10, <3>2 DEF Acknowledged, CoreType
    <2>11. ASSUME NEW r \in Runs, SubmitFails(r) PROVE G(q)
      BY <1>0, <2>2, <2>3, <2>4, <2>11 DEF SubmitFails, Unsettled, view, CoreType
    <2>12. ASSUME NEW r \in Runs, FetchRow(r) \/ FetchFails(r) PROVE G(q)
      <3>1. PICK g \in gets : Returned(r, g)
        BY <2>12 DEF FetchRow, FetchFails
      <3>2. pc[r] = "fetch"
        BY <3>1 DEF Returned, Fetching
      <3>3. /\ reader' = reader /\ streamRef' = streamRef /\ ctlRef' = ctlRef
            /\ pc' = pc \/ pc' = [pc EXCEPT ![r] = "done"]
        BY <3>1 DEF Returned
      <3>4. r = q \/ r \in aborted
        BY <2>3, <3>2 DEF Unsettled
      <3>5. r \in aborted => status' = status
        BY <2>12 DEF FetchRow, FetchFails, view
      <3>6. r = q => q \notin reader
        BY <2>2, <3>2
      <3> QED BY <1>0, <2>2, <3>2, <3>3, <3>4, <3>5, <3>6 DEF CoreType
    <2>13. ASSUME NEW r \in Runs, PollRow(r) \/ PollFails(r) \/ PollAborts(r) PROVE G(q)
      <3>1. pc[r] = "poll" /\ pc'[r] = "done" /\ reader' = reader /\ streamRef' = streamRef /\ ctlRef' = ctlRef
        BY <1>0, <2>13 DEF PollRow, PollFails, PollAborts, Ends, CoreType
      <3>2. r # q
        BY <2>2, <2>4, <3>1
      <3>3. r \in aborted
        BY <2>3, <3>1, <3>2 DEF Unsettled
      <3>4. status' = status /\ pc'[q] = pc[q]
        BY <1>0, <2>13, <3>2, <3>3 DEF PollRow, PollFails, PollAborts, Ends, view, CoreType
      <3> QED BY <2>2, <3>1, <3>4
    <2> QED BY <1>2, <2>5, <2>6, <2>7, <2>8, <2>9, <2>10, <2>11, <2>12, <2>13 DEF Work, User, Stream, Request
  <1> QED BY <1>1, <1>2

-----------------------------------------------------------------------------
(* The tab.                                                                *)

\* As long as a failure stands no text becomes empty.
LEMMA TextsKept ==
    ASSUME TypeOK, Work, status' = status, status \in Pane!Failure
    PROVE  (err # {} => err' # {}) /\ (cmp # {} => cmp' # {})
  <1>0. CoreType
    BY TypeParts
  <1> DEFINE G == (err # {} => err' # {}) /\ (cmp # {} => cmp' # {})
  <1>1. CASE User
    BY <1>1 DEF User, Run, runOnApi, Cancel, selectLang, reset, clearResults, Pane!Failure
  <1>2. ASSUME NEW r \in Runs, Stream(r) \/ Serve(r) PROVE G
    BY <1>0, <1>2 DEF Stream, EventProcessing, EventChunk, EventFinished, StreamFails, StreamEnds,
         StreamMisses, Serve, view
  <1>3. ASSUME NEW r \in Runs, Request(r) PROVE G
    BY <1>0, <1>3 DEF Request, Acknowledged, SubmitFails, FetchRow, FetchFails, PollRow, PollFails,
         PollAborts, applySubmissionView, view
  <1> QED BY <1>1, <1>2, <1>3 DEF Work

\* The tab a failure is routed to explains it.
LEMMA RoutedExplains ==
    ASSUME status' \in Pane!Failure, tab' = Pane!TerminalTab(status', err', cmp')
    PROVE  /\ tab' = "meta" \/ (tab' = "stderr" /\ err' # {}) \/ (tab' = "compile" /\ cmp' # {})
           /\ err' # {} \/ (status' = "ce" /\ cmp' # {}) => tab' # "meta"
  BY DEF Pane!TerminalTab, Pane!Failure

\* The invariant in terms of the variables.
LEMMA TabParts ==
    ASSUME Pane!TypeOK
    PROVE  TabFollowsVerdict <=>
             /\ cmp = {} => tab # "compile"
             /\ shown /\ ~picked /\ status \in Pane!Failure =>
                  /\ tab = "meta" \/ (tab = "stderr" /\ err # {}) \/ (tab = "compile" /\ cmp # {})
                  /\ err # {} \/ (status = "ce" /\ cmp # {}) => tab # "meta"
  <1>1. tab \in Pane!tabs <=> (cmp = {} => tab # "compile")
    BY DEF Pane!TypeOK, Pane!tabs
  <1> QED BY <1>1 DEF TabFollowsVerdict, Pane!Explains

LEMMA TabPartsNext ==
    ASSUME tab' \in Pane!Tab,
           cmp' = {} => tab' # "compile",
           shown' /\ ~picked' /\ status' \in Pane!Failure =>
             /\ tab' = "meta" \/ (tab' = "stderr" /\ err' # {}) \/ (tab' = "compile" /\ cmp' # {})
             /\ err' # {} \/ (status' = "ce" /\ cmp' # {}) => tab' # "meta"
    PROVE  TabFollowsVerdict'
  <1>1. (tab \in Pane!tabs)'
    BY DEF Pane!tabs, Pane!Tab
  <1> QED BY <1>1 DEF TabFollowsVerdict, Pane!Explains, Pane!Failure

LEMMA TabWork ==
    ASSUME TypeOK, PaneKept, TabFollowsVerdict, Work, Rendered
    PROVE  PaneKept' /\ TabFollowsVerdict'
  <1>0. Pane!TypeOK /\ shown' = shown
    BY TypeParts, MountedStays DEF Work
  <1>1. CASE shown
    <2>1. tab \in Pane!Tab /\ picked \in BOOLEAN /\ unseen \in SUBSET Pane!Tab
      BY <1>0 DEF Pane!TypeOK
    <2>2. Pane!Effects(status, err, cmp, tab, picked, unseen)
      BY <1>1 DEF Rendered, Pane!Commit
    <2>3. tab' \in Pane!Tab
      BY <2>1, <2>2, EffectsShape
    <2>4. cmp' = {} => tab' # "compile"
      <3>1. cmp = {} => tab # "compile"
        BY <1>0, TabParts
      <3>2. tab' # "compile" \/ cmp' # {} \/ (cmp = {} /\ tab = "compile")
        BY <2>2 DEF Pane!Effects, Pane!TerminalTab
      <3> QED BY <3>1, <3>2
    <2>5. ASSUME ~picked', status' \in Pane!Failure
          PROVE  /\ tab' = "meta" \/ (tab' = "stderr" /\ err' # {}) \/ (tab' = "compile" /\ cmp' # {})
                 /\ err' # {} \/ (status' = "ce" /\ cmp' # {}) => tab' # "meta"
      <3>1. CASE status' # status
        <4>1. tab' = Pane!TerminalTab(status', err', cmp')
          BY <2>1, <2>2, <2>5, <3>1, EffectsShape
        <4> QED BY <2>5, <4>1, RoutedExplains
      <3>2. CASE status' = status
        <4>1. (err # {} => err' # {}) /\ (cmp # {} => cmp' # {})
          BY <2>5, <3>2, TextsKept
        <4>2. ~picked
          <5>1. picked' = (picked /\ ~(status' = "queued" /\ status # "queued"))
            BY <2>1, <2>2, EffectsShape
          <5>2. ~(status' = "queued" /\ status # "queued")
            BY <3>2
          <5> QED BY <2>5, <5>1, <5>2
        <4>3. /\ tab = "meta" \/ (tab = "stderr" /\ err # {}) \/ (tab = "compile" /\ cmp # {})
              /\ err # {} \/ (status = "ce" /\ cmp # {}) => tab # "meta"
          BY <1>0, <1>1, <2>5, <3>2, <4>2, TabParts
        <4>4. \/ err = {} /\ err' # {} /\ tab' = "stderr"
              \/ ~(err = {} /\ err' # {}) /\ cmp' # {} /\ tab' = "compile"
              \/ /\ ~(err = {} /\ err' # {}) /\ (cmp' = {} \/ cmp # {})
                 /\ tab' = tab \/ (cmp' = {} /\ cmp # {})
          BY <2>1, <2>2, <2>5, <3>2, EffectsShape
        <4> QED BY <2>5, <3>2, <4>1, <4>3, <4>4
      <3> QED BY <3>1, <3>2
    <2>6. TabFollowsVerdict'
      BY <2>3, <2>4, <2>5, TabPartsNext
    <2> QED BY <1>0, <1>1, <2>6 DEF PaneKept
  <1>2. CASE ~shown
    <2>1. tab = "stdout" /\ picked = FALSE /\ unseen = {}
      BY <1>2 DEF PaneKept, Pane!Fresh
    <2>2. tab' = "stdout" /\ picked' = FALSE /\ unseen' = {}
      BY <1>2, <2>1 DEF Rendered, Pane!Commit
    <2>3. tab' \in Pane!Tab
      BY <2>2 DEF Pane!Tab
    <2> QED BY <1>0, <1>2, <2>2, <2>3, TabPartsNext DEF PaneKept, Pane!Fresh
  <1> QED BY <1>0, <1>1, <1>2

LEMMA TabPick ==
    ASSUME TypeOK, PaneKept, TabFollowsVerdict, PickTab
    PROVE  PaneKept' /\ TabFollowsVerdict'
  <1>1. PICK t \in Pane!Tab : Pane!pickTab(t)
    BY DEF PickTab
  <1>2. shown' = TRUE /\ picked' = TRUE /\ tab' = t /\ cmp' = cmp
    BY <1>1, TypeParts DEF Pane!pickTab, Pane!TypeOK
  <1>3. cmp = {} => t # "compile"
    BY <1>1 DEF Pane!pickTab, Pane!tabs
  <1> QED BY <1>2, <1>3, TabPartsNext DEF PaneKept

LEMMA TabMode ==
    ASSUME TypeOK, PaneKept, TabFollowsVerdict, SetMode
    PROVE  PaneKept' /\ TabFollowsVerdict'
  <1>0. shown' \in BOOLEAN
    BY TypeParts DEF SetMode, Pane!setMode, Pane!TypeOK
  <1>1. CASE shown'
    <2>1. Pane!Effects("idle", {}, {}, "stdout", FALSE, {})
      BY <1>1 DEF SetMode, Pane!setMode
    <2>2. "stdout" \in Pane!Tab /\ {} \in SUBSET Pane!Tab /\ FALSE \in BOOLEAN
      BY DEF Pane!Tab
    <2>3. /\ tab' \in Pane!Tab
          /\ tab' # "compile" \/ cmp' # {} \/ ({} = {} /\ "stdout" = "compile")
          /\ ~picked' /\ status' # "idle" /\ status' \in Pane!Failure =>
               tab' = Pane!TerminalTab(status', err', cmp')
      BY <2>1, <2>2, EffectsShape, Zenon
    <2>4. status' \in Pane!Failure => status' # "idle"
      BY DEF Pane!Failure
    <2>5. cmp' = {} => tab' # "compile"
      BY <2>3
    <2>6. ~picked' /\ status' \in Pane!Failure =>
             /\ tab' = "meta" \/ (tab' = "stderr" /\ err' # {}) \/ (tab' = "compile" /\ cmp' # {})
             /\ err' # {} \/ (status' = "ce" /\ cmp' # {}) => tab' # "meta"
      BY <2>3, <2>4, RoutedExplains
    <2> QED BY <1>1, <2>3, <2>5, <2>6, TabPartsNext DEF PaneKept
  <1>2. CASE ~shown'
    <2>1. tab' = "stdout" /\ picked' = FALSE /\ unseen' = {}
      BY <1>2 DEF SetMode, Pane!setMode
    <2>2. tab' \in Pane!Tab
      BY <2>1 DEF Pane!Tab
    <2> QED BY <1>2, <2>1, <2>2, TabPartsNext DEF PaneKept, Pane!Fresh
  <1> QED BY <1>1, <1>2

LEMMA TabStep ==
    ASSUME TypeOK, PaneKept, TabFollowsVerdict, [Next]_vars
    PROVE  PaneKept' /\ TabFollowsVerdict'
  <1>1. CASE UNCHANGED vars
    BY <1>1 DEF vars, view, pane, PaneKept, TabFollowsVerdict, Pane!Fresh, Pane!tabs, Pane!Explains
  <1>2. CASE Work /\ Rendered
    BY <1>2, TabWork
  <1> QED BY <1>1, <1>2, TabPick, TabMode DEF Next, Work

-----------------------------------------------------------------------------
(* The theorems.                                                           *)

LEMMA InitInv == Init => Inv
  <1> SUFFICES ASSUME Init PROVE Inv
    OBVIOUS
  <1>1. TypeOK
    BY InitType
  <1>2. Sound /\ Fetching /\ Streams /\ Held /\ PaneKept
    BY Words DEF Init, Sound, Fetching, Streams, Held, PaneKept, Row!Init, Unsettled
  <1>3. Numbered /\ OneUnsettled /\ ShownIsCurrent
    <2>1. Started = {} /\ Current = Cardinality(Started)
      BY DEF Init, Started, Current
    <2>2. Current = 0
      BY <2>1, FS_EmptySet
    <2> QED BY <2>1, <2>2 DEF Init, Numbered, OneUnsettled, Unsettled, ShownIsCurrent, Texts
  <1>4. Recorded /\ HistoryTrue
    <2> DEFINE h == [i \in 1..Earlier |-> [run |-> None, verdict |-> "accepted", of |-> 0]]
    <2>1. /\ h \in Seq(Entry) /\ DOMAIN h = 1..Len(h)
          /\ \A i \in DOMAIN h : h[i].run = None
      BY HistoryAssumption, Words DEF Entry
    <2> HIDE DEF h
    <2>2. /\ Kept(h) \in Seq(Entry)
          /\ \A i \in 1..Len(Kept(h)) : i \in 1..Len(h) /\ Kept(h)[i] = h[i]
      BY <2>1, KeptProperties
    <2>3. DOMAIN Kept(h) = 1..Len(Kept(h))
      BY <2>2
    <2>4. \A i \in DOMAIN history : history[i].run = None
      BY <2>1, <2>2, <2>3 DEF Init, loadHistory, h
    <2> QED BY <2>4, Words DEF Recorded, HistoryTrue
  <1>5. TabFollowsVerdict
    BY DEF Init, Pane!Fresh, Pane!tabs, Pane!Tab, TabFollowsVerdict, Pane!Failure
  <1> QED BY <1>1, <1>2, <1>3, <1>4, <1>5 DEF Inv

LEMMA NextInv == Inv /\ [Next]_vars => Inv'
  <1> SUFFICES ASSUME Inv, [Next]_vars PROVE Inv'
    OBVIOUS
  <1>0. /\ TypeOK /\ Sound /\ Fetching /\ Streams /\ Numbered /\ Recorded /\ HistoryTrue
        /\ OneUnsettled /\ ShownIsCurrent /\ Held /\ PaneKept /\ TabFollowsVerdict
    BY DEF Inv
  <1>1. TypeOK'
    BY <1>0, NextType
  <1>2. PaneKept' /\ TabFollowsVerdict'
    BY <1>0, TabStep
  <1>3. CASE Aside
    <2>1. Sound' /\ Fetching' /\ Streams' /\ Held' /\ Recorded'
      BY <1>0, <1>3 DEF Aside, Sound, Fetching, Streams, Held, Unsettled, Recorded
    <2>3. HistoryTrue'
      BY <1>0, <1>3 DEF Aside, HistoryTrue, Reported, Rows
    <2>2. Numbered' /\ OneUnsettled' /\ ShownIsCurrent'
      BY <1>0, <1>3 DEF Aside, Numbered, Started, Current, OneUnsettled, Unsettled, ShownIsCurrent, Texts
    <2> QED BY <1>1, <1>2, <2>1, <2>2, <2>3 DEF Inv
  <1>4. CASE Work
    <2>1. Sound' /\ Fetching' /\ Streams'
      BY <1>0, <1>4, SoundStep, FetchingStep, StreamsStep
    <2>2. Recorded' /\ HistoryTrue'
      BY <1>0, <1>4, HistoryStep
    <2>3. Numbered'
      BY <1>0, <1>4, CurrentStep
    <2>4. OneUnsettled' /\ ShownIsCurrent' /\ Held'
      BY <1>0, <1>4, OneUnsettledStep, ShownIsCurrentStep, HeldStep
    <2> QED BY <1>1, <1>2, <2>1, <2>2, <2>3, <2>4 DEF Inv
  <1> QED BY <1>3, <1>4, Steps

\* The page, its runs and the service's rows stay consistent, for any number of
\* runs: the invariant the properties below rest on.
THEOREM Invariance == Spec => []Inv
  <1> QED BY InitInv, NextInv, PTL DEF Spec

\* Every entry of the history says what a frame or the row said, nothing older than
\* the end it reports, and no end is reported twice, however often the service
\* executes a run and whatever it fails to store (recordHistory, onEvent, poll).
THEOREM HistoryTrueHolds == Spec => []HistoryTrue
  <1>1. Inv => HistoryTrue
    BY DEF Inv
  <1> QED BY <1>1, Invariance, PTL

\* Unless runs overlap the page shows the latest run's texts and metrics only
\* (runOnApi, cancelRun, onEvent).
THEOREM ShownIsCurrentHolds == Spec => []ShownIsCurrent
  <1>1. Inv => ShownIsCurrent
    BY DEF Inv
  <1> QED BY <1>1, Invariance, PTL

\* The tab is in the strip, and unless the user picked it a failure shows one that
\* explains it (the effects of OutputPane).
THEOREM TabFollowsVerdictHolds == Spec => []TabFollowsVerdict
  <1>1. Inv => TabFollowsVerdict
    BY DEF Inv
  <1> QED BY <1>1, Invariance, PTL

\* What an aborted run may do to the page.
LEMMA AbortedIsSilent ==
    ASSUME Inv, Work, NEW q \in Runs, q \in aborted
    PROVE  /\ q \notin Texts => q \notin Texts'
           /\ pc[q] # "submit" /\ pc'[q] # pc[q] => UNCHANGED view
  <1>0. CoreType /\ TypeOK /\ Sound /\ Fetching /\ Streams
    BY TypeParts DEF Inv
  <1>1. q \notin Texts => q \notin Texts'
    BY <1>0, TextsStep DEF Unsettled
  <1>2. ASSUME pc[q] # "submit", pc'[q] # pc[q] PROVE UNCHANGED view
    <2>1. pc[q] # "none"
      BY <1>0 DEF Streams
    <2>2. ASSUME Run PROVE FALSE
      BY <1>0, <1>2, <2>1, <2>2 DEF Run, runOnApi, Fresh, CoreType
    <2>3. ASSUME Cancel \/ selectLang \/ reset PROVE FALSE
      BY <1>2, <2>3 DEF Cancel, selectLang, reset, cancelRun
    <2>4. ASSUME NEW r \in Runs, Stream(r) PROVE UNCHANGED view
      BY <1>0, <1>2, <2>4 DEF Stream, EventProcessing, EventChunk, EventFinished, StreamFails,
           StreamEnds, StreamMisses, Hears, runs, CoreType
    <2>5. ASSUME NEW r \in Runs, Acknowledged(r) \/ SubmitFails(r) PROVE FALSE
      BY <1>0, <1>2, <2>5 DEF Acknowledged, SubmitFails, CoreType
    <2>6. ASSUME NEW r \in Runs,
                 FetchRow(r) \/ FetchFails(r) \/ PollRow(r) \/ PollFails(r) \/ PollAborts(r)
          PROVE  UNCHANGED view
      BY <1>0, <1>2, <2>6 DEF FetchRow, FetchFails, PollRow, PollFails, PollAborts, Ends, Returned,
           view, CoreType
    <2>7. ASSUME NEW r \in Runs, Serve(r) PROVE UNCHANGED view
      BY <2>7 DEF Serve
    <2> QED BY <2>2, <2>3, <2>4, <2>5, <2>6, <2>7 DEF Work, User, Request
  <1> QED BY <1>1, <1>2

\* When the status strip goes back.
LEMMA StripGoesForward ==
    ASSUME Inv, Work, ~User, Current \notin Unstored, ~overlap', ~late'
    PROVE  ~(phaseIdx' < phaseIdx)
  <1>0. CoreType /\ TypeOK /\ Sound /\ Fetching /\ Streams /\ OneUnsettled /\ Held
    BY TypeParts DEF Inv
  <1>1. ~overlap /\ ~late
    BY <1>0, SignalsStep
  <1>2. \A r \in Runs : Unsettled(r) =>
           /\ r = Current
           /\ pc[r] = "submit" => status = "queued"
           /\ r \in reader => status = "processing"
    BY <1>0, <1>1 DEF Held, OneUnsettled
  <1> DEFINE Same == status' = status
             Ahead == status' \notin {"idle", "queued", "processing"}
             Next1 == status = "queued" /\ status' = "processing"
  <1>3. ASSUME NEW r \in Runs, EventProcessing(r) PROVE Same
    BY <1>2, <1>3 DEF EventProcessing, Hears, Unsettled
  <1>4. ASSUME NEW r \in Runs, EventFinished(r) PROVE Same \/ Ahead
    <2>1. PICK I \in SUBSET Due(r) : Chunk(r, I)
      BY <1>4, FinishedChunk
    <2>2. status = "processing"
      BY <1>2, <1>4 DEF EventFinished, Hears, Unsettled
    <2>3. ASSUME NEW i \in I PROVE ends[r][i].verdict \notin {"idle", "queued", "processing"}
      <3>1. ends[r] \in Seq(End) /\ i \in DOMAIN ends[r]
        BY <1>0 DEF CoreType, Due
      <3>2. ends[r][i] \in End
        BY <3>1
      <3> QED BY <3>2 DEF End, Live
    <2> QED BY <2>1, <2>2, <2>3 DEF Chunk
  <1>5. ASSUME NEW r \in Runs,
               EventChunk(r) \/ StreamFails(r) \/ StreamEnds(r) \/ StreamMisses(r) \/ Serve(r)
        PROVE  Same
    BY <1>5 DEF EventChunk, StreamFails, StreamEnds, StreamMisses, Serve, view
  <1>6. ASSUME NEW r \in Runs, Acknowledged(r) PROVE Next1
    <2>1. r \notin aborted
      BY <1>6 DEF Acknowledged
    <2> QED BY <1>2, <1>6, <2>1 DEF Acknowledged, Unsettled
  <1>7. ASSUME NEW r \in Runs, SubmitFails(r) \/ PollFails(r) \/ PollAborts(r) \/ FetchFails(r)
        PROVE  Same \/ Ahead
    BY <1>7 DEF SubmitFails, PollFails, PollAborts, FetchFails, view
  <1>8. ASSUME NEW r \in Runs, FetchRow(r) \/ PollRow(r) PROVE Same \/ Ahead
    <2>1. CASE FetchRow(r)
      <3>1. PICK g \in gets : RowArrives(r, g)
        BY <2>1, FetchArrives
      <3>2. CASE r \in aborted
        BY <3>1, <3>2 DEF RowArrives, view
      <3>3. CASE r \notin aborted
        <4>1. PICK v \in g.since..Len(ends[r]) : \E row \in Rows(r, v) : applySubmissionView(r, row)
          BY <3>1, <3>3 DEF RowArrives
        <4>2. PICK row \in Rows(r, v) : applySubmissionView(r, row)
          BY <4>1
        <4>3. g.run = r /\ pc[r] = "fetch"
          BY <1>0, <3>1 DEF RowArrives, Returned, Fetching
        <4>4. v \in 0..Len(ends[r]) /\ v # 0 /\ v \in DOMAIN ends[r]
          <5>1. g.of \in Nat /\ g.of # 0 /\ g.since \in Nat /\ g.of <= g.since
            BY <1>0, <4>3, GetType
          <5>2. Len(ends[r]) \in Nat /\ DOMAIN ends[r] = 1..Len(ends[r])
            BY <1>0 DEF CoreType
          <5> QED BY <5>1, <5>2
        <4>5. ends[r][v].row # NoResult
          <5>1. r = Current
            BY <1>2, <3>3, <4>3 DEF Unsettled
          <5> QED BY <4>4, <5>1 DEF Unstored
        <4> QED BY <1>0, <4>2, <4>4, <4>5, ApplyType
      <3> QED BY <3>2, <3>3
    <2>2. CASE PollRow(r)
      <3>1. PICK row \in Rows(r, Len(ends[r])) : applySubmissionView(r, row)
        BY <2>2 DEF PollRow
      <3>2. ends[r] # <<>> /\ ends[r][Len(ends[r])].row # NoResult
        BY <1>0, <2>2 DEF PollRow, Sound
      <3>3. Len(ends[r]) \in 0..Len(ends[r]) /\ Len(ends[r]) # 0
        BY <1>0, <3>2 DEF CoreType
      <3> QED BY <1>0, <3>1, <3>2, <3>3, ApplyType
    <2> QED BY <1>8, <2>1, <2>2
  <1>9. Same \/ Ahead \/ Next1
    <2> HIDE DEF Same, Ahead, Next1
    <2> QED BY <1>3, <1>4, <1>5, <1>6, <1>7, <1>8 DEF Work, Stream, Request
  <1> QED BY <1>9 DEF phaseIdx

\* An aborted run never adds to the page, and after its POST was answered it changes
\* nothing there; only the user makes the status strip go back, or an end of the
\* latest run that was announced and not stored, unless runs overlap or a POST is
\* answered late (onEvent, apiGet, poll).
THEOREM CancelledStaysSilentHolds == Spec => CancelledStaysSilent
  <1> DEFINE A == /\ \A r \in aborted :
                        /\ r \notin Texts => r \notin Texts'
                        /\ pc[r] # "submit" /\ pc'[r] # pc[r] => UNCHANGED view
                  /\ phaseIdx' < phaseIdx => User \/ Current \in Unstored \/ overlap' \/ late'
  <1>1. Inv /\ [Next]_vars => [A]_vars
    <2> SUFFICES ASSUME Inv, [Next]_vars PROVE A
      OBVIOUS
    <2>1. CASE Aside
      <3>1. status' = status /\ pc' = pc /\ Texts' = Texts
        BY <2>1 DEF Aside, Texts
      <3>2. phaseIdx' = phaseIdx /\ phaseIdx \in Nat
        BY <3>1 DEF phaseIdx
      <3> QED BY <3>1, <3>2
    <2>2. CASE Work
      <3>1. aborted \subseteq Runs
        BY DEF Inv, TypeOK
      <3>2. phaseIdx' < phaseIdx => User \/ Current \in Unstored \/ overlap' \/ late'
        BY <2>2, StripGoesForward
      <3>3. ASSUME NEW r \in aborted
            PROVE  /\ r \notin Texts => r \notin Texts'
                   /\ pc[r] # "submit" /\ pc'[r] # pc[r] => UNCHANGED view
        BY <2>2, <3>1, <3>3, AbortedIsSilent
      <3> QED BY <3>2, <3>3
    <2> QED BY <2>1, <2>2, Steps
  <1> QED BY <1>1, Invariance, PTL DEF Spec, CancelledStaysSilent

=============================================================================
