----------------------------- MODULE SiteProofs -----------------------------
(* Proofs about Site: for every part the invariant its own steps keep, for *)
(* all constants of its module, and that the steps of the others leave it. *)
EXTENDS Site, FiniteSetTheorems, TLAPS

-----------------------------------------------------------------------------
(* The search for an API (Discovery), for any number of clicks.  The       *)
(* inductive invariant, as long as no two probes were in flight.           *)

\* The one probe in flight is a first one, and while it looks no API is known.
\* Once one is known nobody looks any more, and the cache keeps it.
OneSearch ==
    /\ \A c, d \in InFlight : c = d
    /\ \A c \in InFlight : ~call[c].again
    /\ online => InFlight = {} /\ cache = "ok"
    /\ \A c \in Caller : call[c].at = "langs" => online

\* Until an API is known the base is the configured one, or will be put back.
BaseKept ==
    ~online =>
        /\ (\A c \in Caller : call[c].at # "fallback") => base = configured
        /\ \A c \in Caller : call[c].at = "fallback" => call[c].prev = configured

\* A real run, its token and the demo never meet.
RunsKnowApi ==
    /\ started => online
    /\ token = "real" => started
    /\ sim # "real" /\ "real" \notin faked

Inv == TypeOK /\ (~raced => OneSearch /\ BaseKept /\ RunsKnowApi)

-----------------------------------------------------------------------------
(* Types.                                                                  *)

Calls == [at : {"idle", "health", "fallback", "langs"}, again : BOOLEAN,
          spare : BOOLEAN, prev : Base]

LEMMA IdleType == Idle \in Calls /\ Idle.at = "idle"
  BY DEF Idle, Calls, Base

LEMMA ProbingType ==
    ASSUME TypeOK, NEW b \in BOOLEAN
    PROVE  Probing(b) \in Calls /\ Probing(b).at = "health" /\ Probing(b).again = b
  BY DEF TypeOK, Probing, Calls

LEMMA InitType == Init => TypeOK
  <1> SUFFICES ASSUME Init PROVE TypeOK
    OBVIOUS
  <1>1. base \in Base /\ configured \in Base /\ fallback \in Base
    BY DEF Init, readConfig, Base, Setting
  <1>2. Probing(FALSE) \in Calls
    BY <1>1 DEF Probing, Calls
  <1>3. call \in [Caller -> Calls]
    BY <1>2, IdleType DEF Init
  <1> QED BY <1>1, <1>3 DEF Init, TypeOK, Calls, Live

\* The demo's interval reports the token that was shown when it began.
LEMMA RenderedType ==
    ASSUME TypeOK, Rendered, token' \in {"real", "made up"}
    PROVE  sim' \in {"off", "real", "made up"} /\ raced' \in BOOLEAN
  BY DEF TypeOK, Rendered, Simulation

\* What an answer does to the one caller that gets it.
LEMMA AnswerEffect ==
    ASSUME TypeOK, NEW c \in Caller, NEW ok \in BOOLEAN, Answer(c, ok)
    PROVE  /\ call' \in [Caller -> Calls]
           /\ IF ok /\ ~call[c].again
              THEN call'[c].at = "langs" /\ online' = TRUE ELSE call'[c].at = "idle"
           /\ ~ok /\ ~call[c].again => online' = FALSE
           /\ \A d \in Caller \ {c} : call'[d] = call[d]
           /\ cache' = (IF ok THEN "ok" ELSE "failed")
           /\ online' \in BOOLEAN /\ ceilings' \in {"none", "listed"}
           /\ status' \in {status, "queued"} /\ started' \in BOOLEAN
           /\ ~call[c].again => UNCHANGED page
           /\ UNCHANGED <<configured, fallback, token, timer, faked>>
  <1>1. call \in [Caller -> Calls] /\ call[c].again \in BOOLEAN
    BY DEF TypeOK, Calls
  <1>2. CASE ok /\ ~call[c].again
    <2>1. call' = [call EXCEPT ![c].at = "langs"]
      BY <1>2 DEF Answer
    <2>2. call' \in [Caller -> Calls] /\ call'[c].at = "langs"
      BY <1>1, <2>1 DEF Calls
    <2>3. \A d \in Caller \ {c} : call'[d] = call[d]
      BY <1>1, <2>1
    <2> QED BY <1>2, <2>2, <2>3 DEF Answer, TypeOK, page
  <1>3. CASE ~(ok /\ ~call[c].again)
    <2>1. call' = [call EXCEPT ![c] = Idle]
      BY <1>3 DEF Answer
    <2>2. call' \in [Caller -> Calls] /\ call'[c].at = "idle"
      BY <1>1, <2>1, IdleType
    <2>3. \A d \in Caller \ {c} : call'[d] = call[d]
      BY <1>1, <2>1
    <2> QED BY <1>1, <1>3, <2>2, <2>3 DEF Answer, TypeOK, page, runOnApi
  <1> QED BY <1>2, <1>3

LEMMA NextType == ASSUME TypeOK, [Next]_vars PROVE TypeOK'
  <1>0. CASE UNCHANGED vars
    BY <1>0 DEF vars, search, page, TypeOK
  <1> SUFFICES ASSUME Next PROVE TypeOK'
    BY <1>0
  <1>1. ASSUME NEW c \in Caller, NEW ok \in BOOLEAN, Answer(c, ok), base' \in Base, Rendered
        PROVE  TypeOK'
    BY <1>1, AnswerEffect, RenderedType DEF TypeOK, Calls, Live
  <1>2. ASSUME NEW c \in Caller, Health(c) \/ Fallback(c), Rendered PROVE TypeOK'
    <2>1. base' \in Base
      BY <1>2 DEF Health, Fallback, TypeOK
    <2> QED BY <1>1, <1>2, <2>1 DEF Health, Fallback
  <1>3. ASSUME NEW c \in Caller, TryFallback(c), Rendered PROVE TypeOK'
    BY <1>3, RenderedType, ZenonT(30) DEF TryFallback, TypeOK, page
  <1>4. ASSUME NEW c \in Caller, Languages(c), Rendered PROVE TypeOK'
    <2>1. call' \in [Caller -> Calls]
      BY <1>4, IdleType, ProbingType DEF Languages, TypeOK, Calls
    <2> QED BY <1>4, <2>1, RenderedType DEF Languages, TypeOK, page, runOnApi, Calls, Live
  <1>5. ASSUME NEW c \in Click, RunOffline(c), Rendered PROVE TypeOK'
    <2>1. c \in Caller
      BY ClicksAssumption DEF Click, Caller
    <2>2. call' \in [Caller -> Calls]
      BY <1>5, <2>1, ProbingType DEF RunOffline, TypeOK, Calls
    <2> QED BY <1>5, <2>2, RenderedType DEF RunOffline, TypeOK, page, Calls
  <1>6. ASSUME Run \/ runSimulated \/ TimerFires \/ SimEnd \/ Stop \/ RunReports, Rendered
        PROVE  TypeOK'
    <2>1. /\ status' \in Live \cup {"idle", "accepted", "se", "cancelled"}
          /\ token' \in {"real", "made up"} /\ started' \in BOOLEAN /\ timer' \in BOOLEAN
          /\ faked' \subseteq {"real", "made up"}
      BY <1>6 DEF Run, runOnApi, runSimulated, TimerFires, SimEnd, Stop, RunReports, TypeOK, Live
    <2>2. UNCHANGED search
      BY <1>6 DEF Run, runSimulated, TimerFires, SimEnd, Stop, RunReports
    <2> QED BY <1>6, <2>1, <2>2, RenderedType DEF TypeOK, search
  <1> QED BY <1>2, <1>3, <1>4, <1>5, <1>6 DEF Next

-----------------------------------------------------------------------------
(* One probe at a time.                                                    *)

\* A set with two elements has a cardinality above one.
LEMMA TwoAreMore ==
    ASSUME NEW S, IsFiniteSet(S), NEW c \in S, NEW d \in S, c # d
    PROVE  Cardinality(S) > 1
  <1>1. IsFiniteSet({c}) /\ Cardinality({c}) = 1
    BY FS_Singleton
  <1>2. IsFiniteSet({c} \cup {d}) /\ Cardinality({c} \cup {d}) = Cardinality({c}) + 1
    BY <1>1, FS_AddElement
  <1>3. Cardinality({c} \cup {d}) <= Cardinality(S)
    <2>1. {c} \cup {d} \subseteq S
      OBVIOUS
    <2> QED BY <2>1, FS_Subset
  <1>4. Cardinality(S) \in Nat
    BY FS_CardinalityType
  <1>5. Cardinality({c} \cup {d}) = 2
    BY <1>1, <1>2
  <1> QED BY <1>3, <1>4, <1>5

\* A page that is not raced after a step was not raced before it, and has one
\* probe in flight at most.
LEMMA CalmStep ==
    ASSUME TypeOK, Rendered, ~raced'
    PROVE  ~raced /\ \A c, d \in InFlight' : c = d
  <1>1. ~raced /\ ~(Cardinality(InFlight') > 1)
    BY DEF Rendered
  <1>2. IsFiniteSet(InFlight')
    <2>1. IsFiniteSet(Caller)
      BY ClicksAssumption, FS_Interval DEF Caller
    <2> QED BY <2>1, FS_Subset DEF InFlight
  <1> QED BY <1>1, <1>2, TwoAreMore

\* A probe is answered, the only one, and it is a first one: if it found an API
\* the page now knows it, otherwise the base is as it was configured.
LEMMA AnswerCalm ==
    ASSUME TypeOK, OneSearch, BaseKept, RunsKnowApi, Rendered,
           \A x, y \in InFlight' : x = y,
           NEW c \in Caller, NEW ok \in BOOLEAN, c \in InFlight, Answer(c, ok),
           ~ok => base' = configured
    PROVE  OneSearch' /\ BaseKept' /\ RunsKnowApi'
  <1>1. ~online /\ ~call[c].again
    BY DEF OneSearch
  <1>2. \A d \in Caller : call'[d].at \notin {"health", "fallback"}
    BY <1>1, AnswerEffect DEF OneSearch, InFlight
  <1>3. \A d \in Caller : call'[d].at = "langs" => ok
    BY <1>1, AnswerEffect DEF OneSearch
  <1>4. online' = ok /\ cache' = IF ok THEN "ok" ELSE "failed"
    BY <1>1, AnswerEffect
  <1>5. UNCHANGED page /\ UNCHANGED configured
    BY <1>1, AnswerEffect
  <1>6. OneSearch'
    BY <1>2, <1>3, <1>4 DEF OneSearch, InFlight
  <1>7. BaseKept'
    BY <1>2, <1>4, <1>5 DEF BaseKept
  <1>8. RunsKnowApi'
    BY <1>1, <1>5 DEF RunsKnowApi, Rendered, Simulation, page
  <1> QED BY <1>6, <1>7, <1>8

\* Only the page changes, a run begins only where an API is known, and no token
\* or verdict is real without a run.
LEMMA PageCalm ==
    ASSUME TypeOK, OneSearch, BaseKept, RunsKnowApi, Rendered, UNCHANGED search,
           \/ started' = started
           \/ started' = TRUE /\ online,
           token' = "real" => started', "real" \notin faked'
    PROVE  OneSearch' /\ BaseKept' /\ RunsKnowApi'
  <1>1. OneSearch' /\ BaseKept'
    BY DEF search, OneSearch, BaseKept, InFlight
  <1>2. (started' => online') /\ online' = online
    BY DEF search, RunsKnowApi
  <1>3. sim' # "real"
    BY <1>2 DEF Rendered, Simulation, RunsKnowApi
  <1> QED BY <1>1, <1>2, <1>3 DEF RunsKnowApi

LEMMA CalmInv ==
    ASSUME TypeOK, OneSearch, BaseKept, RunsKnowApi, Next, ~raced'
    PROVE  OneSearch' /\ BaseKept' /\ RunsKnowApi'
  <1>0. Rendered /\ \A c, d \in InFlight' : c = d
    BY CalmStep DEF Next
  <1>1. ASSUME NEW c \in Caller, Health(c) PROVE OneSearch' /\ BaseKept' /\ RunsKnowApi'
    <2>1. c \in InFlight /\ base' = base
      BY <1>1 DEF Health, InFlight
    <2>2. ~online /\ \A d \in Caller : call[d].at # "fallback"
      BY <1>1, <2>1 DEF OneSearch, Health, InFlight
    <2>3. base = configured
      BY <2>2 DEF BaseKept
    <2> QED BY <1>0, <1>1, <2>1, <2>3, AnswerCalm DEF Health
  <1>2. ASSUME NEW c \in Caller, TryFallback(c) PROVE OneSearch' /\ BaseKept' /\ RunsKnowApi'
    <2>1. c \in InFlight
      BY <1>2 DEF TryFallback, InFlight
    <2>2. ~online /\ \A d \in Caller \ {c} : call[d].at \notin {"health", "fallback", "langs"}
      BY <2>1 DEF OneSearch, InFlight
    <2>3. \A d \in Caller : call[d].at # "fallback"
      BY <1>2, <2>2 DEF TryFallback
    <2>4. base = configured
      BY <2>2, <2>3 DEF BaseKept
    <2>5. /\ call'[c].at = "fallback" /\ call'[c].prev = base /\ call'[c].again = call[c].again
          /\ \A d \in Caller \ {c} : call'[d] = call[d]
      BY <1>2 DEF TryFallback, TypeOK
    <2>6. UNCHANGED <<configured, cache, online, page>>
      BY <1>2 DEF TryFallback
    <2>7. OneSearch'
      BY <1>0, <2>1, <2>2, <2>5, <2>6 DEF OneSearch, InFlight
    <2>8. BaseKept'
      BY <2>2, <2>4, <2>5, <2>6 DEF BaseKept
    <2>9. RunsKnowApi'
      BY <1>0, <2>6 DEF RunsKnowApi, Rendered, Simulation, page
    <2> QED BY <2>7, <2>8, <2>9
  <1>3. ASSUME NEW c \in Caller, Fallback(c) PROVE OneSearch' /\ BaseKept' /\ RunsKnowApi'
    <2>1. c \in InFlight
      BY <1>3 DEF Fallback, InFlight
    <2>2. call[c].prev = configured
      BY <1>3, <2>1 DEF OneSearch, BaseKept, Fallback
    <2>3. \E ok \in BOOLEAN : Answer(c, ok) /\ (~ok => base' = configured)
      BY <1>3, <2>2 DEF Fallback
    <2> QED BY <1>0, <2>1, <2>3, AnswerCalm
  <1>4. ASSUME NEW c \in Caller, Languages(c) PROVE OneSearch' /\ BaseKept' /\ RunsKnowApi'
    <2>1. online /\ cache = "ok" /\ InFlight = {}
      BY <1>4 DEF Languages, OneSearch
    <2>2. call'[c].at = "idle" /\ \A d \in Caller \ {c} : call'[d] = call[d]
      BY <1>4, <2>1, IdleType DEF Languages, TypeOK
    <2>3. UNCHANGED <<base, configured, cache, online, token, faked>>
      BY <1>4 DEF Languages, runOnApi, page
    <2>4. OneSearch' /\ BaseKept'
      BY <2>1, <2>2, <2>3 DEF OneSearch, BaseKept, InFlight
    <2>5. token' = "real" => started'
      BY <1>4, <2>3 DEF Languages, runOnApi, page, RunsKnowApi
    <2> QED BY <1>0, <2>1, <2>3, <2>4, <2>5 DEF RunsKnowApi, Rendered, Simulation
  <1>5. ASSUME NEW c \in Click, RunOffline(c) PROVE OneSearch' /\ BaseKept' /\ RunsKnowApi'
    <2>1. c \in Caller
      BY ClicksAssumption DEF Click, Caller
    <2>2. ~online /\ UNCHANGED <<base, configured, online, page>>
      BY <1>5 DEF RunOffline
    <2>3. /\ call'[c].at = "health" /\ ~call'[c].again
          /\ \A d \in Caller \ {c} : call'[d] = call[d]
      BY <1>5, <2>1, ProbingType DEF RunOffline, TypeOK
    <2>4. call[c].at = "idle"
      BY <1>5, IdleType DEF RunOffline
    <2>5. OneSearch'
      BY <1>0, <2>1, <2>2, <2>3 DEF OneSearch, InFlight
    <2>6. BaseKept'
      BY <2>1, <2>2, <2>3, <2>4 DEF BaseKept
    <2>7. RunsKnowApi'
      BY <1>0, <2>2 DEF RunsKnowApi, Rendered, Simulation, page
    <2> QED BY <2>5, <2>6, <2>7
  <1>6. ASSUME Run \/ runSimulated \/ TimerFires \/ SimEnd \/ Stop \/ RunReports
        PROVE  OneSearch' /\ BaseKept' /\ RunsKnowApi'
    <2>1. UNCHANGED search
      BY <1>6 DEF Run, runSimulated, TimerFires, SimEnd, Stop, RunReports
    <2>2. started' = started \/ (started' = TRUE /\ online)
      BY <1>6 DEF Run, runOnApi, runSimulated, TimerFires, SimEnd, Stop, RunReports
    <2>3. token' = "real" => started'
      BY <1>6 DEF Run, runOnApi, runSimulated, TimerFires, SimEnd, Stop, RunReports, RunsKnowApi
    <2>4. "real" \notin faked'
      BY <1>6 DEF Run, runOnApi, runSimulated, TimerFires, SimEnd, Stop, RunReports, RunsKnowApi
    <2> QED BY <1>0, <2>1, <2>2, <2>3, <2>4, PageCalm
  <1> QED BY <1>1, <1>2, <1>3, <1>4, <1>5, <1>6 DEF Next

-----------------------------------------------------------------------------
(* The theorems.                                                           *)

LEMMA InitInv == Init => Inv
  <1> SUFFICES ASSUME Init PROVE Inv
    OBVIOUS
  <1>1. \A c \in Caller : call[c] = (IF c = 0 THEN Probing(FALSE) ELSE Idle)
    BY DEF Init
  <1>2. /\ Probing(FALSE).at = "health" /\ ~Probing(FALSE).again /\ Idle.at = "idle"
    BY DEF Probing, Idle
  <1>3. OneSearch
    BY <1>1, <1>2 DEF Init, OneSearch, InFlight
  <1>4. BaseKept
    BY <1>1, <1>2 DEF Init, BaseKept
  <1> QED BY <1>3, <1>4, InitType DEF Inv, Init, RunsKnowApi

LEMMA NextInv == Inv /\ [Next]_vars => Inv'
  <1> SUFFICES ASSUME Inv, [Next]_vars PROVE Inv'
    OBVIOUS
  <1>1. CASE UNCHANGED vars
    BY <1>1, NextType DEF Inv, vars, search, page, OneSearch, BaseKept, RunsKnowApi, InFlight
  <1>2. CASE Next
    <2>1. ~raced' => ~raced
      BY <1>2 DEF Next, Rendered
    <2> QED BY <1>2, <2>1, NextType, CalmInv DEF Inv
  <1> QED BY <1>1, <1>2

\* Every step of the probes, the page and the demo keeps the whole invariant.
THEOREM SearchInvariance == Spec => []Inv
  BY InitInv, NextInv, PTL DEF Spec

\* A search that fails leaves the configured base, unless two probes overlapped.
THEOREM BaseRestoredHolds == Spec => []BaseRestored
  <1>1. Inv => BaseRestored
    BY DEF Inv, OneSearch, BaseKept, BaseRestored, InFlight
  <1> QED BY <1>1, SearchInvariance, PTL

\* The demo records no verdict for a real submission, unless two probes overlapped.
THEOREM NoFakedVerdictHolds == Spec => []NoFakedVerdict
  <1>1. Inv => NoFakedVerdict
    BY DEF Inv, RunsKnowApi, NoFakedVerdict
  <1> QED BY <1>1, SearchInvariance, PTL

-----------------------------------------------------------------------------
(* The sliders (Controls).                                                 *)

\* The sliders stay in what the service admits of memory and wall time.
LimitsInv ==
    /\ limits \in [memoryMb : Nat, timeS : Nat]
    /\ limits.memoryMb \in 1..Ceiling.memory_mb
    /\ limits.timeS \in 1..Ceiling.wall_time

LEMMA MaxBounded ==
    ASSUME NEW listed \in BOOLEAN
    PROVE  /\ max(listed).memoryMb \in Nat /\ max(listed).memoryMb <= Ceiling.memory_mb
           /\ max(listed).timeS \in Nat /\ max(listed).timeS <= Ceiling.wall_time
  BY CatalogueAssumption, CeilingAssumption DEF max, Unlisted

LEMMA LimitsInitInv == LimitsInit => LimitsInv
  <1> SUFFICES ASSUME LimitsInit PROVE LimitsInv
    OBVIOUS
  <1>1. CASE limits = [memoryMb |-> 1024, timeS |-> 30]
    BY <1>1, CeilingAssumption DEF LimitsInv, Unlisted
  <1>2. CASE limits \in
             [memoryMb : {m \in MemStop : m <= Most(Unlisted.memoryMb, Catalogue.memoryMb)},
              timeS : {s \in TimeStop : s <= Most(Unlisted.timeS, Catalogue.timeS)}]
    <2>1. /\ limits.memoryMb \in MemStop /\ limits.timeS \in TimeStop
          /\ limits.memoryMb <= Most(Unlisted.memoryMb, Catalogue.memoryMb)
          /\ limits.timeS <= Most(Unlisted.timeS, Catalogue.timeS)
          /\ limits = [memoryMb |-> limits.memoryMb, timeS |-> limits.timeS]
      BY <1>2
    <2>2. /\ Most(Unlisted.memoryMb, Catalogue.memoryMb) \in 0..Ceiling.memory_mb
          /\ Most(Unlisted.timeS, Catalogue.timeS) \in 0..Ceiling.wall_time
      BY CatalogueAssumption, CeilingAssumption DEF Most, Unlisted
    <2>3. limits.memoryMb \in Nat \ {0} /\ limits.timeS \in Nat \ {0}
      BY <2>1, StopAssumption
    <2>4. limits.memoryMb \in 1..Ceiling.memory_mb /\ limits.timeS \in 1..Ceiling.wall_time
      BY <2>1, <2>2, <2>3, CeilingAssumption
    <2> QED BY <2>1, <2>3, <2>4 DEF LimitsInv
  <1> QED BY <1>1, <1>2 DEF LimitsInit

LEMMA LimitsStepInv ==
    ASSUME LimitsInv, NEW listed \in BOOLEAN, toggleLimits \/ setLimits(listed)
    PROVE  LimitsInv'
  <1>1. CASE toggleLimits
    BY <1>1 DEF toggleLimits, LimitsInv
  <1>2. ASSUME NEW m \in MemStop, m <= max(listed).memoryMb,
               limits' = [limits EXCEPT !.memoryMb = m]
        PROVE  LimitsInv'
    <2>1. m \in 1..Ceiling.memory_mb
      BY <1>2, StopAssumption, MaxBounded, CeilingAssumption
    <2> QED BY <1>2, <2>1, StopAssumption DEF LimitsInv
  <1>3. ASSUME NEW s \in TimeStop, s <= max(listed).timeS,
               limits' = [limits EXCEPT !.timeS = s]
        PROVE  LimitsInv'
    <2>1. s \in 1..Ceiling.wall_time
      BY <1>3, StopAssumption, MaxBounded, CeilingAssumption
    <2> QED BY <1>3, <2>1, StopAssumption DEF LimitsInv
  <1> QED BY <1>1, <1>2, <1>3 DEF setLimits

\* The page's cap on the CPU time is below the service's; without it a batch is
\* refused exactly above the service's.
LEMMA LimitsAcceptedInv == LimitsInv => LimitsAccepted
  <1> SUFFICES ASSUME LimitsInv PROVE LimitsAccepted
    OBVIOUS
  <1>1. /\ limits.timeS \in Nat /\ 1 <= limits.timeS /\ limits.timeS <= Ceiling.wall_time
        /\ limits.memoryMb \in 1..Ceiling.memory_mb /\ Ceiling.cpu_time \in Nat
        /\ 30 <= Ceiling.cpu_time /\ Ceiling.wall_time \in Nat
    BY CeilingAssumption DEF LimitsInv, CpuCap
  <1>2. validate(RunRequest(limits))
    BY <1>1 DEF validate, RunRequest, Least, CpuCap
  <1>3. validate(BatchRequest(limits)) <=> limits.timeS <= Ceiling.cpu_time
    BY <1>1 DEF validate, BatchRequest
  <1> QED BY <1>2, <1>3 DEF LimitsAccepted

-----------------------------------------------------------------------------
(* The theme (Controls).                                                   *)

ThemeInv ==
    /\ storage \in BOOLEAN /\ mounted \in BOOLEAN /\ foreign \in BOOLEAN /\ early \in BOOLEAN
    /\ system \in {"dark", "light"}
    /\ ThemeAgrees

LEMMA ThemeInitInv == ThemeInit => ThemeInv
  BY DEF ThemeInit, readStored, ThemeInv, ThemeAgrees

\* Whoever listens hears of the new theme; who does not yet is late.
LEMMA ApplyShows ==
    ASSUME ThemeInv, NEW theme, apply(theme), UNCHANGED mounted
    PROVE  /\ attr' = theme /\ early' \in BOOLEAN
           /\ mounted' => strip' = attr'
           /\ ~early' => button' = attr'
  BY DEF ThemeInv, ThemeAgrees, apply

LEMMA ThemeStepInv == ASSUME ThemeInv, ThemeStep PROVE ThemeInv'
  <1>1. CASE toggleTheme
    <2>1. Other(attr) \in {"dark", "light"}
      BY DEF Other
    <2> QED BY <1>1, <2>1, ApplyShows DEF toggleTheme, ThemeInv, ThemeAgrees
  <1>2. CASE SystemChanges
    <2>1. system' \in {"dark", "light"} /\ UNCHANGED <<stored, storage, mounted, foreign>>
      BY <1>2 DEF SystemChanges, Other
    <2>2. CASE readStored = "none" /\ apply(system')
      BY <2>1, <2>2, ApplyShows DEF ThemeInv, ThemeAgrees, readStored
    <2>3. CASE readStored # "none" /\ UNCHANGED <<attr, button, strip, early>>
      BY <2>1, <2>3 DEF ThemeInv, ThemeAgrees, readStored
    <2> QED BY <1>2, <2>2, <2>3 DEF SystemChanges
  <1>3. CASE Subscribe
    BY <1>3 DEF Subscribe, ThemeInv, ThemeAgrees
  <1>4. CASE OtherPage
    BY <1>4 DEF OtherPage, ThemeInv, ThemeAgrees
  <1> QED BY <1>1, <1>2, <1>3, <1>4 DEF ThemeStep

-----------------------------------------------------------------------------
(* The splitters, the share button and the drawer (Controls).              *)

\* A drag has its listeners only while the button is down or its release was not
\* heard; a pane has its least size.
LayoutInv ==
    /\ size \in Int /\ window \in Int /\ Smallest <= size
    /\ ~pressed /\ ~missed => drags = 0

\* The label has a timeout; the drawer's effect remembers a page that scrolls.
BarInv ==
    /\ shareTimers \in Nat /\ (copied => shareTimers > 0)
    /\ kept = "auto" /\ overflow = IF pickerOpen THEN "hidden" ELSE "auto"

LEMMA ClampType ==
    ASSUME NEW n \in Int, window \in Int PROVE clamp(n) \in Int /\ Smallest <= clamp(n)
  BY PaneAssumption DEF clamp, Most, Least

LEMMA LayoutInitInv == LayoutInit => LayoutInv
  <1> SUFFICES ASSUME LayoutInit PROVE LayoutInv
    OBVIOUS
  <1>1. window \in Int /\ Window \subseteq Int
    BY PaneAssumption DEF LayoutInit
  <1>2. size \in Int /\ Smallest <= size
    BY <1>1, ClampType DEF LayoutInit
  <1> QED BY <1>1, <1>2 DEF LayoutInit, LayoutInv

LEMMA LayoutStepInv == ASSUME LayoutInv, LayoutStep PROVE LayoutInv'
  <1>1. CASE onMouseDown
    BY <1>1 DEF onMouseDown, LayoutInv
  <1>2. ASSUME NEW d \in Delta, onMove(d) PROVE LayoutInv'
    <2>1. d \in Int /\ size \in Int /\ window \in Int
      BY PaneAssumption DEF LayoutInv
    <2>2. clamp(size + d) \in Int /\ Smallest <= clamp(size + d)
      BY <2>1, ClampType
    <2>3. clamp(clamp(size + d) + d) \in Int /\ Smallest <= clamp(clamp(size + d) + d)
      BY <2>1, <2>2, ClampType
    <2> QED BY <1>2, <2>2, <2>3 DEF onMove, LayoutInv
  <1>3. CASE onUp
    BY <1>3 DEF onUp, LayoutInv
  <1>4. CASE ResizeWindow
    BY <1>4, PaneAssumption DEF ResizeWindow, LayoutInv
  <1> QED BY <1>1, <1>2, <1>3, <1>4 DEF LayoutStep

LEMMA BarInitInv == BarInit => BarInv
  BY DEF BarInit, BarInv

LEMMA BarStepInv == ASSUME BarInv, BarStep PROVE BarInv'
  <1>1. CASE handleShare
    BY <1>1 DEF handleShare, BarInv
  <1>2. CASE ShareTimer
    BY <1>2 DEF ShareTimer, BarInv
  <1>3. CASE openPicker
    BY <1>3 DEF openPicker, BarInv
  <1>4. CASE closePicker
    BY <1>4 DEF closePicker, release, BarInv
  <1>5. ASSUME NEW q \in Query, setQ(q) PROVE BarInv'
    BY <1>5 DEF setQ, BarInv
  <1>6. ASSUME NEW l \in Found("all"), selectAndClose(l) PROVE BarInv'
    BY <1>6 DEF selectAndClose, release, BarInv
  <1> QED BY <1>1, <1>2, <1>3, <1>4, <1>5, <1>6 DEF BarStep

LEMMA SettleInv == LayoutInv /\ BarInv => ControlsSettle
  BY DEF LayoutInv, BarInv, ControlsSettle

-----------------------------------------------------------------------------
(* The imitation of a run (Teaser).                                        *)

\* An interval that plays has shown as many lines as it has ticked, but for its
\* start: a late timeout may restart it under an output that is already there.
TeaserInv ==
    /\ outIdx \in Nat /\ timers \in Nat /\ tick \in Nat
    /\ phase = "processing" => tick <= Lines /\ (tick = 0 \/ outIdx = tick)
    /\ TeaserSound

LEMMA TeaserInitInv == TeaserInit => TeaserInv
  BY LinesAssumption DEF TeaserInit, TeaserInv, TeaserSound

LEMMA TeaserStepInv == ASSUME TeaserInv, TeaserStep PROVE TeaserInv'
  <1>1. CASE start
    BY <1>1, LinesAssumption DEF start, TeaserInv, TeaserSound
  <1>2. CASE TimeoutFires
    BY <1>2, LinesAssumption DEF TimeoutFires, TeaserInv, TeaserSound
  <1>3. CASE Tick
    BY <1>3, LinesAssumption DEF Tick, TeaserInv, TeaserSound
  <1> QED BY <1>1, <1>2, <1>3 DEF TeaserStep, run, AutoRun

-----------------------------------------------------------------------------
(* The menu and the terminal (Landing).                                    *)

MenuInv == locked = effectOf

LEMMA MenuInitInv == MenuInit => MenuInv
  BY DEF MenuInit, MenuInv

LEMMA MenuStepInv == ASSUME MenuInv, MenuStep PROVE MenuInv'
  BY DEF MenuInv, MenuStep, burger, sheetLink, dismiss, MenuEffect

TypeAt(i) == [do |-> "type", i |-> i, at |-> i * CHAR_MS]
ShowAt(i) == [do |-> "show", i |-> i, at |-> afterType + i * 480]
Restart == [do |-> "restart", i |-> 0, at |-> afterType + Outs * 480 + 3600]

\* The pending timeouts are of one turn: those that type are exactly the ones
\* after the last character typed, and the one that starts the next turn is there.
DemoInv ==
    /\ reduced \in BOOLEAN /\ timersRef \subseteq Turn /\ typed \in 0..Chars /\ showOut \in Int
    /\ \A i \in 1..Chars : TypeAt(i) \in timersRef => i > typed
    /\ \A i \in 1..Chars : i > typed => TypeAt(i) \in timersRef
    /\ showOut >= 0 => typed = Chars
    /\ IF reduced THEN timersRef = {} /\ showOut = Outs - 1 ELSE Restart \in timersRef

\* The timeouts of a turn, by what they do and when.
LEMMA TurnShape ==
    /\ \A e \in Turn : \/ \E i \in 1..Chars : e = TypeAt(i)
                       \/ \E i \in 0..Outs - 1 : e = ShowAt(i)
                       \/ e = Restart
    /\ \A i \in 1..Chars : TypeAt(i) \in Turn
    /\ Restart \in Turn
  BY DEF Turn, TypeAt, ShowAt, Restart

LEMMA TimerFields ==
    ASSUME NEW i \in Int
    PROVE  /\ TypeAt(i).do = "type" /\ TypeAt(i).i = i /\ TypeAt(i).at = 14 * i
           /\ ShowAt(i).do = "show" /\ ShowAt(i).i = i
           /\ ShowAt(i).at = 14 * Chars + 320 + 480 * i
           /\ Restart.do = "restart"
  BY DemoAssumption DEF TypeAt, ShowAt, Restart, afterType, CHAR_MS

LEMMA DemoInitInv == DemoInit /\ reduced \in BOOLEAN => DemoInv
  <1> SUFFICES ASSUME DemoInit, reduced \in BOOLEAN PROVE DemoInv
    OBVIOUS
  <1> QED BY DemoAssumption, TurnShape DEF DemoInit, DemoInv

\* The timeout that is due types the next character, or all are typed.
LEMMA DueTypes ==
    ASSUME DemoInv, NEW e, Due(e)
    PROVE  /\ \A i \in 1..Chars : e = TypeAt(i) => i = typed + 1
           /\ \A i \in 0..Outs - 1 : e = ShowAt(i) => typed = Chars
  <1>1. typed \in Nat /\ Chars \in Nat /\ typed <= Chars
    BY DemoAssumption DEF DemoInv
  <1>2. typed < Chars => typed + 1 \in 1..Chars /\ TypeAt(typed + 1) \in timersRef
    BY <1>1 DEF DemoInv
  <1>3. typed < Chars => e.at <= 14 * (typed + 1)
    BY <1>1, <1>2, TimerFields DEF Due
  <1>4. ASSUME NEW i \in 1..Chars, e = TypeAt(i) PROVE i = typed + 1
    <2>1. i > typed
      BY <1>4 DEF Due, DemoInv
    <2>2. e.at = 14 * i
      BY <1>4, TimerFields
    <2> QED BY <1>1, <1>3, <2>1, <2>2
  <1>5. ASSUME NEW i \in 0..Outs - 1, e = ShowAt(i) PROVE typed = Chars
    <2>1. e.at = 14 * Chars + 320 + 480 * i /\ i \in Nat
      BY <1>5, TimerFields, SMTT(30)
    <2> QED BY <1>1, <1>3, <2>1
  <1> QED BY <1>4, <1>5

LEMMA DemoStepInv == ASSUME DemoInv, DemoStep, UNCHANGED reduced PROVE DemoInv'
  <1> PICK e \in timersRef : setTyped(e) \/ setShowOut(e) \/ setRestart(e)
    BY DEF DemoStep
  <1>0. Due(e) /\ e \in Turn /\ ~reduced /\ reduced' = reduced
    BY DEF DemoInv, setTyped, setShowOut, setRestart
  <1>1. CASE setTyped(e)
    <2>1. PICK i \in 1..Chars : e = TypeAt(i)
      BY <1>0, <1>1, TurnShape, TimerFields, SMTT(30) DEF setTyped
    <2>2. i = typed + 1 /\ typed' = i /\ showOut' = showOut /\ timersRef' = timersRef \ {e}
      BY <1>0, <1>1, <2>1, DueTypes, TimerFields DEF setTyped
    <2>3. typed' \in 0..Chars /\ typed < Chars /\ ~(showOut >= 0)
      BY <2>1, <2>2, DemoAssumption DEF DemoInv
    <2>4. \A j \in 1..Chars : TypeAt(j) \in timersRef' <=> j > typed'
      <3> TAKE j \in 1..Chars
      <3>1. TypeAt(j) = e <=> j = i
        BY <2>1, TimerFields, SMTT(30)
      <3>2. TypeAt(j) \in timersRef <=> j > typed
        BY DEF DemoInv
      <3>3. j \in Int /\ i \in Int /\ typed \in Int
        BY <2>2, <2>3, DemoAssumption DEF DemoInv
      <3> QED BY <2>2, <3>1, <3>2, <3>3
    <2>5. Restart \in timersRef'
      BY <1>0, <2>1, <2>2, TimerFields, SMTT(30) DEF DemoInv
    <2> QED BY <1>0, <2>2, <2>3, <2>4, <2>5 DEF DemoInv
  <1>2. CASE setShowOut(e)
    <2>1. PICK i \in 0..Outs - 1 : e = ShowAt(i)
      BY <1>0, <1>2, TurnShape, TimerFields DEF setShowOut
    <2>2. typed = Chars /\ typed' = typed /\ showOut' = i /\ timersRef' = timersRef \ {e}
      BY <1>0, <1>2, <2>1, DueTypes, TimerFields DEF setShowOut
    <2>3. Restart \in timersRef'
      <3>1. i \in Int
        BY DemoAssumption
      <3>2. e.do = "show" /\ Restart.do = "restart"
        BY <2>1, <3>1, TimerFields
      <3> QED BY <1>0, <2>2, <3>2 DEF DemoInv
    <2>4. \A j \in 1..Chars : TypeAt(j) \in timersRef' <=> j > typed'
      <3> TAKE j \in 1..Chars
      <3>1. TypeAt(j) # e
        <4>1. j \in Int /\ i \in Int
          BY DemoAssumption
        <4>2. TypeAt(j).do = "type" /\ e.do = "show"
          BY <2>1, <4>1, TimerFields
        <4> QED BY <4>2
      <3>2. TypeAt(j) \in timersRef <=> j > typed
        BY DEF DemoInv
      <3> QED BY <2>2, <3>1, <3>2
    <2> QED BY <1>0, <2>1, <2>2, <2>3, <2>4 DEF DemoInv
  <1>3. CASE setRestart(e)
    BY <1>0, <1>3, TurnShape, DemoAssumption DEF setRestart, DemoInv
  <1> QED BY <1>1, <1>2, <1>3

LEMMA DemoSoundInv == DemoInv => DemoSound
  BY DEF DemoInv, DemoSound

-----------------------------------------------------------------------------
(* The text in the editor (Editor).                                        *)

\* An update that awaits its render is the buffer's text, and without one the
\* page has it; the draft is behind only while effects are due; and an effect
\* that will overwrite the buffer means that the user came in between.  The
\* buffer is the page's text or one formatting ahead of it.
EditorInv ==
    /\ buffer \in Program /\ code \in Program /\ saved \in Program
    /\ due \in BOOLEAN /\ crossed \in BOOLEAN
    /\ update = NoProgram => buffer = code
    /\ update # NoProgram => update = buffer
    /\ ~due => saved = code
    /\ due /\ buffer # code => crossed
    /\ buffer = code \/ buffer = tidy(code)
    /\ EditorFaithful

LEMMA EditorInitInv == EditorInit => EditorInv
  <1> SUFFICES ASSUME EditorInit PROVE EditorInv
    OBVIOUS
  <1>1. buffer \in Program
    BY ProgramAssumption DEF EditorInit
  <1>2. submitted.program = submitted.buffer /\ submitted.input = submitted.pane
    BY DEF EditorInit, Shown
  <1>3. EditorFaithful
    BY <1>2 DEF EditorInit, EditorFaithful
  <1> QED BY <1>1, <1>3 DEF EditorInit, EditorInv

\* The user's change reaches all three places, or is lost between a render and
\* its effects, which then write the rendered text.
LEMMA ChangeInv ==
    ASSUME EditorInv, NEW p \in Program, Change(p), saved' = code', savedStdin' = stdin',
           UNCHANGED submitted
    PROVE  EditorInv'
  BY DEF EditorInv, EditorFaithful, Change

LEMMA EditorStepInv == ASSUME EditorInv, EditorStep PROVE EditorInv'
  <1>1. ASSUME NEW p \in Program, Type(p) PROVE EditorInv'
    BY <1>1, ChangeInv DEF Type, saveDraft
  <1>2. ASSUME NEW s \in Input, setStdin(s) PROVE EditorInv'
    BY <1>2, ProgramAssumption DEF setStdin, saveDraft, EditorInv, EditorFaithful
  <1>3. ASSUME NEW p \in Snippet, selectLang(p) PROVE EditorInv'
    BY <1>3, ProgramAssumption DEF selectLang, saveDraft, EditorInv, EditorFaithful
  <1>4. CASE format
    <2>1. reindent(buffer) \in Program
      BY ProgramAssumption DEF EditorInv
    <2>2. CASE UNCHANGED <<buffer, code, update, due, draftVars, written, crossed>>
      BY <1>4, <2>2 DEF format, draftVars, EditorInv, EditorFaithful
    <2>3. CASE Change(reindent(buffer)) /\ saved' = code' /\ savedStdin' = stdin
      BY <1>4, <2>1, <2>3, ChangeInv DEF format
    <2> QED BY <1>4, <2>2, <2>3 DEF format
  <1>5. CASE Formatted
    <2>1. tidy(buffer) \in Program /\ (buffer = tidy(code) => tidy(buffer) = buffer)
      BY ProgramAssumption, TidyAssumption DEF EditorInv
    <2> QED BY <1>5, <2>1, ProgramAssumption DEF Formatted, draftVars, EditorInv, EditorFaithful
  <1>6. CASE Render
    BY <1>6 DEF Render, draftVars, EditorInv, EditorFaithful
  <1>7. CASE CodeEffect
    BY <1>7, ProgramAssumption DEF CodeEffect, saveDraft, EditorInv, EditorFaithful
  <1>8. CASE RunKnown \/ Connect \/ Connected
    BY <1>8 DEF RunKnown, Connect, Connected, Shown, draftVars, EditorInv, EditorFaithful
  <1>9. CASE Reopen
    BY <1>9 DEF Reopen, draftVars, EditorInv, EditorFaithful
  <1> QED BY <1>1, <1>2, <1>3, <1>4, <1>5, <1>6, <1>7, <1>8, <1>9 DEF EditorStep

-----------------------------------------------------------------------------
(* The diagram.  A packet in ring i has gone the smooth share of the way   *)
(* from one edge to the next.                                              *)

Hovers == {none, kernel} \cup {ring(i) : i \in 0..7}

DiagramInv == t \in 0..99 /\ G \in Rings /\ hoverIdx \in Hovers

LEMMA DiagramInitInv == DiagramInit => DiagramInv
  BY DEF DiagramInit, DiagramInv, Hovers

LEMMA DiagramStepInv == ASSUME DiagramInv, DiagramStep PROVE DiagramInv'
  <1>1. CASE Frame
    BY <1>1 DEF Frame, DiagramInv
  <1>2. CASE setHoverIdx(none)
    BY <1>2 DEF setHoverIdx, DiagramInv, Hovers
  <1>3. CASE \E h \in {ring(i) : i \in 0..7} \cup {kernel} : setHoverIdx(h)
    BY <1>3 DEF setHoverIdx, DiagramInv, Hovers
  <1>4. CASE PauseEffect
    BY <1>4 DEF PauseEffect, DiagramInv
  <1> QED BY <1>1, <1>2, <1>3, <1>4 DEF DiagramStep

\* What the mouse may be on, told apart.
LEMMA HoversDiffer ==
    /\ none # kernel
    /\ \A i \in 0..7 : ring(i) # none /\ ring(i) # kernel /\ ring(i).ring = i
    /\ \A i \in 0..7 : "ring" \in DOMAIN ring(i)
    /\ "ring" \notin DOMAIN none
  BY DEF none, kernel, ring

\* The values of smooth that the phases of the cycle use.
LEMMA SmoothRing ==
    /\ smooth(0, 6) = 0 /\ smooth(1, 6) = 74 /\ smooth(2, 6) = 259 /\ smooth(3, 6) = 500
    /\ smooth(4, 6) = 740 /\ smooth(5, 6) = 925 /\ smooth(6, 6) = 1000
  BY DEF smooth, Unit

LEMMA SmoothKernel ==
    /\ smooth(0, 18) = 0 /\ smooth(1, 18) = 8 /\ smooth(2, 18) = 34 /\ smooth(3, 18) = 74
    /\ smooth(4, 18) = 126 /\ smooth(5, 18) = 188 /\ smooth(6, 18) = 259 /\ smooth(7, 18) = 336
    /\ smooth(8, 18) = 417 /\ smooth(9, 18) = 500 /\ smooth(10, 18) = 582 /\ smooth(11, 18) = 663
    /\ smooth(12, 18) = 740 /\ smooth(13, 18) = 811 /\ smooth(14, 18) = 873 /\ smooth(15, 18) = 925
    /\ smooth(16, 18) = 965 /\ smooth(17, 18) = 991
  BY DEF smooth, Unit

LEMMA SmoothGlow == \A n \in 2..19 : smooth(n, 20) > 0
  <1> SUFFICES ASSUME NEW n \in 2..19 PROVE smooth(n, 20) > 0
    OBVIOUS
  <1>1. n \in {2,3,4,5,6,7,8,9,10,11,12,13,14,15,16,17,18,19}
    OBVIOUS
  <1> QED BY <1>1 DEF smooth, Unit

ringGap == G.radii[0] - G.radii[1]
ringWidth(i) == IF i < 7 THEN ringGap ELSE G.radii[7] - G.kernelR - 6

LEMMA Geometry ==
    ASSUME DiagramInv
    PROVE  /\ G.cy \in Int /\ G.kernelR \in Nat /\ ringGap \in Int /\ ringGap >= 13
           /\ \A i \in 0..7 : /\ G.radii[i] \in Nat /\ ringWidth(i) \in Int
                              /\ ringWidth(i) > 0 /\ ringWidth(i) <= 2 * ringGap
           /\ \A i \in 0..8 : Edge(i) \in Int
           /\ \A i \in 0..7 : Edge(i + 1) = Edge(i) + Unit * ringWidth(i)
           /\ G.kernelR + 6 <= 2 * ringGap
  <1> DEFINE g == G
  <1>1. /\ g.cy \in Int /\ g.kernelR \in Nat
        /\ g.radii \in [0..7 -> Nat]
        /\ g.radii[0] - g.radii[1] >= 13
        /\ \A i \in 0..6 : g.radii[i] - g.radii[i + 1] = g.radii[0] - g.radii[1]
        /\ g.kernelR + 6 < g.radii[7] /\ g.radii[7] <= g.kernelR + 6 + 2 * (g.radii[0] - g.radii[1])
        /\ g.kernelR + 6 <= 2 * (g.radii[0] - g.radii[1])
    BY RingsAssumption DEF DiagramInv
  <1>2. \A i \in 0..7 : G.radii[i] \in Nat
    BY <1>1
  <1>3. ringGap \in Int /\ ringGap >= 13 /\ G.kernelR + 6 <= 2 * ringGap
    BY <1>1, <1>2 DEF ringGap
  <1>4. \A i \in 0..7 : ringWidth(i) \in Int /\ ringWidth(i) > 0 /\ ringWidth(i) <= 2 * ringGap
    BY <1>1, <1>2, <1>3 DEF ringWidth, ringGap
  <1>5. \A i \in 0..8 : Edge(i) \in Int
    BY <1>1, <1>2 DEF Edge, Unit
  <1>6. ASSUME NEW i \in 0..7 PROVE Edge(i + 1) = Edge(i) + Unit * ringWidth(i)
    <2>1. CASE i < 7
      BY <1>1, <1>2, <2>1 DEF Edge, Unit, ringWidth, ringGap
    <2>2. CASE i = 7
      BY <1>1, <1>2, <2>2 DEF Edge, Unit, ringWidth, ringGap
    <2> QED BY <2>1, <2>2
  <1> QED BY <1>1, <1>2, <1>3, <1>4, <1>5, <1>6

\* Further in is further down.
LEMMA EdgesFall ==
    ASSUME DiagramInv
    PROVE  \A i, j \in 0..8 : i < j => Edge(i + 1) <= Edge(j)
  <1>1. \A i \in 0..7 : Edge(i) < Edge(i + 1)
    BY Geometry DEF Unit
  <1>2. \A i \in 0..8 : Edge(i) \in Int
    BY Geometry
  <1>3. Edge(0) < Edge(1) /\ Edge(1) < Edge(2) /\ Edge(2) < Edge(3) /\ Edge(3) < Edge(4)
        /\ Edge(4) < Edge(5) /\ Edge(5) < Edge(6) /\ Edge(6) < Edge(7) /\ Edge(7) < Edge(8)
    <2>1. Edge(0) < Edge(0 + 1) /\ Edge(1) < Edge(1 + 1) /\ Edge(2) < Edge(2 + 1) /\ Edge(3) < Edge(3 + 1)
        /\ Edge(4) < Edge(4 + 1) /\ Edge(5) < Edge(5 + 1) /\ Edge(6) < Edge(6 + 1) /\ Edge(7) < Edge(7 + 1)
      BY <1>1
    <2> QED BY <2>1
  <1> SUFFICES ASSUME NEW i \in 0..8, NEW j \in 0..8, i < j PROVE Edge(i + 1) <= Edge(j)
    OBVIOUS
  <1>4. i \in {0, 1, 2, 3, 4, 5, 6, 7} /\ j \in {1, 2, 3, 4, 5, 6, 7, 8}
    OBVIOUS
  <1>5. Edge(1) \in Int /\ Edge(2) \in Int /\ Edge(3) \in Int /\ Edge(4) \in Int /\ Edge(5) \in Int
        /\ Edge(6) \in Int /\ Edge(7) \in Int /\ Edge(8) \in Int
    BY <1>2
  <1> HIDE DEF DiagramInv
  <1> QED BY <1>3, <1>4, <1>5

LEMMA UnitDivides == \A d \in Int : (Unit * d) \div Unit = d
  BY DEF Unit

\* In the window of ring i.
LEMMA PacketInRing ==
    ASSUME DiagramInv, NEW i \in 0..7, NEW k \in 0..5
    PROVE  packetY(RING_START + RING_STEP * i + k) = Edge(i) + ringWidth(i) * smooth(k, 6)
  <1> DEFINE p == RING_START + RING_STEP * i + k
  <1>1. p \in Int /\ ~(p < RING_START) /\ p < RING_END /\ idx(p) = i
        /\ (p - RING_START) % RING_STEP = k
    BY DEF RING_START, RING_STEP, RING_END, idx
  <1>2. Edge(i + 1) - Edge(i) = Unit * ringWidth(i) /\ ringWidth(i) \in Int
    BY Geometry DEF Unit
  <1>3. (Edge(i + 1) - Edge(i)) \div Unit = ringWidth(i)
    BY <1>2, UnitDivides
  <1>4. packetY(p) = Edge(i) + ((Edge(i + 1) - Edge(i)) \div Unit) * smooth(k, RING_STEP)
    BY <1>1 DEF packetY
  <1> QED BY <1>3, <1>4 DEF RING_STEP

\* Before the first ring, over the kernel, and at rest.
LEMMA PacketElsewhere ==
    ASSUME DiagramInv
    PROVE  /\ \A p \in 0..5 : packetY(p) = Edge(0) - 50 * Unit + 50 * smooth(p, 6)
           /\ \A p \in 54..71 : packetY(p) = Edge(8) + (G.kernelR + 6) * smooth(p - 54, 18)
           /\ packetY(72) = Edge(8) + (G.kernelR + 6) * Unit
  <1>1. \A p \in 0..5 : packetY(p) = Edge(0) - 50 * Unit + 50 * smooth(p, 6)
    BY DEF packetY, RING_START
  <1>2. Edge(8) = Unit * (G.cy - G.kernelR - 6) /\ G.cy \in Int /\ G.kernelR \in Nat
    BY Geometry DEF Edge
  <1>3. Unit * G.cy - Edge(8) = Unit * (G.kernelR + 6)
    BY <1>2 DEF Unit
  <1>4. (Unit * G.cy - Edge(8)) \div Unit = G.kernelR + 6
    BY <1>2, <1>3, UnitDivides
  <1>5. ASSUME NEW p \in 54..71
        PROVE  packetY(p) = Edge(8) + (G.kernelR + 6) * smooth(p - 54, 18)
    <2>1. RING_START = 6 /\ RING_END = 54 /\ KERNEL_END = 72
      BY DEF RING_START, RING_STEP, RING_END, KERNEL_END
    <2>2. KERNEL_END - RING_END = 18 /\ ~(p < RING_START) /\ ~(p < RING_END) /\ p < KERNEL_END
      BY <2>1
    <2>3. packetY(p) = Edge(8) + ((Unit * G.cy - Edge(8)) \div Unit) * smooth(p - RING_END, KERNEL_END - RING_END)
      BY <2>2 DEF packetY
    <2> QED BY <1>4, <2>1, <2>2, <2>3
  <1>6. packetY(72) = Edge(8) + (G.kernelR + 6) * Unit
    <2>1. packetY(72) = Unit * G.cy
      BY DEF packetY, RING_START, RING_STEP, RING_END, KERNEL_END
    <2> QED BY <1>2, <2>1 DEF Unit
  <1> QED BY <1>1, <1>5, <1>6

\* The share of a ring's ringWidth that a packet has gone.
LEMMA ShareInRing ==
    ASSUME DiagramInv, NEW i \in 0..7, NEW k \in 0..5
    PROVE  /\ ringWidth(i) * smooth(k, 6) \in Int
           /\ 0 <= ringWidth(i) * smooth(k, 6) /\ ringWidth(i) * smooth(k, 6) < Unit * ringWidth(i)
           /\ k < 5 => /\ ringWidth(i) * smooth(k, 6) <= ringWidth(i) * smooth(k + 1, 6)
                       /\ ringWidth(i) * smooth(k + 1, 6) - ringWidth(i) * smooth(k, 6) <= Unit * ringGap
           /\ k = 5 => Unit * ringWidth(i) - ringWidth(i) * smooth(k, 6) <= Unit * ringGap
  <1> DEFINE w == ringWidth(i)
  <1>1. w \in Int /\ w > 0 /\ w <= 2 * ringGap /\ ringGap \in Int
    BY Geometry
  <1> HIDE DEF w
  <1>2. k \in {0, 1, 2, 3, 4, 5}
    OBVIOUS
  <1>3. /\ w * smooth(k, 6) \in Int
        /\ 0 <= w * smooth(k, 6) /\ w * smooth(k, 6) < Unit * w
        /\ k < 5 => /\ w * smooth(k, 6) <= w * smooth(k + 1, 6)
                    /\ w * smooth(k + 1, 6) - w * smooth(k, 6) <= Unit * ringGap
        /\ k = 5 => Unit * w - w * smooth(k, 6) <= Unit * ringGap
    <2>1. CASE k = 0
      <3>1. smooth(k, 6) = 0 /\ smooth(k + 1, 6) = 74
        BY <2>1, SmoothRing
      <3>2. w * smooth(k, 6) = 0 /\ w * smooth(k + 1, 6) = w * 74
        BY <1>1, <3>1
      <3> QED BY <1>1, <2>1, <3>2 DEF Unit
    <2>2. CASE k = 1
      BY <1>1, <2>2, SmoothRing DEF Unit
    <2>3. CASE k = 2
      BY <1>1, <2>3, SmoothRing DEF Unit
    <2>4. CASE k = 3
      BY <1>1, <2>4, SmoothRing DEF Unit
    <2>5. CASE k = 4
      BY <1>1, <2>5, SmoothRing DEF Unit
    <2>6. CASE k = 5
      BY <1>1, <2>6, SmoothRing DEF Unit
    <2> QED BY <1>2, <2>1, <2>2, <2>3, <2>4, <2>5, <2>6
  <1> QED BY <1>3 DEF w

\* One percent of the cycle takes the packet down, by at most a ring.
LEMMA PacketFalls ==
    ASSUME DiagramInv, NEW p \in 0..71
    PROVE  packetY(p) <= packetY(p + 1) /\ packetY(p + 1) - packetY(p) <= Edge(1) - Edge(0)
  <1>1. Edge(0) \in Int /\ Edge(8) \in Int /\ Edge(1) - Edge(0) = Unit * ringGap /\ ringGap \in Int /\ ringGap >= 13
    <2>1. Edge(0) \in Int /\ Edge(8) \in Int /\ ringGap \in Int /\ ringGap >= 13 /\ Edge(0 + 1) = Edge(0) + Unit * ringWidth(0)
      BY Geometry
    <2>2. ringWidth(0) = ringGap
      BY DEF ringWidth
    <2> QED BY <2>1, <2>2 DEF Unit
  <1>2. CASE p \in 0..5
    <2>1. packetY(p) = Edge(0) - 50 * Unit + 50 * smooth(p, 6)
      BY <1>2, PacketElsewhere
    <2>2. packetY(p + 1) = Edge(0) - 50 * Unit + 50 * smooth(p + 1, 6)
      <3>1. CASE p < 5
        BY <1>2, <3>1, PacketElsewhere
      <3>2. CASE p = 5
        <4>1. packetY(RING_START + RING_STEP * 0 + 0) = Edge(0) + ringWidth(0) * smooth(0, 6)
          BY PacketInRing
        <4>2. ringWidth(0) \in Int
          BY Geometry
        <4>3. packetY(6) = Edge(0)
          BY <1>1, <4>1, <4>2, SmoothRing DEF RING_START, RING_STEP
        <4> QED BY <1>1, <3>2, <4>3, SmoothRing DEF Unit
      <3> QED BY <1>2, <3>1, <3>2
    <2>3. p \in {0, 1, 2, 3, 4, 5}
      BY <1>2
    <2>4. smooth(p + 1, 6) - smooth(p, 6) \in 0..241 /\ smooth(p, 6) \in Int /\ smooth(p + 1, 6) \in Int
      BY <2>3, SmoothRing
    <2> QED BY <1>1, <2>1, <2>2, <2>4 DEF Unit
  <1>3. CASE p \in 6..53
    <2>1. PICK i \in 0..7, k \in 0..5 : p = RING_START + RING_STEP * i + k
      <3> DEFINE j == (p - 6) \div 6
                 l == (p - 6) % 6
      <3>1. j \in 0..7 /\ l \in 0..5 /\ p = 6 + 6 * j + l
        BY <1>3
      <3> QED BY <3>1 DEF RING_START, RING_STEP
    <2>2. packetY(p) = Edge(i) + ringWidth(i) * smooth(k, 6)
      BY <2>1, PacketInRing
    <2>3. Edge(i) \in Int /\ Edge(i + 1) = Edge(i) + Unit * ringWidth(i) /\ ringWidth(i) \in Int
      BY Geometry
    <2>4. CASE k < 5
      <3>1. packetY(RING_START + RING_STEP * i + (k + 1)) = Edge(i) + ringWidth(i) * smooth(k + 1, 6)
        BY <2>4, PacketInRing
      <3>2. packetY(p + 1) = Edge(i) + ringWidth(i) * smooth(k + 1, 6)
        BY <2>1, <3>1 DEF RING_START, RING_STEP
      <3>3. ringWidth(i) * smooth(k + 1, 6) \in Int
        BY <2>4, ShareInRing
      <3> QED BY <1>1, <2>2, <2>3, <2>4, <3>2, <3>3, ShareInRing
    <2>5. CASE k = 5
      <3>1. packetY(p + 1) = Edge(i + 1)
        <4>1. CASE i < 7
          <5>1. packetY(RING_START + RING_STEP * (i + 1) + 0) = Edge(i + 1) + ringWidth(i + 1) * smooth(0, 6)
            BY <4>1, PacketInRing
          <5>2. RING_START + RING_STEP * (i + 1) + 0 = p + 1
            BY <2>1, <2>5 DEF RING_START, RING_STEP
          <5>3. ringWidth(i + 1) \in Int /\ Edge(i + 1) \in Int
            BY <4>1, Geometry
          <5> QED BY <5>1, <5>2, <5>3, SmoothRing
        <4>2. CASE i = 7
          <5>1. p + 1 = 54
            BY <2>1, <2>5, <4>2 DEF RING_START, RING_STEP
          <5>2. packetY(54) = Edge(8) + (G.kernelR + 6) * smooth(54 - 54, 18)
            BY PacketElsewhere
          <5>3. G.kernelR \in Nat
            BY Geometry
          <5> QED BY <1>1, <4>2, <5>1, <5>2, <5>3, SmoothKernel
        <4> QED BY <4>1, <4>2
      <3> QED BY <1>1, <2>2, <2>3, <2>5, <3>1, ShareInRing DEF Unit
    <2> QED BY <2>4, <2>5
  <1>4. CASE p \in 54..71
    <2> DEFINE r == G.kernelR + 6
               f == smooth(p - 54, 18)
               h == IF p < 71 THEN smooth(p - 53, 18) ELSE Unit
    <2>1. r \in Nat /\ r <= 2 * ringGap
      BY Geometry
    <2>2. packetY(p) = Edge(8) + r * f
      BY <1>4, PacketElsewhere
    <2>3. packetY(p + 1) = Edge(8) + r * h
      <3>1. CASE p < 71
        <4>1. packetY(p + 1) = Edge(8) + r * smooth(p + 1 - 54, 18)
          BY <1>4, <3>1, PacketElsewhere
        <4> QED BY <3>1, <4>1
      <3>2. CASE p = 71
        BY <3>2, PacketElsewhere
      <3> QED BY <1>4, <3>1, <3>2
    <2>4. f \in Nat /\ h \in Nat /\ h - f \in 0..83
      <3>1. p \in {54,55,56,57,58,59,60,61,62,63,64,65,66,67,68,69,70,71}
        BY <1>4
      <3> QED BY <3>1, SmoothKernel DEF Unit
    <2> HIDE DEF r, f, h
    <2>5. r * h - r * f = r * (h - f) /\ r * f \in Int /\ r * h \in Int
      BY <2>1, <2>4
    <2>6. r * (h - f) >= 0 /\ r * (h - f) <= r * 83
      BY <2>1, <2>4
    <2> QED BY <1>1, <2>1, <2>2, <2>3, <2>5, <2>6 DEF Unit
  <1> QED BY <1>2, <1>3, <1>4

\* The clauses of DiagramSound for a packet that is seen.
LEMMA PacketWithinRing ==
    ASSUME DiagramInv, showPacket
    PROVE  /\ \A i \in 0..7 : cls(i) = "active" => packetY(t) >= Edge(i) /\ packetY(t) <= Edge(i + 1)
           /\ \A i \in 0..7 : cls(i) = "passed" <=> (t >= RING_START /\ packetY(t) >= Edge(i + 1))
  <1>1. hoverIdx = none /\ t \in 0..71
    <2>1. hoverIdx = none /\ packetOpacity(t) > 10 /\ t \in 0..99
      BY DEF showPacket, DiagramInv, Unit
    <2>2. CASE t >= 72
      <3>1. packetOpacity(t) = 0
        BY <2>1, <2>2 DEF packetOpacity, RING_START, RING_STEP, RING_END, KERNEL_END
      <3> QED BY <2>1, <3>1
    <2> QED BY <2>1, <2>2
  <1>2. \A i \in 0..8 : Edge(i) \in Int
    BY Geometry
  <1>3. CASE t \in 0..5
    <2>1. activeFromT(t) = none
      BY <1>1, <1>3 DEF activeFromT, RING_START
    <2>2. \A i \in 0..7 : cls(i) = "plain"
      BY <1>1, <2>1, HoversDiffer DEF cls
    <2> QED BY <1>3, <2>2 DEF RING_START
  <1>4. CASE t \in 6..53
    <2>1. PICK j \in 0..7, k \in 0..5 : t = RING_START + RING_STEP * j + k /\ j = idx(t)
      <3> DEFINE l == (t - 6) % 6
      <3>1. idx(t) \in 0..7 /\ l \in 0..5 /\ t = 6 + 6 * idx(t) + l
        BY <1>4 DEF idx, RING_START, RING_STEP
      <3> QED BY <3>1 DEF RING_START, RING_STEP
    <2>2. packetY(t) = Edge(j) + ringWidth(j) * smooth(k, 6)
      BY <2>1, PacketInRing
    <2>3. Edge(j + 1) = Edge(j) + Unit * ringWidth(j) /\ ringWidth(j) \in Int
      BY Geometry
    <2>4. packetY(t) \in Int /\ Edge(j) <= packetY(t) /\ packetY(t) < Edge(j + 1)
      BY <1>2, <2>2, <2>3, ShareInRing DEF Unit
    <2>5. activeFromT(t) = ring(j)
      BY <1>1, <1>4, <2>1 DEF activeFromT, RING_START, RING_STEP, RING_END
    <2>6. ASSUME NEW i \in 0..7
          PROVE  cls(i) = IF i = j THEN "active" ELSE IF i < j THEN "passed" ELSE "plain"
      <3>1. ring(j).ring = j /\ ring(i).ring = i /\ ring(j) # kernel /\ "ring" \in DOMAIN ring(j)
        BY HoversDiffer
      <3>2. (ring(j) = ring(i)) <=> (i = j)
        BY <3>1
      <3> QED BY <1>1, <2>5, <3>1, <3>2 DEF cls
    <2>7. \A i \in 0..7 : i < j => Edge(i + 1) <= Edge(j)
      BY EdgesFall
    <2>8. \A i \in 0..7 : i > j => Edge(j + 1) <= Edge(i + 1)
      BY EdgesFall
    <2>9. ASSUME NEW i \in 0..7
          PROVE  /\ cls(i) = "active" => packetY(t) >= Edge(i) /\ packetY(t) <= Edge(i + 1)
                 /\ cls(i) = "passed" <=> (t >= RING_START /\ packetY(t) >= Edge(i + 1))
      <3>1. Edge(i + 1) \in Int /\ Edge(j) \in Int /\ Edge(j + 1) \in Int /\ t >= RING_START
        BY <1>2, <1>4 DEF RING_START
      <3>2. CASE i = j
        BY <2>4, <2>6, <3>1, <3>2
      <3>3. CASE i < j
        BY <2>4, <2>6, <2>7, <3>1, <3>3
      <3>4. CASE i > j
        BY <2>4, <2>6, <2>8, <3>1, <3>4
      <3> QED BY <3>2, <3>3, <3>4
    <2> QED BY <2>9
  <1>5. CASE t \in 54..71
    <2>1. activeFromT(t) = kernel
      BY <1>1, <1>5 DEF activeFromT, RING_START, RING_STEP, RING_END, KERNEL_END
    <2>2. \A i \in 0..7 : cls(i) = "passed"
      BY <1>1, <2>1, HoversDiffer DEF cls
    <2>3. packetY(t) = Edge(8) + (G.kernelR + 6) * smooth(t - 54, 18)
      BY <1>5, PacketElsewhere
    <2>4. smooth(t - 54, 18) \in Nat /\ G.kernelR + 6 \in Nat
      <3>1. t \in {54,55,56,57,58,59,60,61,62,63,64,65,66,67,68,69,70,71}
        BY <1>5
      <3>2. G.kernelR \in Nat
        BY Geometry
      <3> QED BY <3>1, <3>2, SmoothKernel
    <2>5. (G.kernelR + 6) * smooth(t - 54, 18) \in Nat
      BY <2>4
    <2>6. packetY(t) \in Int /\ packetY(t) >= Edge(8)
      BY <1>2, <2>3, <2>5
    <2>7. \A i \in 0..7 : Edge(i + 1) <= Edge(8) /\ Edge(i + 1) \in Int
      BY <1>2, EdgesFall
    <2>8. t >= RING_START /\ Edge(8) \in Int
      BY <1>2, <1>5 DEF RING_START
    <2> QED BY <2>2, <2>6, <2>7, <2>8
  <1> QED BY <1>1, <1>3, <1>4, <1>5

LEMMA DiagramSoundInv == DiagramInv => DiagramSound
  <1> SUFFICES ASSUME DiagramInv PROVE DiagramSound
    OBVIOUS
  <1>1. showPacket => t \in 0..71
    <2>1. showPacket => hoverIdx = none /\ packetOpacity(t) > 10 /\ t \in 0..99
      BY DEF showPacket, DiagramInv, Unit
    <2>2. t \in 72..99 /\ hoverIdx = none => packetOpacity(t) = 0
      BY DEF packetOpacity, RING_START, RING_STEP, RING_END, KERNEL_END
    <2> QED BY <2>1, <2>2
  <1>2. showPacket => packetY(t) <= packetY(t + 1) /\ packetY(t + 1) - packetY(t) <= Edge(1) - Edge(0)
    BY <1>1, PacketFalls
  <1>3. activeFromT(t) = kernel => kernelGlow(t) > 0
    <2>1. CASE hoverIdx = kernel
      BY <2>1 DEF kernelGlow, Unit
    <2>2. CASE hoverIdx # kernel /\ hoverIdx # none
      BY <2>2 DEF activeFromT
    <2>3. CASE hoverIdx = none
      <3>1. SUFFICES ASSUME activeFromT(t) = kernel PROVE kernelGlow(t) > 0
        OBVIOUS
      <3>2. t \in 54..71
        <4>1. t \in 6..53 => idx(t) \in 0..7
          BY DEF idx, RING_START, RING_STEP
        <4>2. t \in 0..53 => activeFromT(t) # kernel
          BY <2>3, <4>1, HoversDiffer DEF activeFromT, RING_START, RING_STEP, RING_END
        <4>3. t \in 72..99 => activeFromT(t) # kernel
          BY <2>3, HoversDiffer DEF activeFromT, RING_START, RING_STEP, RING_END, KERNEL_END
        <4> QED BY <3>1, <4>2, <4>3 DEF DiagramInv
      <3>3. hoverIdx # kernel
        BY <2>3, HoversDiffer
      <3>4. kernelGlow(t) = smooth(t - RING_END + 2, KERNEL_END - RING_END + 2)
        BY <3>2, <3>3 DEF kernelGlow, RING_START, RING_STEP, RING_END, KERNEL_END
      <3>5. t - RING_END + 2 = t - 52 /\ KERNEL_END - RING_END + 2 = 20
        BY <3>2 DEF RING_START, RING_STEP, RING_END, KERNEL_END
      <3>6. t - 52 \in 2..19
        BY <3>2
      <3> QED BY <3>4, <3>5, <3>6, SmoothGlow
    <2> QED BY <2>1, <2>2, <2>3
  <1>4. hoverIdx # none => ~showPacket /\ activeFromT(t) = hoverIdx
    BY DEF showPacket, activeFromT
  <1> QED BY <1>2, <1>3, <1>4, PacketWithinRing DEF DiagramSound
-----------------------------------------------------------------------------
(* The composition.                                                        *)

PartsInv ==
    /\ Inv /\ LimitsInv /\ ThemeInv /\ LayoutInv /\ BarInv /\ TeaserInv /\ MenuInv /\ DemoInv
    /\ DiagramInv /\ EditorInv

\* A part that does not move keeps its invariant.
LEMMA StillInv ==
    /\ Inv /\ UNCHANGED vars => Inv'
    /\ LimitsInv /\ UNCHANGED limitVars => LimitsInv'
    /\ ThemeInv /\ UNCHANGED themeVars => ThemeInv'
    /\ LayoutInv /\ UNCHANGED layoutVars => LayoutInv'
    /\ BarInv /\ UNCHANGED barVars => BarInv'
    /\ TeaserInv /\ UNCHANGED teaserVars => TeaserInv'
    /\ MenuInv /\ UNCHANGED menuVars => MenuInv'
    /\ DemoInv /\ UNCHANGED <<demoVars, reduced>> => DemoInv'
    /\ DiagramInv /\ UNCHANGED diagramVars => DiagramInv'
    /\ EditorInv /\ UNCHANGED editorVars => EditorInv'
  <1>1. Inv /\ UNCHANGED vars => Inv'
    BY NextInv
  <1>2. LimitsInv /\ UNCHANGED limitVars => LimitsInv'
    BY DEF LimitsInv, limitVars
  <1>3. ThemeInv /\ UNCHANGED themeVars => ThemeInv'
    BY DEF ThemeInv, ThemeAgrees, themeVars
  <1>4. LayoutInv /\ UNCHANGED layoutVars => LayoutInv'
    BY DEF LayoutInv, layoutVars
  <1>5. BarInv /\ UNCHANGED barVars => BarInv'
    BY DEF BarInv, barVars
  <1>6. TeaserInv /\ UNCHANGED teaserVars => TeaserInv'
    BY DEF TeaserInv, TeaserSound, teaserVars
  <1>7. MenuInv /\ UNCHANGED menuVars => MenuInv'
    BY DEF MenuInv, menuVars
  <1>8. DemoInv /\ UNCHANGED <<demoVars, reduced>> => DemoInv'
    BY DEF DemoInv, demoVars
  <1>9. EditorInv /\ UNCHANGED editorVars => EditorInv'
    BY DEF EditorInv, EditorFaithful, editorVars, draftVars
  <1>10. DiagramInv /\ UNCHANGED diagramVars => DiagramInv'
    BY DEF DiagramInv, diagramVars
  <1> QED BY <1>1, <1>2, <1>3, <1>4, <1>5, <1>6, <1>7, <1>8, <1>9, <1>10

LEMMA SiteInitInv == SiteInit => PartsInv
  BY InitInv, LimitsInitInv, ThemeInitInv, LayoutInitInv, BarInitInv, TeaserInitInv,
     MenuInitInv, DemoInitInv, DiagramInitInv, EditorInitInv DEF SiteInit, LandingInit, PartsInv

LEMMA SiteNextInv == PartsInv /\ [SiteNext]_siteVars => PartsInv'
  <1> SUFFICES ASSUME PartsInv, [SiteNext]_siteVars PROVE PartsInv'
    OBVIOUS
  <1> USE StillInv
  <1>1. CASE Search
    BY <1>1, NextInv DEF Search, PartsInv, landingVars
  <1>2. CASE MoveSlider
    <2>1. (ceilings = "listed") \in BOOLEAN
      OBVIOUS
    <2>2. LimitsInv'
      BY <1>2, <2>1, LimitsStepInv DEF MoveSlider, PartsInv
    <2> QED BY <1>2, <2>2 DEF MoveSlider, PartsInv, landingVars
  <1>3. CASE Theme
    BY <1>3, ThemeStepInv DEF Theme, PartsInv, landingVars
  <1>4. CASE Layout
    BY <1>4, LayoutStepInv DEF Layout, PartsInv, landingVars
  <1>5. CASE Bar
    BY <1>5, BarStepInv DEF Bar, PartsInv, landingVars
  <1>6. CASE Imitation
    BY <1>6, TeaserStepInv DEF Imitation, PartsInv, landingVars
  <1>7. CASE Animate
    BY <1>7, MenuStepInv, DemoStepInv, DiagramStepInv DEF Animate, PartsInv
  <1>8. CASE Edit
    BY <1>8, EditorStepInv DEF Edit, PartsInv, landingVars
  <1>9. CASE Highlight
    BY <1>9 DEF Highlight, PartsInv, landingVars
  <1>10. CASE UNCHANGED siteVars
    BY <1>10 DEF siteVars, PartsInv, landingVars
  <1> QED BY <1>1, <1>2, <1>3, <1>4, <1>5, <1>6, <1>7, <1>8, <1>9, <1>10 DEF SiteNext

\* Every step of every part keeps the invariants of all parts.
THEOREM SiteInvariance == SiteSpec => []PartsInv
  BY SiteInitInv, SiteNextInv, PTL DEF SiteSpec

\* The composed pages keep what the search alone promises.
THEOREM SiteSearchHolds == SiteSpec => [](BaseRestored /\ NoFakedVerdict)
  <1>1. Inv => BaseRestored /\ NoFakedVerdict
    BY DEF Inv, OneSearch, BaseKept, RunsKnowApi, BaseRestored, NoFakedVerdict, InFlight
  <1>2. PartsInv => BaseRestored /\ NoFakedVerdict
    BY <1>1 DEF PartsInv
  <1> QED BY <1>2, SiteInvariance, PTL

\* No single run is refused for its limits, for any catalogue and any ceilings of
\* the service that are not below what the page assumes.
THEOREM LimitsAcceptedHolds == SiteSpec => []LimitsAccepted
  <1>1. PartsInv => LimitsAccepted
    BY LimitsAcceptedInv DEF PartsInv
  <1> QED BY <1>1, SiteInvariance, PTL

\* The page, the toggle and the strip show one theme, the one that was chosen.
THEOREM ThemeAgreesHolds == SiteSpec => []ThemeAgrees
  <1>1. PartsInv => ThemeAgrees
    BY DEF PartsInv, ThemeInv
  <1> QED BY <1>1, SiteInvariance, PTL

\* No text is lost between buffer, page and draft, for any formatter that is
\* stable and any indentation.
THEOREM EditorFaithfulHolds == SiteSpec => []EditorFaithful
  <1>1. PartsInv => EditorFaithful
    BY DEF PartsInv, EditorInv
  <1> QED BY <1>1, SiteInvariance, PTL

\* No control, no animation and no moving part of the pages is left waiting or
\* shows an end too early, for any number of characters and lines of the terminal
\* and any geometry of equally distant rings.
THEOREM NothingLeftHangingHolds == SiteSpec => []NothingLeftHanging
  <1>1. PartsInv => ControlsSettle
    BY SettleInv DEF PartsInv
  <1>2. PartsInv => TeaserSound /\ MenuSettles /\ DemoSound
    BY DemoSoundInv DEF PartsInv, TeaserInv, MenuInv, MenuSettles
  <1>3. PartsInv => DiagramSound
    BY DiagramSoundInv DEF PartsInv
  <1>4. PartsInv => NothingLeftHanging
    BY <1>1, <1>2, <1>3 DEF NothingLeftHanging
  <1> QED BY <1>4, SiteInvariance, PTL
=============================================================================
