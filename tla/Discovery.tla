----------------------------- MODULE Discovery -----------------------------
(***************************************************************************)
(* How the playground finds an API and what it does while there is none:   *)
(* `readConfig` and `probe` of shared/api.ts with their module-wide base   *)
(* and cache, `probeApi` and `run` of playground/App.tsx, and the demo     *)
(* that plays a recorded output.  Several probes may be in flight: the one *)
(* of the first render and those of clicks on Run.  What a real run does   *)
(* to the page is the module Playground; here a run, once started, may     *)
(* report anything at any time.                                            *)
(***************************************************************************)
EXTENDS Naturals, FiniteSets

CONSTANTS MaxClicks    \* clicks on Run that may be looking for an API at once

Click == 1..MaxClicks
Caller == 0..MaxClicks                  \* 0: the probe of the first render
Setting == {"query", "meta", "storage"} \* places a base can be configured

ASSUME ClicksAssumption == MaxClicks \in Nat

VARIABLES
    base, configured,   \* _base, and what readConfig made it
    fallback,           \* the address tried next, or the base if there is none
    cache,              \* _probeCache
    call,               \* per caller: where its probe is
    online, ceilings,   \* apiOnline; apiCeilings, null or computed from the languages
    status, token,      \* of the page; a token is "real" or "made up"
    started,            \* a real run exists
    timer, sim,         \* the demo's timeout; the token its interval will report
    faked,              \* tokens the demo recorded a verdict for
    raced               \* auxiliary: two probes were in flight at once

search == <<base, configured, fallback, cache, call, online, ceilings>>
page == <<status, token, started, timer, faked>>
vars == <<search, page, sim, raced>>

Base == Setting \cup {"origin", "localhost:8080"}
Live == {"queued", "processing"}
Idle == [at |-> "idle", again |-> FALSE, spare |-> FALSE, prev |-> "origin"]

TypeOK ==
    /\ base \in Base /\ configured \in Base /\ fallback \in Base
    /\ cache \in {"none", "ok", "failed"} /\ online \in BOOLEAN
    /\ ceilings \in {"none", "listed"}
    /\ call \in [Caller -> [at : {"idle", "health", "fallback", "langs"}, again : BOOLEAN,
                            spare : BOOLEAN, prev : Base]]
    /\ status \in Live \cup {"idle", "accepted", "se", "cancelled"}
    /\ token \in {"real", "made up"} /\ started \in BOOLEAN /\ timer \in BOOLEAN
    /\ sim \in {"off", "real", "made up"} /\ faked \subseteq {"real", "made up"}
    /\ raced \in BOOLEAN

\* The query string wins over the page's meta tag, that over local storage,
\* that over the address the page was loaded from.
readConfig(given) ==
    IF "query" \in given THEN "query"
    ELSE IF "meta" \in given THEN "meta"
    ELSE IF "storage" \in given THEN "storage" ELSE "origin"

InFlight == {c \in Caller : call[c].at \in {"health", "fallback"}}

\* A probe on its way.  Whether it has a fallback is decided before its first
\* await: only for an unconfigured page on localhost whose base differs.
Probing(again) == [at |-> "health", again |-> again, spare |-> fallback # base, prev |-> base]

Init ==
    /\ \E given \in SUBSET Setting : base = readConfig(given)
    /\ configured = base
    /\ fallback \in IF base = "origin" THEN {base, "localhost:8080"} ELSE {base}
    /\ cache = "none" /\ online = FALSE /\ ceilings = "none"
    /\ call = [c \in Caller |-> IF c = 0 THEN Probing(FALSE) ELSE Idle]
    /\ status = "idle" /\ token = "made up" /\ started = FALSE
    /\ timer = FALSE /\ sim = "off" /\ faked = {} /\ raced = FALSE
-----------------------------------------------------------------------------
\* Mutant: the interval runs whether or not an API is known.
SimulationOnline ==
    sim' = IF status' = status /\ online' = online THEN sim
           ELSE IF status' = "processing" THEN token' ELSE "off"

\* The effect that owns the demo's interval: it starts one, with the token of
\* that render, when the status becomes processing while no API is known.
Simulation ==
    sim' = IF status' = status /\ online' = online THEN sim
           ELSE IF status' = "processing" /\ ~online' THEN token' ELSE "off"

Rendered == Simulation /\ raced' = (raced \/ Cardinality(InFlight') > 1)

\* runOnApi, up to its POST.
runOnApi == status' = "queued" /\ started' = TRUE /\ UNCHANGED <<token, timer, faked>>

\* A probe has an answer, ok or not, for its caller: probeApi publishes it
\* and, if good, lists the languages; otherwise a click asks probe() again,
\* which now answers from the cache, and reports that there is no API.  The
\* second probe of a click starts the run.
Answer(c, ok) ==
    /\ cache' = IF ok THEN "ok" ELSE "failed"
    /\ online' = IF call[c].again THEN online ELSE ok
    /\ ceilings' = IF ok \/ call[c].again THEN ceilings ELSE "none"
    /\ call' = IF ok /\ ~call[c].again THEN [call EXCEPT ![c].at = "langs"]
                                      ELSE [call EXCEPT ![c] = Idle]
    /\ IF ok /\ call[c].again THEN runOnApi ELSE UNCHANGED page
    /\ UNCHANGED <<configured, fallback>>

\* GET /v1/health answers at the base, or fails with nothing else to try.
Health(c) ==
    /\ call[c].at = "health"
    /\ Answer(c, TRUE) \/ (~call[c].spare /\ Answer(c, FALSE))
    /\ UNCHANGED base

\* It fails: the base is replaced, for everybody, while the fallback is asked.
TryFallback(c) ==
    /\ call[c].at = "health" /\ call[c].spare
    /\ call' = [call EXCEPT ![c].at = "fallback", ![c].prev = base]
    /\ base' = fallback
    /\ UNCHANGED <<configured, fallback, cache, online, ceilings, page>>

\* Mutant: a fallback that does not answer stays the base.
FallbackStays(c) ==
    /\ call[c].at = "fallback"
    /\ Answer(c, TRUE) \/ Answer(c, FALSE)
    /\ UNCHANGED base

\* The fallback answers and stays, or the base found before is put back.
Fallback(c) ==
    /\ call[c].at = "fallback"
    /\ \/ Answer(c, TRUE) /\ UNCHANGED base
       \/ Answer(c, FALSE) /\ base' = call[c].prev

\* languages() has answered, and bounds the sliders, or failed, and probeApi is
\* over.  A click goes on with probe(), answered by the cache unless another
\* click emptied it.
Languages(c) ==
    /\ call[c].at = "langs"
    /\ call' = [call EXCEPT ![c] = IF c # 0 /\ cache = "none" THEN Probing(TRUE) ELSE Idle]
    /\ ceilings' \in {ceilings, "listed"}
    /\ IF c # 0 /\ cache = "ok" THEN runOnApi ELSE UNCHANGED page
    /\ UNCHANGED <<base, configured, fallback, cache, online>>
-----------------------------------------------------------------------------
\* Run, retry or cmd-enter.
Run ==
    /\ status \notin Live /\ online
    /\ runOnApi /\ UNCHANGED search

\* The same while no API is known: resetProbe(), then probeApi().
RunOffline(c) ==
    /\ status \notin Live /\ ~online
    /\ call[c] = Idle
    /\ cache' = "none" /\ call' = [call EXCEPT ![c] = Probing(FALSE)]
    /\ UNCHANGED <<base, configured, fallback, online, ceilings, page>>

\* "demo run" is offered while no API is known.
runSimulated ==
    /\ status \notin Live /\ ~online
    /\ status' = "queued" /\ token' = "made up" /\ timer' = TRUE
    /\ UNCHANGED <<started, faked, search>>

\* setTimeout(() => setStatus('processing'), 280), which nothing cancels.
TimerFires ==
    /\ timer /\ timer' = FALSE /\ status' = "processing"
    /\ UNCHANGED <<token, started, faked, search>>

\* The interval has played its last line and reports success.
SimEnd ==
    /\ sim # "off" /\ status' = "accepted" /\ faked' = faked \cup {sim}
    /\ UNCHANGED <<token, started, timer, search>>

\* Cancel, a change of language or reset.
Stop ==
    /\ status' \in {"cancelled", "idle"} /\ token' \in {token, "made up"}
    /\ UNCHANGED <<started, timer, faked, search>>

\* Whatever the handlers of real runs do to the page.
RunReports ==
    /\ started /\ status' \in {"processing", "accepted", "se"} /\ token' \in {token, "real"}
    /\ UNCHANGED <<started, timer, faked, search>>

Next ==
    /\ \/ \E c \in Caller : Health(c) \/ TryFallback(c) \/ Fallback(c) \/ Languages(c)
       \/ Run \/ \E c \in Click : RunOffline(c)
       \/ runSimulated \/ TimerFires \/ SimEnd \/ Stop \/ RunReports
    /\ Rendered

Spec == Init /\ [][Next]_vars
-----------------------------------------------------------------------------
\* A search that fails leaves the page talking to the base it was configured
\* with, provided that no two probes were in flight at once: then the second
\* may take the first one's fallback for the base to restore (probe).
BaseRestored == ~raced /\ InFlight = {} /\ cache = "failed" => base = configured

\* The demo never reports success for a real submission: with one probe at a
\* time a page that has started a run knows an API, and the interval stays off
\* (run, probeApi, the simulation's effect).
NoFakedVerdict == ~raced => "real" \notin faked
=============================================================================
