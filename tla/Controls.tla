------------------------------ MODULE Controls ------------------------------
(***************************************************************************)
(* The state of the playground's controls: the limits a run asks for and   *)
(* what the service makes of them, the theme, the splitters, the share     *)
(* button and the language drawer (playground/App.tsx, shared/theme.ts,    *)
(* zerocode-core/src/limits.rs).  They share no state; the sliders depend  *)
(* on the ceilings, which module Discovery finds out.                      *)
(*                                                                         *)
(* Times are whole seconds, sizes whole pixels.  One splitter stands for   *)
(* the four; a colour, an icon or a label is left out unless it is a state *)
(* of its own.                                                             *)
(***************************************************************************)
EXTENDS Naturals, Integers

CONSTANTS
    TimeStop, MemStop,   \* positions of the sliders, in s and MB
    Catalogue,           \* the largest defaults of the listed languages; 0: none
    Ceiling,             \* the service's limit_ceiling
    Smallest, Margin,    \* of a pane: its least size, and what it leaves free
    Window,              \* sizes the window may have
    Delta,               \* how far the pointer goes in one move
    Query, Found(_)      \* searches, and the languages whose name or id has one in it

CpuCap == 30             \* what the page takes the service's CPU ceiling to be
Unlisted == [memoryMb |-> 2048, timeS |-> 60]

MaxDrags == 2            \* bound: drags whose listeners are there at once
MaxShares == 2           \* bound: timeouts of the share button at once

ASSUME StopAssumption == TimeStop \subseteq Nat \ {0} /\ MemStop \subseteq Nat \ {0}
ASSUME CatalogueAssumption ==
    Catalogue.memoryMb \in 0..Ceiling.memory_mb /\ Catalogue.timeS \in 0..Ceiling.wall_time
ASSUME CeilingAssumption ==
    /\ {Ceiling.cpu_time, Ceiling.wall_time, Ceiling.memory_mb} \subseteq Nat
    /\ CpuCap <= Ceiling.cpu_time
    /\ Unlisted.timeS <= Ceiling.wall_time /\ Unlisted.memoryMb <= Ceiling.memory_mb
ASSUME PaneAssumption == Smallest \in Nat /\ Margin \in Nat /\ Window \subseteq Nat /\ Delta \subseteq Int

VARIABLES
    limits, showLimits,            \* the sliders' values, saved with the draft; the popover
    stored, system, storage,       \* theme: localStorage, the OS, whether the former works
    attr, button, strip, mounted,  \* <html data-theme>, ThemeToggle, StatusStrip, effects ran
    foreign, early,                \* auxiliary: another page stored a theme;
                                   \* the theme changed before the effects ran
    size, window,                  \* a pane of the layout
    drags, pressed, missed,        \* pairs of document listeners; the mouse button;
                                   \* auxiliary: a release was not heard
    copied, shareTimers,           \* the share button's label and its timeouts
    pickerOpen, overflow, kept,    \* the drawer, body.style.overflow and its former value
    query, lang                    \* the search in the drawer, the language chosen

limitVars == <<limits, showLimits>>
themeVars == <<stored, system, storage, attr, button, strip, mounted, foreign, early>>
layoutVars == <<size, window, drags, pressed, missed>>
barVars == <<copied, shareTimers, pickerOpen, overflow, kept, query, lang>>

Least(a, b) == IF a < b THEN a ELSE b
Most(a, b) == IF a > b THEN a ELSE b
-----------------------------------------------------------------------------
(* Limits.                                                                 *)

\* What the sliders go up to: the largest defaults of the languages, once they
\* have been listed.
max(listed) ==
    IF ~listed THEN Unlisted
    ELSE [memoryMb |-> IF Catalogue.memoryMb = 0 THEN Unlisted.memoryMb ELSE Catalogue.memoryMb,
          timeS    |-> IF Catalogue.timeS = 0 THEN Unlisted.timeS ELSE Catalogue.timeS]

\* The draft's limits, chosen in an earlier visit with or without ceilings, or
\* the defaults.
LimitsInit ==
    /\ limits \in {[memoryMb |-> 1024, timeS |-> 30]} \cup
                  [memoryMb : {m \in MemStop : m <= Most(Unlisted.memoryMb, Catalogue.memoryMb)},
                   timeS : {t \in TimeStop : t <= Most(Unlisted.timeS, Catalogue.timeS)}]
    /\ showLimits = FALSE

\* The button; the backdrop and the cross also close the popover.
toggleLimits == showLimits' = ~showLimits /\ UNCHANGED limits

\* A slider is moved.
setLimits(listed) ==
    /\ showLimits
    /\ \/ \E m \in MemStop :
             m <= max(listed).memoryMb /\ limits' = [limits EXCEPT !.memoryMb = m]
       \/ \E t \in TimeStop :
             t <= max(listed).timeS /\ limits' = [limits EXCEPT !.timeS = t]
    /\ UNCHANGED showLimits

\* Mutant: the one slider drives both times.
UncappedRequest(l) == [cpu_time |-> l.timeS, wall_time |-> l.timeS, memory_mb |-> l.memoryMb]

\* What a single run asks for.
RunRequest(l) == [cpu_time |-> Least(l.timeS, CpuCap), wall_time |-> l.timeS, memory_mb |-> l.memoryMb]

\* What a batch of test cases asks for.
BatchRequest(l) == [cpu_time |-> l.timeS, wall_time |-> l.timeS, memory_mb |-> l.memoryMb]

\* ResourceLimits::validate; the least values, below one second, are met.
validate(l) ==
    /\ l.cpu_time \in 1..Ceiling.cpu_time
    /\ l.wall_time \in 1..Ceiling.wall_time
    /\ l.memory_mb \in 1..Ceiling.memory_mb
    /\ l.wall_time >= l.cpu_time
-----------------------------------------------------------------------------
(* The theme.                                                              *)

Other(t) == IF t = "light" THEN "dark" ELSE "light"

readStored == IF storage THEN stored ELSE "none"

\* theme.ts is loaded before the first render, which reads its attribute.
ThemeInit ==
    /\ stored \in {"none", "dark", "light"} /\ system \in {"dark", "light"} /\ storage \in BOOLEAN
    /\ attr = IF readStored = "none" THEN system ELSE readStored
    /\ button = attr /\ strip = attr
    /\ mounted = FALSE /\ foreign = FALSE /\ early = FALSE

\* Sets the attribute and tells who is listening: the toggle by an event, the
\* strip by its MutationObserver.
apply(t) ==
    /\ attr' = t
    /\ IF mounted THEN button' = t /\ strip' = t ELSE UNCHANGED <<button, strip>>
    /\ early' = (early \/ (~mounted /\ t # attr))

toggleTheme ==
    /\ stored' = IF storage THEN Other(attr) ELSE stored
    /\ apply(Other(attr))
    /\ UNCHANGED <<system, storage, mounted, foreign>>

\* Mutant: the system's change wins over the user's choice.
SystemAlwaysApplies ==
    /\ system' = Other(system)
    /\ apply(system')
    /\ UNCHANGED <<stored, storage, mounted, foreign>>

SystemChanges ==
    /\ system' = Other(system)
    /\ \/ readStored = "none" /\ apply(system')
       \/ readStored # "none" /\ UNCHANGED <<attr, button, strip, early>>
    /\ UNCHANGED <<stored, storage, mounted, foreign>>

\* The effects after the first render: both subscribe, the strip also looks.
Subscribe ==
    /\ ~mounted /\ mounted' = TRUE /\ strip' = attr
    /\ UNCHANGED <<stored, system, storage, attr, button, foreign, early>>

\* The landing page or the docs, in another tab.
OtherPage ==
    /\ storage /\ stored' \in {"dark", "light"} /\ foreign' = TRUE
    /\ UNCHANGED <<system, storage, attr, button, strip, mounted, early>>

ThemeStep == toggleTheme \/ SystemChanges \/ Subscribe \/ OtherPage
-----------------------------------------------------------------------------
(* The layout.                                                             *)

clamp(n) == Most(Smallest, Least(window - Margin, n))

\* A size from localStorage is taken as it is, also for a smaller window.
LayoutInit ==
    /\ window \in Window /\ size \in {clamp(w) : w \in Window}
    /\ drags = 0 /\ pressed = FALSE /\ missed = FALSE

\* The button goes down on the splitter: one more pair of listeners.
onMouseDown ==
    /\ ~pressed /\ pressed' = TRUE /\ drags < MaxDrags
    /\ drags' = drags + 1
    /\ UNCHANGED <<size, window, missed>>

\* Every pair reports the move.
onMove(d) ==
    /\ drags > 0
    /\ size' = IF drags = 1 THEN clamp(size + d) ELSE clamp(clamp(size + d) + d)
    /\ UNCHANGED <<window, drags, pressed, missed>>

\* Mutant: a release removes the listeners of one drag only.
OnUpOnce ==
    /\ pressed /\ pressed' = FALSE
    /\ \/ drags' = drags - 1 /\ missed' = FALSE
       \/ missed' = TRUE /\ UNCHANGED drags
    /\ UNCHANGED <<size, window>>

\* The button goes up: heard, all listeners go; or not (the window lost the
\* pointer).
onUp ==
    /\ pressed /\ pressed' = FALSE
    /\ \/ drags' = 0 /\ missed' = FALSE
       \/ missed' = TRUE /\ UNCHANGED drags
    /\ UNCHANGED <<size, window>>

ResizeWindow ==
    /\ window' \in Window
    /\ UNCHANGED <<size, drags, pressed, missed>>

LayoutStep == onMouseDown \/ (\E d \in Delta : onMove(d)) \/ onUp \/ ResizeWindow
-----------------------------------------------------------------------------
(* The share button and the drawer.                                        *)

BarInit ==
    /\ copied = FALSE /\ shareTimers = 0
    /\ pickerOpen = FALSE /\ overflow = "auto" /\ kept = "auto"
    /\ query = "all" /\ lang \in Found("all")

\* The label changes for 1400 ms; a second click starts a second timeout.
handleShare ==
    /\ shareTimers < MaxShares
    /\ copied' = TRUE /\ shareTimers' = shareTimers + 1
    /\ UNCHANGED <<pickerOpen, overflow, kept, query, lang>>

ShareTimer ==
    /\ shareTimers > 0 /\ shareTimers' = shareTimers - 1 /\ copied' = FALSE
    /\ UNCHANGED <<pickerOpen, overflow, kept, query, lang>>

\* The effect locks the page's scrolling and remembers how it was.  The language
\* button is under the drawer, but on a wide window, where the rail is no drawer,
\* it stays in reach: a second click changes nothing.
openPicker ==
    /\ ~pickerOpen /\ pickerOpen' = TRUE /\ kept' = overflow /\ overflow' = "hidden"
    /\ UNCHANGED <<copied, shareTimers, query, lang>>

\* onClose, and the cleanup of the effect.
release == pickerOpen' = FALSE /\ overflow' = IF pickerOpen THEN kept ELSE overflow

\* Escape, the backdrop, or the cross.
closePicker == pickerOpen /\ release /\ UNCHANGED <<copied, shareTimers, kept, query, lang>>

\* Text in the search field.  It stays when the drawer is closed.
setQ(q) == q # query /\ query' = q /\ UNCHANGED <<copied, shareTimers, pickerOpen, overflow, kept, lang>>

\* One of the rows listed; on a wide window the rail is always there.
selectAndClose(l) ==
    /\ l \in Found(query) /\ l # lang /\ lang' = l /\ release
    /\ UNCHANGED <<copied, shareTimers, kept, query>>

BarStep ==
    \/ handleShare \/ ShareTimer \/ openPicker \/ closePicker
    \/ \E q \in Query : setQ(q)
    \/ \E l \in Found("all") : selectAndClose(l)
-----------------------------------------------------------------------------
(* Properties.                                                             *)

\* The service never refuses a single run for its limits, wherever the sliders
\* are, whichever ceilings they were moved under, and it refuses a batch exactly
\* when the time is above the service's CPU ceiling (runOnApi caps the CPU time,
\* runAll of the tests panel does not).
LimitsAccepted ==
    /\ validate(RunRequest(limits))
    /\ validate(BatchRequest(limits)) <=> limits.timeS <= Ceiling.cpu_time

\* Whoever shows the theme shows the one of the page, except that the toggle
\* misses a change between its first render and its effects; and the theme of
\* the page is the user's choice, the system's if there is none, as long as
\* storage works and no other page has stored one (theme.ts, ThemeToggle).
ThemeAgrees ==
    /\ mounted => strip = attr
    /\ ~early => button = attr
    /\ storage /\ ~foreign => attr = IF stored = "none" THEN system ELSE stored

\* No transient state of a control is left without what ends it: the label
\* "copied!" has a timeout, a drag whose release was heard is over however many
\* began before it, a pane keeps its least size however small the window is, and
\* the page scrolls again when the drawer is closed (handleShare, Splitter,
\* clamp, the drawer's effect).
ControlsSettle ==
    /\ copied => shareTimers > 0
    /\ ~pressed /\ ~missed => drags = 0
    /\ Smallest <= size
    /\ pickerOpen <=> overflow = "hidden"
=============================================================================
