------------------------------ MODULE Landing -------------------------------
(***************************************************************************)
(* The moving parts of the landing page: the menu of narrow screens        *)
(* (landing/nav.tsx), the terminal that types a request by itself          *)
(* (landing/hero.tsx), and the diagram in which a packet falls through the *)
(* rings of the sandbox (landing/layer-diagram.tsx).                       *)
(*                                                                         *)
(* React applies a state change at once, and runs the effects of the       *)
(* render some time later.  Timeouts fire in the order of their delays, as *)
(* those of one page do.                                                   *)
(***************************************************************************)
EXTENDS Integers, FiniteSets

CONSTANTS
    Chars, Outs,    \* bounds: characters of CURL, and OUTPUT_LINES.length
    Rings           \* the geometry of a variant: [cy, kernelR, radii]

ASSUME DemoAssumption == Chars \in Nat /\ Outs \in Nat \ {0}
\* The rings are equally far apart, far enough for a packet that comes in from 50
\* above the first one, and the kernel with its margin of 6 is within the last one
\* and no wider than two of the distances.
ASSUME RingsAssumption ==
    \A g \in Rings :
        /\ g.cy \in Int /\ g.kernelR \in Nat
        /\ g.radii \in [0..7 -> Nat]
        /\ g.radii[0] - g.radii[1] >= 13
        /\ \A i \in 0..6 : g.radii[i] - g.radii[i + 1] = g.radii[0] - g.radii[1]
        /\ g.kernelR + 6 < g.radii[7] /\ g.radii[7] <= g.kernelR + 6 + 2 * (g.radii[0] - g.radii[1])
        /\ g.kernelR + 6 <= 2 * (g.radii[0] - g.radii[1])

VARIABLES
    menuOpen, effectOf,     \* the menu; the value the effect last ran for
    locked,                 \* document.body.style.overflow is 'hidden'
    reduced,                \* prefers-reduced-motion
    typed, showOut, timersRef, \* the terminal; its pending timeouts
    t, hoverIdx, paused, G  \* the diagram

menuVars == <<menuOpen, effectOf, locked>>
demoVars == <<typed, showOut, timersRef>>
diagramVars == <<t, hoverIdx, paused, G>>
landingVars == <<menuVars, reduced, demoVars, diagramVars>>
-----------------------------------------------------------------------------
(* The menu.                                                               *)

MenuInit == menuOpen = FALSE /\ effectOf = FALSE /\ locked = FALSE

\* The click does not get to the document.
burger == menuOpen' = ~menuOpen /\ UNCHANGED <<effectOf, locked>>

\* A link of the sheet.
sheetLink == menuOpen /\ menuOpen' = FALSE /\ UNCHANGED <<effectOf, locked>>

\* Escape, or a click outside the bar and the sheet, while the document
\* has the effect's listeners.
dismiss == effectOf /\ menuOpen' = FALSE /\ UNCHANGED <<effectOf, locked>>

\* The cleanup of the effect and the effect itself.
MenuEffect ==
    /\ effectOf # menuOpen /\ effectOf' = menuOpen
    /\ locked' = menuOpen
    /\ UNCHANGED menuOpen

MenuStep == burger \/ sheetLink \/ dismiss \/ MenuEffect
-----------------------------------------------------------------------------
(* The terminal.                                                           *)

CHAR_MS == 14
afterType == Chars * CHAR_MS + 320

\* The timeouts one turn of the effect sets.
Turn == {[do |-> "type", i |-> i, at |-> i * CHAR_MS] : i \in 1..Chars}
            \cup {[do |-> "show", i |-> i, at |-> afterType + i * 480] : i \in 0..Outs - 1}
            \cup {[do |-> "restart", i |-> 0, at |-> afterType + Outs * 480 + 3600]}

\* The state after the first render's effect.
DemoInit ==
    \/ reduced /\ typed = Chars /\ showOut = Outs - 1 /\ timersRef = {}
    \/ ~reduced /\ typed = 0 /\ showOut = -1 /\ timersRef = Turn

Due(e) == e \in timersRef /\ \A f \in timersRef : e.at <= f.at

setTyped(e) ==
    /\ Due(e) /\ e.do = "type"
    /\ typed' = e.i /\ timersRef' = timersRef \ {e} /\ UNCHANGED showOut

setShowOut(e) ==
    /\ Due(e) /\ e.do = "show"
    /\ showOut' = e.i /\ timersRef' = timersRef \ {e} /\ UNCHANGED typed

\* The last timeout renders the page again with another `restart`, of which the
\* effect clears what is pending and begins a new turn.
setRestart(e) ==
    /\ Due(e) /\ e.do = "restart"
    /\ typed' = 0 /\ showOut' = -1 /\ timersRef' = Turn

DemoStep == \E e \in timersRef : setTyped(e) \/ setShowOut(e) \/ setRestart(e)
-----------------------------------------------------------------------------
(* The diagram.  Time is in percent of a cycle, lengths and opacities are  *)
(* in thousandths.                                                         *)

Unit == 1000
none == [none |-> TRUE]
kernel == [kernel |-> TRUE]
ring(i) == [ring |-> i]

RING_START == 6
RING_STEP == 6
RING_END == RING_START + RING_STEP * 8
KERNEL_END == 72

\* smooth(n / d) for 0 <= n <= d.
smooth(n, d) == (Unit * n * n * (3 * d - 2 * n)) \div (d * d * d)

idx(p) == (p - RING_START) \div RING_STEP

activeFromT(p) ==
    IF hoverIdx # none THEN hoverIdx
    ELSE IF p < RING_START THEN none
    ELSE IF p < RING_END THEN ring(idx(p))
    ELSE IF p < KERNEL_END THEN kernel ELSE none

\* Where ring i begins for the packet; the ring after the last is the kernel's.
Edge(i) == Unit * (IF i < 8 THEN G.cy - G.radii[i] ELSE G.cy - G.kernelR - 6)

packetY(p) ==
    LET between(a, b, s) == a + ((b - a) \div Unit) * s
    IN  IF p < RING_START THEN Edge(0) - 50 * Unit + 50 * smooth(p, RING_START)
        ELSE IF p < RING_END
        THEN between(Edge(idx(p)), Edge(idx(p) + 1), smooth((p - RING_START) % RING_STEP, RING_STEP))
        ELSE IF p < KERNEL_END
        THEN between(Edge(8), Unit * G.cy, smooth(p - RING_END, KERNEL_END - RING_END))
        ELSE Unit * G.cy

packetOpacity(p) ==
    IF hoverIdx # none THEN 0
    ELSE IF p < RING_START THEN smooth(p, RING_START)
    ELSE IF p < RING_END + 4 THEN Unit
    ELSE IF p < KERNEL_END THEN Unit - smooth(p - RING_END - 4, KERNEL_END - RING_END - 4)
    ELSE 0

kernelGlow(p) ==
    IF hoverIdx = kernel THEN Unit
    ELSE IF p < RING_END - 2 THEN 0
    ELSE IF p < KERNEL_END THEN smooth(p - RING_END + 2, KERNEL_END - RING_END + 2)
    ELSE IF p < KERNEL_END + 10 THEN Unit - smooth(p - KERNEL_END, 10)
    ELSE 0

\* How ring i is drawn.
cls(i) ==
    LET active == activeFromT(t)
    IN  IF active = ring(i) THEN "active"
        ELSE IF active = kernel \/ ("ring" \in DOMAIN active /\ i < active.ring) THEN "passed"
        ELSE IF hoverIdx # none THEN "dim" ELSE "plain"

showPacket == packetOpacity(t) > Unit \div 100 /\ hoverIdx = none

DiagramInit ==
    /\ t = IF reduced THEN 10 ELSE 0
    /\ hoverIdx = none /\ paused = FALSE /\ G \in Rings

\* The loop goes on while it is paused, and its clock with it.  A frame may
\* come at any time after the last one.
Frame ==
    /\ ~reduced /\ ~paused
    /\ \E now \in 0..99 : t' = now
    /\ UNCHANGED <<hoverIdx, paused, G>>

\* The mouse enters a ring, its label or the kernel, or leaves it.
setHoverIdx(h) == hoverIdx' = h /\ h # hoverIdx /\ UNCHANGED <<t, paused, G>>

PauseEffect == paused' = (hoverIdx # none) /\ paused' # paused /\ UNCHANGED <<t, hoverIdx, G>>

DiagramStep ==
    \/ Frame
    \/ setHoverIdx(none)
    \/ hoverIdx = none /\ \E h \in {ring(i) : i \in 0..7} \cup {kernel} : setHoverIdx(h)
    \/ PauseEffect
-----------------------------------------------------------------------------
LandingInit == reduced \in BOOLEAN /\ MenuInit /\ DemoInit /\ DiagramInit

\* An effect that has run for the menu shown leaves the page locked exactly
\* under an open menu.
MenuSettles == effectOf = menuOpen => locked = menuOpen

\* The response is only shown under the whole request, and a terminal that is
\* not complete for good has a timeout to come (the effect of Hero).
DemoSound ==
    /\ showOut >= 0 => typed = Chars
    /\ timersRef = {} => reduced /\ showOut = Outs - 1

\* A packet that is seen lies within the ring that is lit, whose outer ones are
\* drawn as passed, or below all of them over the kernel; it never rises and
\* never jumps by more than a ring where two windows of the cycle meet; and while
\* the mouse is on a part, that part alone is lit (the phase windows of
\* LayerDiagram).
DiagramSound ==
    /\ showPacket =>
         /\ \A i \in 0..7 : cls(i) = "active" => packetY(t) >= Edge(i) /\ packetY(t) <= Edge(i + 1)
         /\ \A i \in 0..7 : cls(i) = "passed" <=> (t >= RING_START /\ packetY(t) >= Edge(i + 1))
         /\ t < 99 => packetY(t) <= packetY(t + 1) /\ packetY(t + 1) - packetY(t) <= Edge(1) - Edge(0)
    /\ activeFromT(t) = kernel => kernelGlow(t) > 0
    /\ hoverIdx # none => ~showPacket /\ activeFromT(t) = hoverIdx
=============================================================================
