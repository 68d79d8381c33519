-------------------------------- MODULE Site --------------------------------
(***************************************************************************)
(* The parts of the web pages around the run of a program: the search for  *)
(* an API with the sliders whose ceilings it finds (Discovery, Controls),  *)
(* the other controls, the text in the editor and its highlighter (Editor, *)
(* ShellGrammar), and the landing page's moving parts (Teaser, Landing).   *)
(* But for the ceilings the parts share no state, so that a behaviour that *)
(* steps several of them is no more than the behaviours of each: `part`    *)
(* says which one moves.                                                   *)
(***************************************************************************)
EXTENDS Discovery, Controls, Teaser, Landing, Editor, ShellGrammar

VARIABLE part

siteVars == <<vars, limitVars, themeVars, layoutVars, barVars, teaserVars, landingVars, editorVars, grammarVars, part>>

\* Everything that may differ at the start does so in its own part only.
SiteInit ==
    /\ part \in {"api", "limits", "theme", "layout", "bar", "teaser", "menu", "terminal", "diagram", "editor", "grammar"}
    /\ Init /\ LimitsInit /\ ThemeInit /\ LayoutInit /\ BarInit /\ TeaserInit /\ EditorInit /\ LandingInit
    /\ part = "api" \/ fallback = "meta"
    /\ part = "limits" \/ limits = [memoryMb |-> 1024, timeS |-> 30]
    /\ part = "theme" \/ (stored = "light" /\ system = "dark" /\ storage)
    /\ part = "layout" \/ (\A w \in Window : window <= w /\ size = clamp(window))
    /\ part = "editor" \/ buffer = CHOOSE p \in Snippet : TRUE
    /\ part \in {"terminal", "diagram"} \/ (reduced /\ G = CHOOSE g \in Rings : TRUE)
    /\ part = "bar" \/ lang = CHOOSE l \in Found("all") : TRUE
    /\ GrammarInit(IF part = "grammar" THEN Closed ELSE {<<"w">>})

\* The sliders move while the first render's probe and one click are at work, at a base
\* without a fallback: what lists the languages makes no difference to the sliders.
MoveSlider ==
    /\ part = "limits" /\ (toggleLimits \/ setLimits(ceilings = "listed"))
    /\ UNCHANGED <<vars, landingVars, themeVars, layoutVars, barVars, teaserVars, editorVars, grammarVars, part>>

Search ==
    /\ part \in {"api", "limits"} /\ Next
    /\ part = "limits" => \A c \in Click : c > 1 => call'[c] = Idle
    /\ UNCHANGED <<landingVars, limitVars, themeVars, layoutVars, barVars, teaserVars, editorVars, grammarVars, part>>

Theme ==
    /\ part = "theme" /\ ThemeStep
    /\ UNCHANGED <<vars, landingVars, limitVars, layoutVars, barVars, teaserVars, editorVars, grammarVars, part>>

Layout ==
    /\ part = "layout" /\ LayoutStep
    /\ UNCHANGED <<vars, landingVars, limitVars, themeVars, barVars, teaserVars, editorVars, grammarVars, part>>

Bar ==
    /\ part = "bar" /\ BarStep
    /\ UNCHANGED <<vars, landingVars, limitVars, themeVars, layoutVars, teaserVars, editorVars, grammarVars, part>>

Imitation ==
    /\ part = "teaser" /\ TeaserStep
    /\ UNCHANGED <<vars, landingVars, limitVars, themeVars, layoutVars, barVars, editorVars, grammarVars, part>>

Animate ==
    /\ \/ part = "menu" /\ MenuStep /\ UNCHANGED <<demoVars, diagramVars>>
       \/ part = "terminal" /\ DemoStep /\ UNCHANGED <<menuVars, diagramVars>>
       \/ part = "diagram" /\ DiagramStep /\ UNCHANGED <<menuVars, demoVars>>
    /\ UNCHANGED reduced
    /\ UNCHANGED <<vars, limitVars, themeVars, layoutVars, barVars, teaserVars, editorVars, grammarVars, part>>

Edit ==
    /\ part = "editor" /\ EditorStep
    /\ UNCHANGED <<vars, landingVars, limitVars, themeVars, layoutVars, barVars, teaserVars, grammarVars, part>>

Highlight ==
    /\ part = "grammar" /\ Tokenize
    /\ UNCHANGED <<vars, landingVars, limitVars, themeVars, layoutVars, barVars, teaserVars, editorVars, part>>

SiteNext == Search \/ MoveSlider \/ Theme \/ Layout \/ Bar \/ Imitation \/ Animate \/ Edit \/ Highlight

SiteSpec == SiteInit /\ [][SiteNext]_siteVars

\* Nothing transient is left hanging: no control of the playground and no moving
\* part of the landing page waits for an event that will not come, or shows an end
\* before what leads to it (handleShare, Splitter, the drawer's effect, run and the
\* two effects of PlaygroundTeaser, the menu, the terminal and the diagram).
NothingLeftHanging ==
    /\ ControlsSettle /\ TeaserSound /\ MenuSettles /\ DemoSound
    /\ part = "diagram" => DiagramSound
=============================================================================
