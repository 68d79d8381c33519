------------------------------- MODULE Editor -------------------------------
(***************************************************************************)
(* The text of the program exists three times: in Monaco's buffer, in the  *)
(* page's state `code` as of its last render, and in the draft in          *)
(* localStorage (playground/Editor.tsx, playground/App.tsx).  A change of  *)
(* the buffer is reported to the page, and an effect of the page's render  *)
(* writes the page's text into a buffer that differs.  The program's input *)
(* is the page's state alone.                                              *)
(*                                                                         *)
(* React renders what a key or a click changed, and runs the effects of    *)
(* that render, before anything else happens.  A change from elsewhere,    *)
(* here the edit of an asynchronous formatting, is rendered later, and its *)
(* effects later still; they run at the latest before the next render.     *)
(***************************************************************************)
EXTENDS Naturals

CONSTANTS
    Program,     \* the texts an editor may hold
    Snippet,     \* those of the languages' examples
    tidy(_),     \* the formatter
    reindent(_), \* Monaco's editor.action.reindentlines
    Input        \* the texts of stdin; one of them is the examples' sample

sample == CHOOSE s \in Input : TRUE

NoProgram == "no program"

ASSUME ProgramAssumption ==
    /\ Snippet # {} /\ Snippet \subseteq Program /\ NoProgram \notin Program
    /\ \A p \in Program : {tidy(p), reindent(p)} \subseteq Program
    /\ Input # {}

\* Formatting twice is formatting once: TidyStable of module Texts.
ASSUME TidyAssumption == \A p \in Program : tidy(tidy(p)) = tidy(p)

VARIABLES
    buffer,             \* Monaco's model
    code, update,       \* the text of the last render; one that awaits its render
    due,                \* the effects of the last render have not run
    stdin,              \* the text of the stdin pane
    saved, savedStdin,  \* the draft
    formatting,         \* the text a formatting was asked for
    connecting,         \* the texts rendered when a click on Run began its search for an API
    submitted,          \* what was submitted last, and what was shown then
    written, crossed    \* auxiliary: what the user wrote or chose last; whether it
                        \* came between a render and its effects

pending == <<formatting, connecting>>
draftVars == <<saved, savedStdin>>
editorVars == <<buffer, code, update, due, stdin, draftVars, pending, submitted, written, crossed>>

\* What a run of this render submits, next to what the user sees.
Shown == [program |-> code, input |-> stdin, buffer |-> buffer, pane |-> stdin]

NoRun == [program |-> NoProgram]

\* A page that is opened for the first time shows an example.
EditorInit ==
    /\ buffer \in Snippet /\ code = buffer /\ saved = buffer /\ written = buffer
    /\ stdin = sample /\ savedStdin = sample
    /\ update = NoProgram /\ formatting = NoProgram /\ connecting = NoRun
    /\ due = FALSE /\ crossed = FALSE
    /\ submitted = Shown

\* saveDraft, an effect of the render that is being made.
saveDraft == saved' = code' /\ savedStdin' = stdin'

\* The user changes the buffer, which Monaco reports (changeSub).  If effects
\* are due they run first, on the old text, and find a buffer that differs.
Change(p) ==
    /\ code' = (IF due THEN code ELSE p) /\ buffer' = code'
    /\ update' = NoProgram /\ due' = FALSE
    /\ written' = p /\ crossed' = due

Type(p) ==
    /\ p # buffer /\ Change(p)
    /\ UNCHANGED <<stdin, pending, submitted>> /\ saveDraft

setStdin(s) ==
    /\ s # stdin /\ stdin' = s
    /\ due' = FALSE
    /\ IF due /\ buffer # code THEN buffer' = code /\ update' = code ELSE UNCHANGED <<buffer, update>>
    /\ UNCHANGED <<code, pending, submitted, written, crossed>> /\ saveDraft

\* A language is selected, or the text reset: the effect replaces the buffer.
selectLang(p) ==
    /\ buffer' = p /\ code' = p /\ stdin' = sample
    /\ update' = NoProgram /\ due' = FALSE
    /\ written' = p /\ crossed' = FALSE
    /\ UNCHANGED <<pending, submitted>> /\ saveDraft

\* The formatter is asked, and will answer later; the lines are indented at
\* once, if the language has rules for it.
format ==
    /\ formatting' = buffer
    /\ LET p == reindent(buffer)
       IN  \/ p = buffer /\ UNCHANGED <<buffer, code, update, due, draftVars, written, crossed>>
           \/ p # buffer /\ Change(p) /\ saved' = code' /\ savedStdin' = stdin
    /\ UNCHANGED <<stdin, connecting, submitted>>

\* The formatter's edit arrives.  Monaco drops it if the text has changed.
Formatted ==
    /\ formatting # NoProgram /\ formatting' = NoProgram
    /\ IF formatting = buffer /\ tidy(buffer) # buffer
       THEN /\ buffer' = tidy(buffer) /\ update' = buffer'
            /\ written' = buffer' /\ crossed' = due
       ELSE UNCHANGED <<buffer, update, written, crossed>>
    /\ UNCHANGED <<code, due, stdin, draftVars, connecting, submitted>>

\* The page renders the reported text.
Render ==
    /\ update # NoProgram /\ ~due
    /\ code' = update /\ update' = NoProgram /\ due' = (update # code)
    /\ UNCHANGED <<buffer, stdin, draftVars, pending, submitted, written, crossed>>

\* The effects of that render: a buffer that differs is overwritten, which
\* Monaco reports; the draft is saved.
CodeEffect ==
    /\ due /\ due' = FALSE
    /\ IF buffer # code THEN buffer' = code /\ update' = code ELSE UNCHANGED <<buffer, update>>
    /\ UNCHANGED <<code, stdin, pending, submitted, written, crossed>> /\ saveDraft

\* run with a known API: runOnApi of the last render, through runOnApiRef.
RunKnown ==
    /\ submitted' = Shown
    /\ UNCHANGED <<buffer, code, update, due, stdin, draftVars, pending, written, crossed>>

\* No API is known: one is looked for first.
Connect ==
    /\ connecting = NoRun /\ connecting' = Shown
    /\ UNCHANGED <<buffer, code, update, due, stdin, draftVars, formatting, submitted, written, crossed>>

\* Mutant: the run that is started is the one of the click's render.
ConnectedLate ==
    /\ connecting # NoRun /\ connecting' = NoRun
    /\ submitted' = [Shown EXCEPT !.program = connecting.program, !.input = connecting.input]
    /\ UNCHANGED <<buffer, code, update, due, stdin, draftVars, formatting, written, crossed>>

\* One is found: still runOnApi of the last render.
Connected ==
    /\ connecting # NoRun /\ connecting' = NoRun
    /\ submitted' = Shown
    /\ UNCHANGED <<buffer, code, update, due, stdin, draftVars, formatting, written, crossed>>

\* The page is closed, or crashes, and is opened again.
Reopen ==
    /\ buffer' = saved /\ code' = saved /\ written' = saved /\ stdin' = savedStdin
    /\ update' = NoProgram /\ formatting' = NoProgram /\ connecting' = NoRun
    /\ due' = FALSE /\ crossed' = FALSE
    /\ UNCHANGED <<draftVars, submitted>>

EditorStep ==
    \/ \E p \in Program : Type(p)
    \/ \E s \in Input : setStdin(s)
    \/ \E p \in Snippet : selectLang(p)
    \/ format \/ Formatted \/ Render \/ CodeEffect
    \/ RunKnown \/ Connect \/ Connected \/ Reopen

\* No text is lost between the three places.  The editor shows what the user
\* wrote, formatted or chose last, unless that came between a render and its
\* effects; when nothing is on its way the page and the draft have it too, with
\* the input; and what is submitted is what is shown, an unrendered formatting
\* apart, even if it was changed while an API was looked for (the effects of
\* Editor, saveDraft, runOnApiRef).
EditorFaithful ==
    /\ ~crossed => buffer = written
    /\ update = NoProgram /\ ~due => buffer = code /\ saved = code
    /\ savedStdin = stdin
    /\ submitted.input = submitted.pane
    /\ submitted.program = submitted.buffer \/ tidy(submitted.program) = submitted.buffer
=============================================================================
