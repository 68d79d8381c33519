------------------------------- MODULE Pages --------------------------------
(***************************************************************************)
(* The web pages but for the runs of programs: the parts of Site, and what *)
(* the playground does to texts (Texts).  They share no state; `reading`   *)
(* says which of the two moves, and then nothing of the site differs at    *)
(* the start.  Every behaviour is one of SiteSpec and one of ReaderSpec.   *)
(***************************************************************************)
EXTENDS Site, Texts

VARIABLE reading

pagesVars == <<siteVars, readerVars, reading>>

PagesInit ==
    /\ reading \in BOOLEAN
    /\ SiteInit /\ ReaderInit
    /\ reading => part = "menu"

MovePart == ~reading /\ SiteNext /\ UNCHANGED <<readerVars, reading>>

ReadText == reading /\ Read /\ UNCHANGED <<siteVars, reading>>

PagesNext == MovePart \/ ReadText

PagesSpec == PagesInit /\ [][PagesNext]_pagesVars
=============================================================================
