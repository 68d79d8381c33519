SPECIFICATION PagesSpec
CONSTANTS
    MaxClicks = 2
    TimeStop <- MCTimeStop
    MemStop <- MCMemStop
    Catalogue <- MCCatalogue
    Ceiling <- MCCeiling
    Smallest = 2
    Margin = 2
    Window <- MCWindow
    Delta <- MCDelta
    Query <- MCQuery
    Found <- MCFound
    Lines = 3
    MaxTimers = 2
    Chars = 3
    Outs = 2
    Rings <- MCRings
    Program <- MCProgram
    Snippet <- MCSnippet
    tidy <- MCtidy
    reindent <- MCreindent
    Input <- MCInput
    Char <- MCChar
    MaxLen = 4
    MaxChunk = 2
INVARIANTS
    BaseRestored
    NoFakedVerdict
    LimitsAccepted
    ThemeAgrees
    NothingLeftHanging
    ClosedIsClosed
    EditorFaithful
    ReadsExactly
    CsvRoundTrip
    DiffExact
    ModesOrdered
    TidyStable
CHECK_DEADLOCK FALSE
