------------------------------- MODULE Texts --------------------------------
(***************************************************************************)
(* What the playground does to texts, on texts of at most MaxLen           *)
(* characters: reading an event stream and the lines of a program's output *)
(* however the network cuts them (shared/api.ts, playground/App.tsx), the  *)
(* export and import of test cases, the comparison modes and the line diff *)
(* (playground/TestsPanel.tsx), and the formatter (playground/Editor.tsx). *)
(*                                                                         *)
(* A text is a sequence of characters; "a" stands for those that nobody    *)
(* treats specially.  The state machine is the two readers; the other      *)
(* algorithms are operators, looked at for every text that arrives.        *)
(***************************************************************************)
EXTENDS Integers, Sequences, FiniteSets, SequencesExt

CONSTANTS
    Char,       \* the characters that arrive
    MaxLen,     \* bound: the length of what arrives
    MaxChunk    \* bound: the length of a chunk

ASSUME BoundsAssumption == MaxLen \in Nat /\ MaxChunk \in Nat \ {0}

nl == "nl"
cr == "cr"
quote == "quote"
comma == "comma"
Blank == {"sp", "tab"}
White == Blank \cup {nl, cr}

VARIABLES
    text,           \* all that has arrived
    frames, buf,    \* stream(): the frames handed on, and the rest
    lines, rest,    \* flushLines: the lines shown, and stdoutBuf
    done            \* the run is over: "no", "kept", or "lost"

readerVars == <<text, frames, buf, lines, rest, done>>
-----------------------------------------------------------------------------
(* Splitting.                                                              *)

EndsWith(s, c) == s # <<>> /\ Last(s) = c

\* Where sep occurs in s.
At(s, sep) == {i \in 1..Len(s) - Len(sep) + 1 : SubSeq(s, i, i + Len(sep) - 1) = sep}

\* The body of the loops that take a buffer apart: what comes before the first
\* sep is handed on, what comes after it is looked at next.
cutOne(a, sep) ==
    IF At(a.rest, sep) = {} THEN a
    ELSE LET i == Min(At(a.rest, sep))
         IN  [parts |-> Append(a.parts, SubSeq(a.rest, 1, i - 1)),
              rest  |-> SubSeq(a.rest, i + Len(sep), Len(a.rest))]

\* The loop, which ends after at most Len(s) rounds.
cutAll(s, sep) ==
    LET loop[n \in 0..Len(s)] ==
          IF n = 0 THEN [parts |-> <<>>, rest |-> s] ELSE cutOne(loop[n - 1], sep)
    IN  loop[Len(s)]

\* s.split('\n')
Split(s) == LET c == cutAll(s, <<nl>>) IN Append(c.parts, c.rest)

\* ls.join('\n') + '\n'
Join(ls) == FlattenSeq([i \in DOMAIN ls |-> Append(ls[i], nl)])

\* The characters of s at the places I.
Keep(s, I) == FlattenSeq([i \in DOMAIN s |-> IF i \in I THEN <<s[i]>> ELSE <<>>])

DropCr(l) == IF EndsWith(l, cr) THEN Front(l) ELSE l

\* s.split(/\r?\n/)
SplitCr(s) == LET ls == Split(s)
              IN  [i \in DOMAIN ls |-> IF i < Len(ls) THEN DropCr(ls[i]) ELSE ls[i]]

\* Without the blanks at its end.
TrimEnd(l) == LET n == {i \in DOMAIN l : l[i] \notin Blank}
              IN  SubSeq(l, 1, IF n = {} THEN 0 ELSE CHOOSE i \in n : \A j \in n : j <= i)
-----------------------------------------------------------------------------
(* The readers.                                                            *)

\* Mutant: one frame per chunk; what follows it is thrown away.
OneFrame(s) ==
    LET c == cutOne([parts |-> <<>>, rest |-> s], <<nl, nl>>)
    IN  [c EXCEPT !.rest = IF c.parts = <<>> THEN s ELSE <<>>]

\* The loop of stream(): the buffer is cut at every empty line.
Frames(s) == cutAll(s, <<nl, nl>>)

\* The complete lines of the buffer are shown, the rest is kept.
flushLines(b) == cutAll(b, <<nl>>)

ReaderInit ==
    /\ text = <<>> /\ frames = <<>> /\ buf = <<>> /\ lines = <<>> /\ rest = <<>>
    /\ done = "no"

\* A chunk arrives, of the stream's body for the one reader, of the program's
\* output for the other.
Chunk(c) ==
    /\ done = "no" /\ Len(text) + Len(c) <= MaxLen
    /\ text' = text \o c
    /\ LET f == Frames(buf \o c)
       IN  frames' = frames \o f.parts /\ buf' = f.rest
    /\ LET f == flushLines(rest \o c)
       IN  lines' = lines \o f.parts /\ rest' = f.rest
    /\ UNCHANGED done

\* The run finishes: the rest becomes a line.  The function given to the
\* state's setter reads the buffer when React calls it, which may be after the
\* handler has emptied it.
Finished ==
    /\ done = "no"
    /\ \/ rest = <<>> /\ done' = "kept" /\ UNCHANGED lines
       \/ rest # <<>> /\ done' = "kept" /\ lines' = Append(lines, rest)
       \/ rest # <<>> /\ done' = "lost" /\ lines' = Append(lines, <<>>)
    /\ rest' = <<>>
    /\ UNCHANGED <<text, frames, buf>>

Read == Finished \/ \E n \in 1..MaxChunk : \E c \in [1..n -> Char] : Chunk(c)

ReaderSpec == ReaderInit /\ [][Read]_readerVars

\* The lines applySubmissionView makes of the stored output.
RowLines(s) == LET ls == SplitCr(s) IN IF Last(ls) = <<>> THEN Front(ls) ELSE ls
-----------------------------------------------------------------------------
(* Export and import of test cases.                                        *)

Quoted(s) == <<quote>> \o FlattenSeq([i \in DOMAIN s |->
                 IF s[i] = quote THEN <<quote, quote>> ELSE <<s[i]>>]) \o <<quote>>

\* Mutant: only cells with a quote or a comma are quoted.
EscForgetsNewline(s) == IF \E c \in {quote, comma} : Contains(s, c) THEN Quoted(s) ELSE s

esc(s) == IF \E c \in {quote, comma, nl} : Contains(s, c) THEN Quoted(s) ELSE s

\* The header's two words are one character each.
exportCSV(ts) ==
    <<"stdin", comma, "expected", nl>>
      \o FlattenSeq([i \in DOMAIN ts |-> esc(ts[i].stdin) \o <<comma>> \o esc(ts[i].expected) \o <<nl>>])

pushField(a) == [a EXCEPT !.row = Append(@, a.field), !.field = <<>>]

flushRow(a) == [a EXCEPT !.rows = Append(@, a.row), !.row = <<>>]

put(a, c) == [a EXCEPT !.field = Append(@, c)]

\* One character of the scanner.  The mode is "plain", "quoted" (inQuote), or
\* "pair" at the second quote of a pair, which was read with the first.
scan(a, c, next) ==
    IF a.mode = "pair" THEN [a EXCEPT !.mode = "quoted"]
    ELSE IF a.mode = "quoted"
    THEN IF c # quote THEN put(a, c)
         ELSE IF next = quote THEN [put(a, quote) EXCEPT !.mode = "pair"]
         ELSE [a EXCEPT !.mode = "plain"]
    ELSE IF c = quote THEN [a EXCEPT !.mode = "quoted"]
    ELSE IF c = comma THEN pushField(a)
    ELSE IF c = cr THEN a
    ELSE IF c = nl THEN flushRow(pushField(a))
    ELSE put(a, c)

scanAll(s) ==
    LET loop[n \in 0..Len(s)] ==
          IF n = 0 THEN [rows |-> <<>>, row |-> <<>>, field |-> <<>>, mode |-> "plain"]
          ELSE scan(loop[n - 1], s[n], IF n < Len(s) THEN s[n + 1] ELSE "eof")
    IN  loop[Len(s)]

Rows(s) ==
    LET end == scanAll(s)
    IN  (IF end.field # <<>> \/ end.row # <<>> THEN flushRow(pushField(end)) ELSE end).rows

\* A row is a case; cells that are not there are empty.
Case(row) == [stdin |-> row[1], expected |-> IF Len(row) > 1 THEN row[2] ELSE <<>>]

\* The cases that say something.
Telling(ts) ==
    FlattenSeq([i \in DOMAIN ts |->
        IF ts[i].stdin # <<>> \/ ts[i].expected # <<>> THEN <<ts[i]>> ELSE <<>>])

parseCSV(s) ==
    LET all  == Rows(s)
        body == IF all # <<>> /\ all[1][1] = <<"stdin">> THEN Tail(all) ELSE all
    IN  Telling([i \in DOMAIN body |-> Case(body[i])])

\* The file that is downloaded has the cases that say something; if there are
\* none there is no file.
doExport(ts) == IF Telling(ts) = <<>> THEN <<>> ELSE exportCSV(Telling(ts))
-----------------------------------------------------------------------------
(* Comparison modes and the diff.                                          *)

\* The blanks before a line end, which go.
Goes(s, i) ==
    \E j \in i + 1..Len(s) :
        /\ \A k \in i..j - 1 : s[k] \in Blank
        /\ s[j] = nl \/ (s[j] = cr /\ j < Len(s) /\ s[j + 1] = nl)

\* And then one line end at the end.
norm(s) ==
    LET t == Keep(s, {i \in DOMAIN s : ~Goes(s, i)})
    IN  IF EndsWith(t, nl) THEN DropCr(Front(t)) ELSE t

\* A word ends, if one had begun.
break(w) == IF w.word = <<>> THEN w ELSE [words |-> Append(w.words, w.word), word |-> <<>>]

read(w, c) == IF c \in White THEN break(w) ELSE [w EXCEPT !.word = Append(@, c)]

readAll(s) ==
    LET w[n \in 0..Len(s)] ==
          IF n = 0 THEN [words |-> <<>>, word |-> <<>>] ELSE read(w[n - 1], s[n])
    IN  w[Len(s)]

\* s.trim().split(/\s+/)
Words(s) == LET all == break(readAll(s)).words IN IF all = <<>> THEN << <<>> >> ELSE all

\* s.replace(/\s+/g, '')
Strip(s) == Keep(s, {i \in DOMAIN s : s[i] \notin White})

\* Mutant: the numbers of words are not compared.
SameWordsPrefix(a, b) ==
    \A i \in DOMAIN Words(a) : i \in DOMAIN Words(b) => Words(a)[i] = Words(b)[i]

SameWords(a, b) == Words(a) = Words(b)

compare(actual, expected, mode) ==
    \/ expected = <<>>
    \/ mode = "exact" /\ actual = expected
    \/ mode = "trim" /\ norm(actual) = norm(expected)
    \/ mode = "tokens" /\ SameWords(actual, expected)
    \/ mode = "ignore-ws" /\ Strip(actual) = Strip(expected)

Larger(x, y) == IF x >= y THEN x ELSE y

\* The length of a longest common subsequence, from each pair of lines on.
Lcs(a, b) ==
    LET dp[p \in (1..Len(a) + 1) \X (1..Len(b) + 1)] ==
          IF p[1] > Len(a) \/ p[2] > Len(b) THEN 0
          ELSE IF a[p[1]] = b[p[2]] THEN dp[<<p[1] + 1, p[2] + 1>>] + 1
          ELSE Larger(dp[<<p[1] + 1, p[2]>>], dp[<<p[1], p[2] + 1>>])
    IN  dp

\* Mutant: the walk follows the smaller entry of the table.
GoWorse(dp, i, j) == dp[<<i + 1, j>>] < dp[<<i, j + 1>>]

\* The walk follows the larger entry, and deletes first.
GoDel(dp, i, j) == dp[<<i + 1, j>>] >= dp[<<i, j + 1>>]

\* One line of the diff: a line that both have, or one that only a or b has.
walk(w, a, b, dp) ==
    LET push(kind, line, di, dj) ==
          [i |-> w.i + di, j |-> w.j + dj, out |-> Append(w.out, [kind |-> kind, text |-> line])]
    IN  IF w.i <= Len(a) /\ w.j <= Len(b) /\ a[w.i] = b[w.j] THEN push("same", a[w.i], 1, 1)
        ELSE IF w.i <= Len(a) /\ (w.j > Len(b) \/ GoDel(dp, w.i, w.j)) THEN push("del", a[w.i], 1, 0)
        ELSE IF w.j <= Len(b) THEN push("add", b[w.j], 0, 1)
        ELSE w

\* The loop, which ends after at most Len(a) + Len(b) rounds.
Diff(a, b) ==
    LET loop[n \in 0..Len(a) + Len(b)] ==
          IF n = 0 THEN [i |-> 1, j |-> 1, out |-> <<>>] ELSE walk(loop[n - 1], a, b, Lcs(a, b))
    IN  loop[Len(a) + Len(b)].out

lineDiff(x, y) == Diff(SplitCr(x), SplitCr(y))
-----------------------------------------------------------------------------
(* The formatter.                                                          *)

\* Line ends become newlines.
Newlines(s) ==
    FlattenSeq([i \in DOMAIN s |->
        IF s[i] = cr THEN <<nl>>
        ELSE IF s[i] = nl /\ i > 1 /\ s[i - 1] = cr THEN <<>> ELSE <<s[i]>>])

\* Mutant: only the first tab of the indentation is replaced.
IndentOnce(l) ==
    FlattenSeq([i \in DOMAIN l |->
        IF l[i] = "tab" /\ \A j \in 1..i - 1 : l[j] = "sp"
        THEN <<"sp", "sp", "sp", "sp">> ELSE <<l[i]>>])

\* Tabs of the indentation become four blanks.
Indent(l) ==
    FlattenSeq([i \in DOMAIN l |->
        IF l[i] = "tab" /\ \A j \in 1..i : l[j] \in Blank
        THEN <<"sp", "sp", "sp", "sp">> ELSE <<l[i]>>])

\* Without the empty lines at the end, but for the first line.
DropEmpty(ls) ==
    LET n == {i \in DOMAIN ls : ls[i] # <<>>} \cup {1}
    IN  SubSeq(ls, 1, CHOOSE i \in n : \A j \in n : j <= i)

tidyDocument(s) ==
    LET ls == Split(Newlines(s))
    IN  Join(DropEmpty([i \in DOMAIN ls |-> TrimEnd(Indent(ls[i]))]))
-----------------------------------------------------------------------------
(* Properties.  The last four are about every way of cutting the text that *)
(* arrived in two.                                                         *)

Cuts == {<<SubSeq(text, 1, k), SubSeq(text, k + 1, Len(text))>> : k \in 0..Len(text)}

\* s is the parts, each of them up to the next sep, and then the last one, in
\* which there is no sep.
Reads(s, parts, sep, last) ==
    /\ \E at \in [1..Len(parts) + 1 -> 0..Len(s)] :
          /\ at[1] = 0
          /\ \A k \in DOMAIN parts :
                /\ at[k + 1] = at[k] + Len(parts[k]) + Len(sep)
                /\ SubSeq(s, at[k] + 1, at[k + 1]) = parts[k] \o sep
          /\ SubSeq(s, at[Len(parts) + 1] + 1, Len(s)) = last
    /\ \A k \in DOMAIN parts : At(parts[k] \o sep, sep) = {Len(parts[k]) + 1}
    /\ At(last, sep) = {}

\* Nothing depends on how the bytes were cut into chunks.  The frames are the
\* text up to its first empty line, from there to the next, and so on (stream);
\* the lines and the rest are the text at its newlines (flushLines); and when the
\* run is over the page shows the lines it will show again when the stored output
\* arrives (applySubmissionView), unless the program wrote carriage returns or the
\* last line was lost.
ReadsExactly ==
    /\ Reads(text, frames, <<nl, nl>>, buf)
    /\ done = "no" => Reads(text, lines, <<nl>>, rest)
    /\ done = "kept" /\ ~Contains(text, cr) => lines = RowLines(text)

\* Exported cases come back as they were, the empty ones apart: only the carriage
\* returns of a cell that needed no quotes are lost, and with them a case that
\* held nothing else (doExport, parseCSV).
CsvRoundTrip ==
    LET Back(s) == IF esc(s) = s THEN Keep(s, {i \in DOMAIN s : s[i] # cr}) ELSE s
    IN  \A c \in Cuts :
          LET ts   == <<[stdin |-> c[1], expected |-> c[2]], [stdin |-> c[2], expected |-> c[1]]>>
              want == [i \in DOMAIN ts |-> [stdin |-> Back(ts[i].stdin), expected |-> Back(ts[i].expected)]]
          IN  parseCSV(doExport(ts)) = Telling(want)

\* The texts of the lines of a diff of the kinds K.
Side(d, K) == FlattenSeq([n \in DOMAIN d |-> IF d[n].kind \in K THEN <<d[n].text>> ELSE <<>>])

\* n places of s, in order.
Rising(n, s) == {f \in [1..n -> DOMAIN s] : \A k, l \in 1..n : k < l => f[k] < f[l]}

\* The diff of two texts reads as the one without its additions and as the
\* other without its deletions, and marks as unchanged as many lines as the
\* two have in common in the same order (lineDiff).
DiffExact ==
    \A c \in Cuts :
        LET a == SplitCr(c[1])
            b == SplitCr(c[2])
            d == lineDiff(c[1], c[2])
        IN  /\ Side(d, {"same", "del"}) = a
            /\ Side(d, {"same", "add"}) = b
            /\ \A n \in 1..Len(a) : \A f \in Rising(n, a), g \in Rising(n, b) :
                   (\A k \in 1..n : a[f[k]] = b[g[k]]) => n <= Len(Side(d, {"same"}))

\* Each comparison mode accepts what the stricter ones accept: exact, trim,
\* tokens, ignore-ws (compare).
ModesOrdered ==
    \A c \in Cuts :
        /\ compare(c[1], c[2], "exact") => compare(c[1], c[2], "trim")
        /\ compare(c[1], c[2], "trim") => compare(c[1], c[2], "tokens")
        /\ compare(c[1], c[2], "tokens") => compare(c[1], c[2], "ignore-ws")

\* Formatting twice is formatting once, and changes nothing but white space
\* (tidyDocument).
TidyStable ==
    LET t == tidyDocument(text)
    IN  /\ tidyDocument(t) = t
        /\ Strip(t) = Strip(text)
=============================================================================
