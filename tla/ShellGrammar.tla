---------------------------- MODULE ShellGrammar ----------------------------
(***************************************************************************)
(* The hand-written Monarch grammar for Bash (registerExtraGrammars in     *)
(* playground/Editor.tsx).  A tokenizer state is a list of rules; the      *)
(* first one that matches at the current place consumes what it matched    *)
(* and may push a state or pop one.  What no rule matches is skipped, one  *)
(* character at a time (Monarch, external).                                *)
(*                                                                         *)
(* "w" stands for letters, "1" for digits, "=" for the other operators;     *)
(* "sq", "dq", "bt" are the quotes, "bs" the backslash, "sp" and "nl"        *)
(* blank and newline.                                                      *)
(* The names of the tokens, which colour the text, are left out: a rule is *)
(* how much it consumes, 0 if it does not match, and where it goes.        *)
(***************************************************************************)
EXTENDS Naturals, Sequences

VARIABLES ahead, stack, bol    \* what is left of the program; the states, the
                               \* current one last; at the beginning of a line

grammarVars == <<ahead, stack, bol>>

word == {"w", "1"}
Symbol == {"=", "<"}

Starts(r, p) == Len(p) <= Len(r) /\ SubSeq(r, 1, Len(p)) = p

\* How many characters of r, from its first, are in S.
Leading(r, S) ==
    CHOOSE n \in 0..Len(r) :
        (\A i \in 1..n : r[i] \in S) /\ (n = Len(r) \/ r[n + 1] \notin S)

Lit(r, p, go) == <<[n |-> IF Starts(r, p) THEN Len(p) ELSE 0, go |-> go]>>
Span(r, S) == <<[n |-> Leading(r, S), go |-> "stay"]>>
One(r, S) == <<[n |-> IF r[1] \in S THEN 1 ELSE 0, go |-> "stay"]>>

\* The prefix p and at least one character of S.
Then(r, p, S) ==
    LET n == Leading(SubSeq(r, Len(p) + 1, Len(r)), S)
    IN  <<[n |-> IF Starts(r, p) /\ n > 0 THEN Len(p) + n ELSE 0, go |-> "stay"]>>

\* To the end of the line.
Line(r) == CHOOSE n \in 0..Len(r) :
               (\A i \in 1..n : r[i] # "nl") /\ (n = Len(r) \/ r[n + 1] = "nl")
-----------------------------------------------------------------------------
(* The rule lists that states include.                                     *)

whitespace(r) ==
    LET b == Leading(r, {"sp"})
        comment == IF b > 0 THEN b < Len(r) /\ r[b + 1] = "#" ELSE bol /\ r[1] = "#"
    IN  <<[n |-> IF comment THEN Line(r) ELSE b, go |-> "stay"]>>

Name(r) == IF r[1] = "w" THEN Span(r, word) ELSE <<>>

strings(r) == Lit(r, <<"sq">>, "sqString") \o Lit(r, <<"dq">>, "dqString") \o Lit(r, <<"bt">>, "backtick")

parameters(r) ==
    Lit(r, <<"$", "(", "(">>, "arithmetic") \o Lit(r, <<"$", "(">>, "cmdsubst")
      \o Lit(r, <<"$", "{">>, "paramExpansion")
      \o Then(r, <<"$">>, {"1"})
      \o Lit(r, <<"$", "#">>, "stay") \o Lit(r, <<"$", "$">>, "stay")
      \o Then(r, <<"$">>, word)

\* << and a delimiter, quoted or not (the dash and the blanks between left out).
heredoc(r) ==
    LET q == IF Len(r) > 2 /\ r[3] \in {"sq", "dq", "bt"} THEN 1 ELSE 0
        w == Leading(SubSeq(r, 3 + q, Len(r)), word)
        e == IF Len(r) > 2 + q + w /\ r[3 + q + w] \in {"sq", "dq", "bt"} THEN 1 ELSE 0
    IN  <<[n |-> IF Starts(r, <<"<", "<">>) /\ w > 0 THEN 2 + q + w + e ELSE 0, go |-> "stay"]>>
-----------------------------------------------------------------------------
(* The states.                                                             *)

root(r) == whitespace(r) \o Name(r) \o strings(r) \o parameters(r) \o heredoc(r)
             \o One(r, {"{", "}", "(", ")"}) \o Span(r, Symbol) \o Span(r, {"1"})

sqString(r) == (IF r[1] # "sq" THEN One(r, {r[1]}) ELSE <<>>) \o Lit(r, <<"sq">>, "pop")

dqString(r) ==
    (IF r[1] \notin {"dq", "bs", "$", "bt"} THEN One(r, {r[1]}) ELSE <<>>)
      \o (IF r[1] = "bs" /\ Len(r) > 1 /\ r[2] # "nl" THEN <<[n |-> 2, go |-> "stay"]>> ELSE <<>>)
      \o parameters(r) \o Lit(r, <<"bt">>, "backtick") \o Lit(r, <<"dq">>, "pop") \o One(r, {"$", "bt"})

backtick(r) == parameters(r) \o strings(r) \o Lit(r, <<"bt">>, "pop") \o One(r, {r[1]})

paramExpansion(r) == Name(r) \o Span(r, {"1"}) \o One(r, {":", "#"}) \o Lit(r, <<"}">>, "pop") \o One(r, {r[1]})

\* Mutant: the rule for one bracket comes before the rule for the closing two.
ArithmeticNeverCloses(r) ==
    Then(r, <<"$">>, word) \o Lit(r, <<"$", "{">>, "paramExpansion") \o Span(r, {"1"}) \o Name(r)
      \o Span(r, Symbol \cup {":"}) \o One(r, {"(", ")"}) \o Lit(r, <<")", ")">>, "pop") \o Span(r, {"sp"})

arithmetic(r) ==
    Then(r, <<"$">>, word) \o Lit(r, <<"$", "{">>, "paramExpansion") \o Span(r, {"1"}) \o Name(r)
      \o Span(r, Symbol \cup {":"}) \o Lit(r, <<")", ")">>, "pop") \o One(r, {"(", ")"}) \o Span(r, {"sp"})

cmdsubst(r) ==
    Lit(r, <<")">>, "pop") \o whitespace(r) \o Name(r) \o strings(r) \o parameters(r)
      \o One(r, {"{", "}"}) \o One(r, {"("}) \o Span(r, Symbol) \o Span(r, {"1"})

Rules(state, r) ==
    CASE state = "root" -> root(r)
      [] state = "sqString" -> sqString(r)
      [] state = "dqString" -> dqString(r)
      [] state = "backtick" -> backtick(r)
      [] state = "paramExpansion" -> paramExpansion(r)
      [] state = "arithmetic" -> arithmetic(r)
      [] state = "cmdsubst" -> cmdsubst(r)

\* The first rule that matches, or the skipping of a character.
Match(state, r) ==
    LET rules == Rules(state, r)
        I == {i \in DOMAIN rules : rules[i].n > 0}
    IN  IF I = {} THEN [n |-> 1, go |-> "stay"]
        ELSE rules[CHOOSE i \in I : \A j \in I : i <= j]
-----------------------------------------------------------------------------
(* Programs in which whatever is opened is closed, the way Bash reads it.  *)
(* Between double quotes only a dollar opens anything.  What nests in      *)
(* ${ } and $(( )) has no closing bracket of its own: in those two states  *)
(* nothing is opened, so that the first such bracket would close them.     *)

Piece == {<<"w">>, <<"$", "1">>, <<"$", "$">>, <<"sp", "#", "sq", "nl">>, <<"<", "<", "sq", "w", "sq">>}

Flat(S) == {x \in S : \A i \in DOMAIN x : x[i] \notin {")", "}"}}

Dollar(S) == {<<"$", "(", "(">> \o x \o <<")", ")">> : x \in Flat(S)}
               \cup {<<"$", "(">> \o x \o <<")">> : x \in S}
               \cup {<<"$", "{", "w", ":">> \o x \o <<"}">> : x \in Flat(S)}

InQuotes(S) == {<<"w">>, <<"$", "1">>, <<"$">>, <<"sq">>, <<"bs", "dq">>} \cup Dollar(S)

Nest(S) == S \cup Dollar(S) \cup {<<"sq", "w", "dq", "sq">>}
             \cup {<<"dq">> \o x \o <<"dq">> : x \in InQuotes(S)}
             \cup {<<"bt">> \o x \o <<"bt">> : x \in S}

Closed == {x \o y : x \in Nest(Nest(Piece)), y \in Nest(Piece)}
-----------------------------------------------------------------------------
GrammarInit(programs) == ahead \in programs /\ stack = <<"root">> /\ bol = TRUE

\* One token; the end of a line changes nothing else.
Tokenize ==
    /\ ahead # <<>>
    /\ LET m == IF ahead[1] = "nl" THEN [n |-> 1, go |-> "stay"]
                ELSE Match(stack[Len(stack)], ahead)
       IN  /\ ahead' = SubSeq(ahead, m.n + 1, Len(ahead))
           /\ bol' = (ahead[m.n] = "nl")
           /\ stack' = IF m.go = "stay" THEN stack
                       ELSE IF m.go = "pop" THEN SubSeq(stack, 1, Len(stack) - 1)
                       ELSE Append(stack, m.go)

\* What the program closes the highlighter closes: at the end it is back in its
\* first state, which it never left for less.  Only a backtick may leave it
\* elsewhere: inside backticks the rule that opens one comes before the rule that
\* closes it, so that no backtick is ever closed (backtick, strings).
ClosedIsClosed ==
    /\ stack # <<>> /\ stack[1] = "root"
    /\ ahead = <<>> /\ stack # <<"root">> => \E i \in DOMAIN stack : stack[i] = "backtick"
=============================================================================
