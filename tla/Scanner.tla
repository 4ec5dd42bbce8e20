------------------------------- MODULE Scanner -------------------------------
(***************************************************************************)
(* compiler/lex/scanner.go: a source text becomes a stream of tokens.  A   *)
(* text is a sequence of characters, named where they have no letter of    *)
(* their own ("lf", "cr", "quote", "tick", "bs", "space", "bom"); one that *)
(* is not ASCII takes several bytes, which only the columns tell.  Every   *)
(* turn of a loop of the code that can meet a line end is a step.          *)
(***************************************************************************)
EXTENDS Naturals, Sequences, FiniteSets

CONSTANT Texts        \* the source texts

\* "end" stands for the place after the last character.
ASSUME TextsAssumption == \A t \in Texts : t \in Seq(STRING \ {"end"})

VARIABLES src,        \* s.src
          here,       \* s.off (the next character, from 1), s.line and s.col
          mode,       \* the routine that is running
          from,       \* where the token or comment began
          count,      \* `#'s of a raw string, depth of a block comment
          tokens,     \* s.tokens
          lexErrors,  \* s.errs, where each one begins
          stopped     \* s.stopped

scanVars == <<src, here, mode, from, count, tokens, lexErrors, stopped>>

Blank == {"space", "lf", "cr"}
LetterChars == {"a", "b", "c", "e", "r", "u", "x", "wide"}   \* "wide": a letter of two bytes
IdentStartChars == LetterChars \cup {"_"}
Digits == {"0", "1"}
IdentContinueChars == IdentStartChars \cup Digits
Width(c) == CASE c = "bom" -> 3 [] c \in {"wide", "sign"} -> 2 [] OTHER -> 1

\* scanPunct's cases, in the order of its tests.
Spellings ==
  <<<<"(">>, <<")">>, <<"lbrace">>, <<"rbrace">>, <<"comma">>, <<"#">>,
    <<".", ".", "=">>, <<".", ".">>, <<".">>, <<"?", ".">>, <<"?">>,
    <<"-", ">">>, <<"-", "=">>, <<"-">>, <<"=", "=">>, <<"=", ">">>, <<"=">>,
    <<"<", "<", "=">>, <<"<", "<">>, <<"<", "=">>, <<"<">>,
    <<">", ">", "=">>, <<">", ">">>, <<">", "=">>, <<">">>,
    <<"*", "=">>, <<"*">>, <<"/", "=">>, <<"/">>, <<"&", "&">>, <<"&", "=">>, <<"&">>>>

-----------------------------------------------------------------------------
(* Positions *)

Ended == here.off > Len(src)
Char(i) == IF i > Len(src) THEN "end" ELSE src[i]
Here == Char(here.off)
Next1 == Char(here.off + 1)
Starts(i, s) == \A k \in DOMAIN s : Char(i + k - 1) = s[k]

\* advanceByte and advanceRune: a CR takes the LF after it along.
Consume(p) ==
  CASE Char(p.off) = "end" -> p
    [] Char(p.off) = "lf" -> [off |-> p.off + 1, line |-> p.line + 1, col |-> 1]
    [] Char(p.off) = "cr" ->
         [off |-> p.off + (IF Char(p.off + 1) = "lf" THEN 2 ELSE 1), line |-> p.line + 1, col |-> 1]
    [] OTHER -> [p EXCEPT !.off = @ + 1, !.col = @ + Width(src[p.off])]

\* One character after another, up to i; at[n] is the place after n of them.
Walk(p, i) ==
  LET at[n \in 0 .. Len(src)] ==
        IF n = 0 THEN p ELSE IF at[n - 1].off >= i THEN at[n - 1] ELSE Consume(at[n - 1])
  IN  at[Len(src)]
Along(i) == Walk(here, i)

\* The first place from i on that is not in S.
Past(i, S) == CHOOSE j \in i .. Len(src) + 1 : Char(j) \notin S /\ \A k \in i .. j - 1 : src[k] \in S

Token(kind, p, q) == [kind |-> kind, from |-> p, to |-> q]
Emit(kind, q) ==
  /\ tokens' = Append(tokens, Token(kind, from, q)) /\ here' = q /\ mode' = "trivia"
  /\ UNCHANGED <<src, from, count, lexErrors, stopped>>
EmitFrom(kind, q) ==
  /\ tokens' = Append(tokens, Token(kind, here, q)) /\ here' = q
  /\ UNCHANGED <<src, mode, from, count, lexErrors, stopped>>

\* An error after which nothing more is scanned.
Stop(begin) ==
  /\ lexErrors' = Append(lexErrors, begin) /\ stopped' = TRUE /\ mode' = "trivia"
  /\ UNCHANGED <<src, here, from, count, tokens>>

Enter(m, q, n) ==
  /\ mode' = m /\ from' = here /\ here' = q /\ count' = n
  /\ UNCHANGED <<src, tokens, lexErrors, stopped>>
Stay(q, n) == here' = q /\ count' = n /\ UNCHANGED <<src, mode, from, tokens, lexErrors, stopped>>
Back == mode' = "trivia" /\ UNCHANGED <<src, here, from, count, tokens, lexErrors, stopped>>

-----------------------------------------------------------------------------
(* Run, skipTrivia and scanOne *)

CheckBOM ==
  /\ mode = "start"
  /\ mode' = "trivia"
  /\ IF Here = "bom"
       THEN lexErrors' = <<here>> /\ stopped' = TRUE /\ here' = Consume(here)
       ELSE UNCHANGED <<lexErrors, stopped, here>>
  /\ UNCHANGED <<src, from, count, tokens>>

EmitEOF ==
  /\ mode = "trivia" /\ (stopped \/ Ended)
  /\ tokens' = Append(tokens, Token("EOF", here, here)) /\ mode' = "done"
  /\ UNCHANGED <<src, here, from, count, lexErrors, stopped>>

Scanning == mode = "trivia" /\ ~stopped /\ ~Ended
LineComment == Starts(here.off, <<"/", "/">>)
BlockComment == Starts(here.off, <<"/", "*">>)

SkipTrivia ==
  /\ Scanning
  /\ \/ Here \in Blank /\ Stay(Consume(here), count)
     \/ LineComment /\ Enter("line", here, 0)
     \/ BlockComment /\ Enter("block", Consume(Consume(here)), 1)

\* The loop asks only for LF.
SkipLineComment ==
  /\ mode = "line"
  /\ IF Ended \/ Here = "lf" THEN Back ELSE Stay(Consume(here), count)

SkipBlockComment ==
  /\ mode = "block"
  /\ CASE count = 0 -> Back
       [] count > 0 /\ Ended -> Stop(from)
       [] count > 0 /\ BlockComment -> Stay(Consume(Consume(here)), count + 1)
       [] count > 0 /\ Starts(here.off, <<"*", "/">>) -> Stay(Consume(Consume(here)), count - 1)
       [] OTHER -> Stay(Consume(here), count)

RawOpener == Here = "r" /\ Char(Past(here.off + 1, {"#"})) = "quote"

ScanIdentOrKeyword ==
  /\ Scanning /\ Here \in IdentStartChars
  /\ CASE RawOpener ->
            LET i == Past(here.off + 1, {"#"}) IN Enter("raw", Along(i + 1), i - here.off - 1)
       [] Here = "c" /\ Next1 = "quote" -> Enter("cstring", Consume(Consume(here)), 0)
       [] OTHER -> EmitFrom("ident", Along(Past(here.off, IdentContinueChars)))

\* Mutation of HashesMatchAt: one `#' too few closes a raw string.
HashesAlmostMatchAt(i, n) == \A k \in i .. i + n - 2 : Char(k) = "#"

HashesMatchAt(i, n) == \A k \in i .. i + n - 1 : Char(k) = "#"

ScanRawString ==
  /\ mode = "raw"
  /\ IF Ended THEN Stop(from)
     ELSE IF Here = "quote" /\ HashesMatchAt(here.off + 1, count) THEN Emit("raw", Along(here.off + 1 + count))
     ELSE Stay(Consume(here), count)

ScanString == Scanning /\ Here = "quote" /\ Enter("string", Consume(here), 0)

ConsumeStringBody ==
  /\ mode \in {"string", "cstring"}
  /\ CASE Ended -> Stop(from)
       [] Here = "quote" -> Emit(mode, Consume(here))
       [] Here = "bs" -> Stay(Consume(Consume(here)), count)
       [] OTHER -> Stay(Consume(here), count)

\* The end of the escape in braces that begins at i.
BraceEnd(i) ==
  CHOOSE j \in i .. Len(src) + 1 : Char(j) \in {"rbrace", "end"} /\ \A k \in i .. j - 1 : src[k] # "rbrace"

\* A `\u{' runs to its `}'; any other escape is one byte, which leaves a
\* character outside ASCII half read.
AfterCharBody(p) ==
  LET q == Consume(p)
      r == IF Width(Char(q.off)) = 1 THEN Consume(q) ELSE [q EXCEPT !.col = @ + 1]
  IN  IF Char(p.off) # "bs" THEN q
      ELSE IF Char(q.off) = "u" /\ Char(r.off) = "lbrace" THEN Consume(Walk(r, BraceEnd(r.off)))
      ELSE r

ScanChar ==
  /\ Scanning /\ Here = "tick"
  /\ LET q == AfterCharBody(Consume(here))
     IN  IF Char(q.off) = "tick" THEN EmitFrom("char", Consume(q))
         ELSE /\ lexErrors' = Append(lexErrors, here) /\ stopped' = TRUE /\ here' = q
              /\ UNCHANGED <<src, mode, from, count, tokens>>

\* consumeDigitRun and consumeSuffix
DigitRun(i, digits) == Past(i, digits \cup {"_"})
Suffix(i) == IF Char(i) \in IdentStartChars THEN Past(i, IdentContinueChars) ELSE i

Radix == [c \in {"x", "b"} |-> IF c = "x" THEN Digits \cup {"a", "b", "c", "e"} ELSE Digits]
AfterFraction(i) == IF Char(i) = "." /\ Char(i + 1) \in Digits THEN DigitRun(i + 1, Digits) ELSE i
AfterExponent(i) ==
  IF Char(i) # "e" THEN i
  ELSE IF Char(i + 1) \in {"+", "-"} THEN DigitRun(i + 2, Digits) ELSE DigitRun(i + 1, Digits)

ScanNumber ==
  /\ Scanning /\ Here \in Digits
  /\ IF Here = "0" /\ Next1 \in DOMAIN Radix
       THEN EmitFrom("int", Along(Suffix(DigitRun(here.off + 2, Radix[Next1]))))
       ELSE LET i == DigitRun(here.off, Digits)
                j == AfterExponent(AfterFraction(i))
            IN  EmitFrom(IF i = j THEN "int" ELSE "float", Along(Suffix(j)))

Matches(i) == {n \in DOMAIN Spellings : Starts(i, Spellings[n])}

ScanPunct ==
  /\ Scanning /\ ~LineComment /\ ~BlockComment
  /\ Matches(here.off) # {}
  /\ LET n == CHOOSE m \in Matches(here.off) : \A k \in Matches(here.off) : m <= k
     IN  EmitFrom("punct", Along(here.off + Len(Spellings[n])))

\* errInvalidRune: the character is skipped.
InvalidRune ==
  /\ Scanning
  /\ Here \notin Blank \cup IdentContinueChars \cup {"quote", "tick"} /\ Matches(here.off) = {}
  /\ lexErrors' = Append(lexErrors, here) /\ here' = Consume(here)
  /\ UNCHANGED <<src, mode, from, count, tokens, stopped>>

TextStart == [off |-> 1, line |-> 1, col |-> 1]

ScanInit ==
  /\ src \in Texts
  /\ here = TextStart /\ from = TextStart /\ mode = "start" /\ count = 0
  /\ tokens = <<>> /\ lexErrors = <<>> /\ stopped = FALSE

ScanStep ==
  \/ CheckBOM \/ EmitEOF \/ SkipTrivia \/ SkipLineComment \/ SkipBlockComment
  \/ ScanIdentOrKeyword \/ ScanRawString \/ ScanString \/ ConsumeStringBody
  \/ ScanChar \/ ScanNumber \/ ScanPunct \/ InvalidRune

ScanSpec == ScanInit /\ [][ScanStep]_scanVars

-----------------------------------------------------------------------------
(* The lexical grammar, chapter 1 of the reference, on stretches of the text:
   [i, j) is the characters from i to j - 1. *)

All(i, j, S) == \A k \in i .. j - 1 : src[k] \in S

LineEnd(i) == Char(i) \in {"lf", "end"} \/ Starts(i, <<"cr", "lf">>)
IsLineComment(i, j) == Starts(i, <<"/", "/">>) /\ j >= i + 2 /\ LineEnd(j) /\ \A k \in i .. j - 1 : ~LineEnd(k)

\* What lies between i and j is one stretch <<a, b>> of pieces after another:
\* a set that holds i and, with the beginning of a stretch, its end holds j.
MadeOf(i, j, pieces) ==
  /\ i <= j
  /\ \A S \in SUBSET (i .. j) :
       i \in S /\ (\A p \in pieces : p[1] \in S /\ p[2] <= j => p[2] \in S) => j \in S

Stretches == {p \in (1 .. Len(src) + 1) \X (1 .. Len(src) + 1) : p[1] < p[2]}

\* Block comments nest: those that hold d - 1 levels of comments and characters
\* that neither open nor close one.
CommentText ==
  {p \in Stretches : p[2] = p[1] + 1 /\ ~Starts(p[1], <<"/", "*">>) /\ ~Starts(p[1], <<"*", "/">>)}
Comments[d \in 0 .. Len(src)] ==
  IF d = 0 THEN {}
  ELSE LET inner == CommentText \cup Comments[d - 1]
       IN  {p \in Stretches : /\ p[1] + 4 <= p[2]
                              /\ Starts(p[1], <<"/", "*">>) /\ Starts(p[2] - 2, <<"*", "/">>)
                              /\ MadeOf(p[1] + 2, p[2] - 2, inner)}

Trivia ==
  {p \in Stretches : \/ p[2] = p[1] + 1 /\ src[p[1]] \in Blank
                     \/ IsLineComment(p[1], p[2])} \cup Comments[Len(src)]
IsTrivia(i, j) == MadeOf(i, j, Trivia)

IsIdent(i, j) == i < j /\ src[i] \in IdentStartChars /\ All(i, j, IdentContinueChars)

\* Behind the character at i; a CR and the LF after it count as one.
Behind(i) == i + (IF Starts(i, <<"cr", "lf">>) THEN 2 ELSE 1)

\* The inside of a string: an escape takes the character after it.
StringText ==
  {p \in Stretches : \/ src[p[1]] \notin {"quote", "bs"} /\ p[2] = Behind(p[1])
                     \/ src[p[1]] = "bs" /\ p[1] < Len(src) /\ p[2] = Behind(p[1] + 1)}
InsideString(i, j) == MadeOf(i, j, StringText)
IsString(i, j) == i + 1 < j /\ src[i] = "quote" /\ src[j - 1] = "quote" /\ InsideString(i + 1, j - 1)

\* As many `#'s after the last quote as before the first, and no such end earlier.
IsRaw(i, j) ==
  /\ i < j /\ src[i] = "r"
  /\ \E n \in 0 .. j - i :
       LET Closes(k) == src[k] = "quote" /\ k + n < j /\ All(k + 1, k + n + 1, {"#"})
       IN  /\ i + n + 1 < j - n - 1 /\ All(i + 1, i + n + 1, {"#"}) /\ src[i + n + 1] = "quote"
           /\ Closes(j - n - 1) /\ \A k \in i + n + 2 .. j - n - 2 : ~Closes(k)

IsChar(i, j) ==
  /\ i + 2 < j /\ src[i] = "tick" /\ src[j - 1] = "tick"
  /\ \/ src[i + 1] # "bs" /\ j = Behind(i + 1) + 1
     \/ src[i + 1] = "bs" /\ Width(src[i + 2]) = 1 /\ j = Behind(i + 2) + 1
     \/ Starts(i + 1, <<"bs", "u", "lbrace">>) /\ src[j - 2] = "rbrace" /\ \A k \in i + 4 .. j - 3 : src[k] # "rbrace"

Digs(i, j, S) == i <= j /\ All(i, j, S \cup {"_"})
IsNumberSuffix(i, j) == i = j \/ IsIdent(i, j)
IsInt(i, j) ==
  \E k \in i + 1 .. j :
    /\ src[i] \in Digits /\ IsNumberSuffix(k, j)
    /\ \/ Digs(i, k, Digits)
       \/ \E c \in DOMAIN Radix : Starts(i, <<"0", c>>) /\ Digs(i + 2, k, Radix[c])
IsFloat(i, j) ==
  /\ src[i] \in Digits /\ ~(Char(i) = "0" /\ Char(i + 1) \in DOMAIN Radix)
  /\ \E p, e, k \in i + 1 .. j :
       /\ p <= e /\ e <= k /\ p < k /\ Digs(i, p, Digits) /\ IsNumberSuffix(k, j)
       /\ p = e \/ (src[p] = "." /\ p + 1 < e /\ src[p + 1] \in Digits /\ Digs(p + 1, e, Digits))
       /\ \/ e = k
          \/ src[e] = "e" /\ Digs(e + 1, k, Digits)
          \/ src[e] = "e" /\ e + 1 < k /\ src[e + 1] \in {"+", "-"} /\ Digs(e + 2, k, Digits)

IsLexeme(kind, i, j) ==
  CASE kind = "ident" -> IsIdent(i, j)
    [] kind = "string" -> IsString(i, j)
    [] kind = "cstring" -> Starts(i, <<"c">>) /\ IsString(i + 1, j)
    [] kind = "raw" -> IsRaw(i, j)
    [] kind = "char" -> IsChar(i, j)
    [] kind = "int" -> IsInt(i, j)
    [] kind = "float" -> IsFloat(i, j)
    [] kind = "punct" -> \E n \in DOMAIN Spellings : Starts(i, Spellings[n]) /\ j = i + Len(Spellings[n])
LexemeKinds == {"ident", "string", "cstring", "raw", "char", "int", "float", "punct"}

LineEnds == {k \in DOMAIN src : src[k] = "lf" \/ (src[k] = "cr" /\ Char(k + 1) # "lf")}
\* Where character i is: a CR and the LF after it end one line.
PlaceOf(i) ==
  LET before == {k \in LineEnds : k < i}
      last == CHOOSE k \in before \cup {0} : \A m \in before : m <= k
      bytes[k \in 0 .. Len(src)] == IF k <= last THEN 0 ELSE bytes[k - 1] + Width(src[k])
  IN  [off |-> i, line |-> 1 + Cardinality(before), col |-> 1 + bytes[i - 1]]

GapBefore(n) == <<IF n = 1 THEN 1 ELSE tokens[n - 1].to.off, tokens[n].from.off>>

\* Reference 1.1 and 1.2: "Line endings may be LF or CRLF", "Line comments run
\* to end of line".  skipTrivia drops nothing but blanks and comments: of a text
\* without errors, every stretch between two tokens is made of these.
OnlyTriviaIsDropped ==
  mode = "done" /\ lexErrors = <<>> =>
    \A n \in DOMAIN tokens : IsTrivia(GapBefore(n)[1], GapBefore(n)[2])

\* What the parser and the diagnostics rely on: every token is a lexeme of its
\* kind, no longer lexeme begins at its place (reference 1.10, longest match),
\* the tokens follow each other with only trivia between them, and the line and
\* the column of both ends of a token are those of the characters there.
TokensTileTheText ==
  mode = "done" =>
    /\ OnlyTriviaIsDropped
    /\ \A n \in 1 .. Len(tokens) - 1 :
         LET t == tokens[n]
         IN  /\ IsLexeme(t.kind, t.from.off, t.to.off)
             /\ \A kind \in LexemeKinds, j \in t.to.off + 1 .. Len(src) + 1 : ~IsLexeme(kind, t.from.off, j)
             /\ t.from = PlaceOf(t.from.off) /\ t.to = PlaceOf(t.to.off)
             /\ t.to.off <= tokens[n + 1].from.off
=============================================================================
