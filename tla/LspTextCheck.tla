----------------------------- MODULE LspTextCheck -----------------------------
(***************************************************************************)
(* The position arithmetic of the language server against a definition     *)
(* that never leaves characters, over every text of up to MaxLen           *)
(* characters.  A behaviour types a text one character at a time.          *)
(***************************************************************************)
EXTENDS LspText

CONSTANT MaxLen
ASSUME MaxLenAssumption == MaxLen \in Nat

VARIABLE text

TextInit == text = <<>>
TypeText == Len(text) < MaxLen /\ \E c \in Chars : text' = Append(text, c)

TextSpec == TextInit /\ [][TypeText]_text

-----------------------------------------------------------------------------

Boundaries == 0 .. Len(text)
OffsetOf(i) == ByteLen(Take(text, i))

\* The client's own idea of the position before character i + 1: how many line
\* ends precede it, and the UTF-16 units since the last of them.
ClientPos(i) ==
  LET bol == Sets!Max({0} \cup {j \in 1 .. i : text[j] = "nl"})
  IN  Pos(Newlines(Take(text, i)), UnitLen(SubSeq(text, bol + 1, i)))

\* The two conversions agree with the client and invert each other at every
\* character of every line, whatever mix of narrow, wide and line-end
\* characters precedes it; a position between the two halves of a surrogate
\* pair or past the end of a line is refused, never rounded.
PositionsAgree ==
  /\ \A i \in Boundaries :
       /\ byteOffsetToPosition(text, OffsetOf(i)) = ClientPos(i)
       /\ positionToByteOffset(text, ClientPos(i)) = OffsetOf(i)
  /\ \A l \in 0 .. Len(text), c \in 0 .. 2 * Len(text) + 1 :
       positionToByteOffset(text, Pos(l, c)) >= 0 =>
         \/ \E i \in Boundaries : ClientPos(i) = Pos(l, c)
         \/ l = Newlines(text) + 1 /\ c = 0

Replacements == {<<>>, <<"face">>, <<"nl">>}

\* A range edit replaces exactly the characters the client selected.
EditsReplaceTheSelection ==
  \A i \in Boundaries : \A j \in i .. Len(text) : \A new \in Replacements :
    applyRangeEdit(text, [start |-> ClientPos(i), end |-> ClientPos(j)], new)
      = Take(text, i) \o new \o Slice(text, j, Len(text))

\* Hover and go-to-definition see the whole identifier the cursor touches, and
\* the range they report selects that identifier on the client's side.
IdentifierUnderCursor ==
  \A i \in Boundaries : \A w \in {identifierAt(text, ClientPos(i))} :
    /\ w.ok <=> \/ i > 0 /\ isIdent(text[i])
                \/ i < Len(text) /\ isIdent(text[i + 1])
    /\ w.ok =>
         /\ w.from <= i /\ i <= w.to
         /\ \A k \in w.from + 1 .. w.to : isIdent(text[k])
         /\ w.from = 0 \/ ~isIdent(text[w.from])
         /\ w.to = Len(text) \/ ~isIdent(text[w.to + 1])
         /\ w.start = ClientPos(w.from) /\ w.end = ClientPos(w.to)
=============================================================================
