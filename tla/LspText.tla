-------------------------------- MODULE LspText --------------------------------
(***************************************************************************)
(* compiler/lsp/docstore.go and handlers.go: positions in a document.  The *)
(* client counts lines and UTF-16 code units, the server stores UTF-8.  A  *)
(* text is a sequence of characters, each with its width in both           *)
(* encodings; an offset counts UTF-8 bytes.                                *)
(***************************************************************************)
EXTENDS Integers, Sequences

Sets == INSTANCE FiniteSetsExt

\* A letter, a letter outside ASCII, an emoji, a space and a line end.
Chars == {"a", "e'", "face", " ", "nl"}
Bytes == [c \in Chars |-> CASE c = "e'" -> 2 [] c = "face" -> 4 [] OTHER -> 1]
Units == [c \in Chars |-> IF c = "face" THEN 2 ELSE 1]
LineEnds == [c \in Chars |-> IF c = "nl" THEN 1 ELSE 0]

\* The width of a text in which each character counts weight[c].
Width(weight, text) ==
  LET sum[i \in 0 .. Len(text)] == IF i = 0 THEN 0 ELSE sum[i - 1] + weight[text[i]]
  IN  sum[Len(text)]

ByteLen(text)  == Width(Bytes, text)
UnitLen(text)  == Width(Units, text)
Newlines(text) == Width(LineEnds, text)

Take(text, i)    == SubSeq(text, 1, i)
Slice(text, i, j) == SubSeq(text, i + 1, j)

\* text[:off] and text[off:], at a character boundary.
CharAt(text, off) == CHOOSE i \in 0 .. Len(text) : ByteLen(Take(text, i)) = off
Before(text, off) == Take(text, CharAt(text, off))
After(text, off)  == Slice(text, CharAt(text, off), Len(text))

Pos(l, c) == [line |-> l, character |-> c]

\* Where line l starts, in characters: the first loop of positionToByteOffset.
LineStart(text, l) ==
  Sets!Min({i \in 0 .. Len(text) : Newlines(Take(text, i)) = l})

\* Mutation of UnitsBetween: columns count characters instead of UTF-16 units.
CharsBetween(text, i, j) == j - i

\* The advance of col over characters i .. j of a line.
UnitsBetween(text, i, j) == UnitLen(Slice(text, i, j))

\* positionToByteOffset: -1 for a position that is not in the text, except the
\* start of the line after a final line end.
positionToByteOffset(text, p) ==
  IF p.line < 0 \/ p.character < 0 THEN -1
  ELSE IF Newlines(text) < p.line
  THEN IF /\ p.line = Newlines(text) + 1 /\ p.character = 0
          /\ text # <<>> /\ text[Len(text)] = "nl"
       THEN ByteLen(text) ELSE -1
  ELSE LET start == LineStart(text, p.line)
           here == {i \in start .. Len(text) :
                      /\ Newlines(Slice(text, start, i)) = 0
                      /\ UnitsBetween(text, start, i) = p.character}
       IN  IF here = {} THEN -1 ELSE ByteLen(Take(text, Sets!Min(here)))

\* byteOffsetToPosition: an offset past the end is the end, and one inside a
\* character is the end of that character.
byteOffsetToPosition(text, off) ==
  LET i     == Sets!Min({Len(text)} \cup
                 {j \in 0 .. Len(text) : ByteLen(Take(text, j)) >= off})
      line  == Newlines(Take(text, i))
  IN  IF off < 0 THEN Pos(0, 0)
      ELSE Pos(line, UnitsBetween(text, LineStart(text, line), i))

\* Mutation of applyRangeEdit: the end of the range is kept.
applyRangeInsert(text, r, new) ==
  LET start == positionToByteOffset(text, r.start)
      end   == positionToByteOffset(text, r.end)
  IN  IF start < 0 \/ end < 0 \/ start > end
      THEN text \o new
      ELSE Before(text, start) \o new \o After(text, start)

\* applyRangeEdit: an edit outside the text is appended to it.
applyRangeEdit(text, r, new) ==
  LET start == positionToByteOffset(text, r.start)
      end   == positionToByteOffset(text, r.end)
  IN  IF start < 0 \/ end < 0 \/ start > end
      THEN text \o new
      ELSE Before(text, start) \o new \o After(text, end)

isIdent(c) == c = "a"

\* The part of a text between two character boundaries, as handlers report it.
Word(text, from, to) ==
  IF from = to THEN [ok |-> FALSE]
  ELSE [ok |-> TRUE, from |-> from, to |-> to,
        start |-> byteOffsetToPosition(text, ByteLen(Take(text, from))),
        end |-> byteOffsetToPosition(text, ByteLen(Take(text, to)))]

\* How far identifier characters extend to the left and to the right of i.
IdentStart(text, i) == Sets!Min({j \in 0 .. i : \A k \in j + 1 .. i : isIdent(text[k])})
IdentEnd(text, i) == Sets!Max({j \in i .. Len(text) : \A k \in i + 1 .. j : isIdent(text[k])})

\* Mutation of IdentAround: the word does not extend to the left.
IdentFrom(text, i) == Word(text, i, IdentEnd(text, i))

IdentAround(text, i) == Word(text, IdentStart(text, i), IdentEnd(text, i))

\* identifierAt: the longest run of identifier characters around the position.
identifierAt(text, p) ==
  LET off == positionToByteOffset(text, p)
  IN  IF off < 0 THEN [ok |-> FALSE] ELSE IdentAround(text, CharAt(text, off))
=============================================================================
