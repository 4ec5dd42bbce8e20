----------------------------- MODULE ScannerProofs -----------------------------
(***************************************************************************)
(* The tokens of a text, for any set of texts: every token is a lexeme,    *)
(* the longest that begins there, at the line and column of its            *)
(* characters; and what lies between two tokens is blanks and comments,    *)
(* unless a line comment meets a CR LF.                                    *)
(***************************************************************************)
EXTENDS Scanner, Induction

-----------------------------------------------------------------------------
(* Characters and places *)

\* A source text.
IsText == src \in Texts

LEMMA TextFacts ==
  ASSUME IsText
  PROVE  /\ Len(src) \in Nat /\ DOMAIN src = 1 .. Len(src)
         /\ \A k \in 1 .. Len(src) : src[k] # "end" /\ Char(k) = src[k]
         /\ \A k \in Nat : k > Len(src) => Char(k) = "end"
<1>1. src \in Seq(STRING \ {"end"})
  BY TextsAssumption DEF IsText
<1>2. \A k \in 1 .. Len(src) : src[k] \in STRING \ {"end"}
  BY <1>1
<1> QED
  BY <1>1, <1>2 DEF Char

LEMMA StartsTwo ==
  ASSUME NEW i \in Nat, NEW a, NEW b
  PROVE  Starts(i, <<a, b>>) <=> Char(i) = a /\ Char(i + 1) = b
<1>1. DOMAIN <<a, b>> = {1, 2} /\ <<a, b>>[1] = a /\ <<a, b>>[2] = b
  OBVIOUS
<1>2. i + 1 - 1 = i /\ i + 2 - 1 = i + 1
  OBVIOUS
<1> QED
  BY <1>1, <1>2 DEF Starts

LEMMA StartsOne ==
  ASSUME NEW i \in Nat, NEW a
  PROVE  Starts(i, <<a>>) <=> Char(i) = a
<1>1. DOMAIN <<a>> = {1} /\ <<a>>[1] = a
  OBVIOUS
<1>2. i + 1 - 1 = i
  OBVIOUS
<1> QED
  BY <1>1, <1>2 DEF Starts

LEMMA StartsThree ==
  ASSUME NEW i \in Nat, NEW a, NEW b, NEW c
  PROVE  Starts(i, <<a, b, c>>) <=> Char(i) = a /\ Char(i + 1) = b /\ Char(i + 2) = c
<1>1. DOMAIN <<a, b, c>> = {1, 2, 3} /\ <<a, b, c>>[1] = a /\ <<a, b, c>>[2] = b /\ <<a, b, c>>[3] = c
  OBVIOUS
<1>2. i + 1 - 1 = i /\ i + 2 - 1 = i + 1 /\ i + 3 - 1 = i + 2
  OBVIOUS
<1> QED
  BY <1>1, <1>2 DEF Starts

\* Past finds the end of a run of characters.
LEMMA PastRun ==
  ASSUME IsText, NEW i \in 1 .. Len(src) + 1, NEW S, "end" \notin S
  PROVE  /\ Past(i, S) \in i .. Len(src) + 1
         /\ Char(Past(i, S)) \notin S
         /\ \A k \in i .. Past(i, S) - 1 : src[k] \in S
<1>0. Len(src) \in Nat /\ Char(Len(src) + 1) = "end" /\ \A k \in 1 .. Len(src) : Char(k) = src[k]
  BY TextFacts
<1> DEFINE Ends == {j \in i .. Len(src) + 1 : Char(j) \notin S}
<1>1. Ends \in SUBSET Nat /\ Ends # {}
  <2>1. Len(src) + 1 \in Ends
    BY <1>0
  <2> QED
    BY <2>1, <1>0
<1>2. PICK j \in Ends : \A k \in Ends : j <= k
  <2> HIDE DEF Ends
  <2> QED
    BY <1>1, LeastOf
<1>3. \A k \in i .. j - 1 : Char(k) \in S
  BY <1>2, <1>0
<1>4. \E m \in i .. Len(src) + 1 : Char(m) \notin S /\ \A k \in i .. m - 1 : src[k] \in S
  BY <1>2, <1>3, <1>0
<1> QED
  BY <1>4 DEF Past

\* Where a run ends is where any run of the same characters from there must end.
LEMMA PastIs ==
  ASSUME IsText, NEW i \in 1 .. Len(src) + 1, NEW S, "end" \notin S,
         NEW j \in i .. Len(src) + 1, Char(j) \notin S, \A k \in i .. j - 1 : src[k] \in S
  PROVE  Past(i, S) = j
<1>0. Len(src) \in Nat /\ \A k \in 1 .. Len(src) : Char(k) = src[k]
  BY TextFacts
<1>1. /\ Past(i, S) \in i .. Len(src) + 1 /\ Char(Past(i, S)) \notin S
      /\ \A k \in i .. Past(i, S) - 1 : src[k] \in S
  BY PastRun
<1>2. ~(Past(i, S) < j)
  BY <1>0, <1>1
<1>3. ~(j < Past(i, S))
  BY <1>0, <1>1
<1> QED
  BY <1>0, <1>1, <1>2, <1>3
-----------------------------------------------------------------------------
(* Lines and columns *)

Position == [off : Nat, line : Nat, col : Nat]
Placed(p) == p.off \in 1 .. Len(src) + 1 /\ p = PlaceOf(p.off)

LEMMA WidthIsNat == ASSUME NEW c PROVE Width(c) \in Nat
  BY DEF Width

LEMMA LineEndsAre ==
  ASSUME IsText
  PROVE  /\ LineEnds \subseteq 1 .. Len(src) /\ IsFiniteSet(LineEnds)
         /\ \A k \in 1 .. Len(src) : k \in LineEnds <=> src[k] = "lf" \/ (src[k] = "cr" /\ Char(k + 1) # "lf")
<1>1. LineEnds \subseteq 1 .. Len(src)
  BY TextFacts DEF LineEnds
<1>2. IsFiniteSet(1 .. Len(src))
  BY FS_Interval, TextFacts
<1> QED
  BY <1>1, <1>2, FS_Subset, TextFacts DEF LineEnds

Before(i) == {k \in LineEnds : k < i}
LastLineEnd(i) == CHOOSE k \in Before(i) \cup {0} : \A m \in Before(i) : m <= k

LEMMA LastLineEndIs ==
  ASSUME IsText, NEW i \in Nat
  PROVE  /\ LastLineEnd(i) \in Before(i) \cup {0}
         /\ \A m \in Before(i) : m <= LastLineEnd(i)
<1>0. Before(i) \subseteq 1 .. Len(src) /\ Len(src) \in Nat
  BY LineEndsAre, TextFacts DEF Before
<1> DEFINE Up == {Len(src) - k : k \in Before(i) \cup {0}}
<1>1. Up \in SUBSET Nat /\ Up # {}
  BY <1>0
<1>2. PICK u \in Up : \A v \in Up : u <= v
  <2> HIDE DEF Up
  <2> QED
    BY <1>1, LeastOf
<1>3. PICK k \in Before(i) \cup {0} : u = Len(src) - k
  BY <1>2
<1>4. \A m \in Before(i) : Len(src) - m \in Up
  OBVIOUS
<1>5. ASSUME NEW m \in Before(i) PROVE m <= k
  <2>1. Len(src) - k <= Len(src) - m
    BY <1>2, <1>3, <1>4
  <2> QED
    BY <2>1, <1>0, <1>3
<1> QED
  BY <1>5 DEF LastLineEnd

\* Bytes(last)[k] counts the bytes from behind last to character k.
Bytes(last) == CHOOSE f : f = [k \in 0 .. Len(src) |-> IF k <= last THEN 0 ELSE f[k - 1] + Width(src[k])]

LEMMA BytesAre ==
  ASSUME IsText, NEW last \in Nat
  PROVE  /\ Bytes(last) \in [0 .. Len(src) -> Nat]
         /\ \A k \in 0 .. Len(src) :
              Bytes(last)[k] = IF k <= last THEN 0 ELSE Bytes(last)[k - 1] + Width(src[k])
<1>0. Len(src) \in Nat
  BY TextFacts
<1> DEFINE step == [k \in 1 .. Len(src) |-> [x \in Nat |-> IF k <= last THEN 0 ELSE x + Width(src[k])]]
<1>1. step \in [1 .. Len(src) -> [Nat -> Nat]]
  BY WidthIsNat
<1>2. PICK f \in [0 .. Len(src) -> Nat] : IsLoop(f, Len(src), 0, step)
  <2> HIDE DEF step
  <2> QED
    BY <1>0, <1>1, LoopExists
<1>3. \A k \in 0 .. Len(src) : f[k] = IF k <= last THEN 0 ELSE f[k - 1] + Width(src[k])
  <2> TAKE k \in 0 .. Len(src)
  <2>1. CASE k = 0
    BY <1>2, <2>1 DEF IsLoop
  <2>2. CASE k # 0
    <3>1. k \in 1 .. Len(src) /\ k - 1 \in 0 .. Len(src) /\ f[k - 1] \in Nat
      BY <1>0, <2>2
    <3>2. f[k] = step[k][f[k - 1]]
      BY <1>2, <3>1 DEF IsLoop
    <3> QED
      BY <3>1, <3>2
  <2> QED
    BY <2>1, <2>2
<1>4. f = [k \in 0 .. Len(src) |-> IF k <= last THEN 0 ELSE f[k - 1] + Width(src[k])]
  BY <1>3
<1> DEFINE g == Bytes(last)
<1>5. g = [k \in 0 .. Len(src) |-> IF k <= last THEN 0 ELSE g[k - 1] + Width(src[k])]
  BY <1>4 DEF Bytes
<1>6. DOMAIN g = 0 .. Len(src)
      /\ \A k \in 0 .. Len(src) : g[k] = IF k <= last THEN 0 ELSE g[k - 1] + Width(src[k])
  <2> HIDE DEF g
  <2> QED
    BY <1>5
<1> DEFINE S == {k \in 0 .. Len(src) : g[k] \in Nat}
<1>7. 0 \in S
  <2> HIDE DEF g
  <2> QED
    BY <1>0, <1>6
<1>8. \A i \in 1 .. Len(src) : i - 1 \in S => i \in S
  <2> HIDE DEF g
  <2> QED
    BY <1>0, <1>6, WidthIsNat
<1>9. 0 .. Len(src) \subseteq S
  <2> HIDE DEF S
  <2> QED
    BY <1>0, <1>7, <1>8, PrefixInduction
<1>10. g \in [0 .. Len(src) -> Nat]
  <2> HIDE DEF g
  <2> QED
    BY <1>5, <1>9
<1> QED
  BY <1>6, <1>10

\* The column is the width of the characters since the last line end.
LEMMA PlaceIs ==
  ASSUME NEW i
  PROVE  PlaceOf(i) = [off |-> i, line |-> 1 + Cardinality(Before(i)), col |-> 1 + Bytes(LastLineEnd(i))[i - 1]]
BY DEF PlaceOf, LastLineEnd, Before, Bytes

LEMMA PlaceTyped ==
  ASSUME IsText, NEW i \in 1 .. Len(src) + 1
  PROVE  PlaceOf(i) \in Position
<1>0. Len(src) \in Nat
  BY TextFacts
<1>1. Before(i) \subseteq LineEnds /\ IsFiniteSet(LineEnds)
  BY LineEndsAre DEF Before
<1>2. Cardinality(Before(i)) \in Nat
  BY <1>1, FS_Subset, FS_CardinalityType
<1>3. LastLineEnd(i) \in Nat
  BY LastLineEndIs, LineEndsAre DEF Before
<1>4. i - 1 \in 0 .. Len(src)
  BY <1>0
<1>5. Bytes(LastLineEnd(i))[i - 1] \in Nat
  BY <1>3, <1>4, BytesAre
<1> QED
  BY <1>0, <1>2, <1>5, PlaceIs DEF Position

LEMMA FirstPlace == IsText => PlaceOf(1) = TextStart
<1> HAVE IsText
<1>0. Len(src) \in Nat
  BY TextFacts
<1>1. Before(1) = {}
  BY LineEndsAre DEF Before
<1>2. LastLineEnd(1) = 0
  BY <1>1, LastLineEndIs
<1>3. Bytes(0)[0] = 0
  BY <1>0, BytesAre
<1> QED
  <2>1. Cardinality(Before(1)) = 0 /\ 1 - 1 = 0
    BY <1>1, FS_EmptySet
  <2>2. PlaceOf(1) = [off |-> 1, line |-> 1 + Cardinality(Before(1)), col |-> 1 + Bytes(LastLineEnd(1))[1 - 1]]
    BY PlaceIs
  <2> QED
    BY <2>1, <2>2, <1>2, <1>3 DEF TextStart

\* Places i and j, with no line end from i to j - 1.
LEMMA SameLine ==
  ASSUME IsText, NEW i \in 1 .. Len(src), i \notin LineEnds
  PROVE  PlaceOf(i + 1) = [PlaceOf(i) EXCEPT !.off = i + 1, !.col = @ + Width(src[i])]
<1>0. Len(src) \in Nat
  BY TextFacts
<1>1. Before(i + 1) = Before(i)
  BY LineEndsAre DEF Before
<1>2. LastLineEnd(i + 1) = LastLineEnd(i)
  BY <1>1 DEF LastLineEnd
<1>3. LastLineEnd(i) \in Nat /\ LastLineEnd(i) < i
  BY LastLineEndIs, LineEndsAre DEF Before
<1>4. Bytes(LastLineEnd(i))[i] = Bytes(LastLineEnd(i))[i - 1] + Width(src[i])
  BY <1>0, <1>3, BytesAre
<1>5. Bytes(LastLineEnd(i))[i - 1] \in Nat /\ Width(src[i]) \in Nat
  <2>1. Bytes(LastLineEnd(i)) \in [0 .. Len(src) -> Nat] /\ i - 1 \in 0 .. Len(src)
    BY <1>0, <1>3, BytesAre
  <2> QED
    BY <2>1, WidthIsNat
<1>6. PlaceOf(i + 1) = [off |-> i + 1, line |-> 1 + Cardinality(Before(i)), col |-> 1 + Bytes(LastLineEnd(i))[i]]
  <2>1. (i + 1) - 1 = i
    OBVIOUS
  <2> QED
    BY <1>1, <1>2, <2>1, PlaceIs
<1>7. PlaceOf(i) = [off |-> i, line |-> 1 + Cardinality(Before(i)), col |-> 1 + Bytes(LastLineEnd(i))[i - 1]]
  BY PlaceIs
<1> DEFINE was == PlaceOf(i)
           is == PlaceOf(i + 1)
<1>8. is.col = was.col + Width(src[i])
  BY <1>4, <1>5, <1>6, <1>7
<1>9. is.off = i + 1 /\ is.line = was.line
  BY <1>6, <1>7
<1>10. is = [off |-> is.off, line |-> is.line, col |-> is.col]
       /\ was = [off |-> was.off, line |-> was.line, col |-> was.col]
  BY <1>6, <1>7
<1> QED
  <2> HIDE DEF was, is
  <2>1. is = [was EXCEPT !.off = i + 1, !.col = @ + Width(src[i])]
    BY <1>8, <1>9, <1>10
  <2> QED
    BY <2>1 DEF was, is

\* k is the only line end from i to j - 1, and the last of these characters.
LEMMA NextLine ==
  ASSUME IsText, NEW i \in 1 .. Len(src), NEW k \in i .. Len(src), k \in LineEnds,
         \A m \in i .. k - 1 : m \notin LineEnds
  PROVE  PlaceOf(k + 1) = [off |-> k + 1, line |-> PlaceOf(i).line + 1, col |-> 1]
<1>0. Len(src) \in Nat
  BY TextFacts
<1>1. Before(k + 1) = Before(i) \cup {k} /\ k \notin Before(i)
  <2>1. \A m \in LineEnds : m \in Nat /\ (m < k + 1 <=> m < i \/ m = k)
    BY <1>0, LineEndsAre
  <2>2. \A m : m \in Before(k + 1) <=> m \in LineEnds /\ m < k + 1
    BY DEF Before
  <2>3. \A m : m \in Before(i) <=> m \in LineEnds /\ m < i
    BY DEF Before
  <2>4. ~(k < i)
    BY <1>0
  <2> QED
    BY <2>1, <2>2, <2>3, <2>4
<1>2. IsFiniteSet(Before(i)) /\ Cardinality(Before(i)) \in Nat
  BY LineEndsAre, FS_Subset, FS_CardinalityType DEF Before
<1>3. Cardinality(Before(k + 1)) = Cardinality(Before(i)) + 1
  BY <1>1, <1>2, FS_AddElement
<1>4. LastLineEnd(k + 1) = k
  <2>1. LastLineEnd(k + 1) \in Before(k + 1) \cup {0} /\ k \in Before(k + 1)
    BY <1>0, <1>1, LastLineEndIs
  <2>2. k <= LastLineEnd(k + 1)
    BY <1>0, <2>1, LastLineEndIs
  <2>3. LastLineEnd(k + 1) \in Nat /\ LastLineEnd(k + 1) < k + 1
    <3>1. \A m \in Before(k + 1) : m \in Nat /\ m < k + 1
      BY LineEndsAre DEF Before
    <3> QED
      BY <2>1, <3>1, <1>0
  <2> QED
    BY <2>2, <2>3
<1>5. Bytes(k)[k] = 0
  BY <1>0, BytesAre
<1>6. PlaceOf(k + 1) = [off |-> k + 1, line |-> 1 + Cardinality(Before(k + 1)), col |-> 1 + Bytes(k)[k]]
  BY <1>0, <1>4, PlaceIs
<1>7. PlaceOf(i).line = 1 + Cardinality(Before(i))
  BY PlaceIs
<1> QED
  BY <1>2, <1>3, <1>5, <1>6, <1>7

\* Consume goes to the place behind the character.
LEMMA ConsumePlaced ==
  ASSUME IsText, NEW p, Placed(p), p.off <= Len(src)
  PROVE  /\ Placed(Consume(p))
         /\ Consume(p).off = Behind(p.off)
<1>0. Len(src) \in Nat /\ p.off \in 1 .. Len(src) /\ Char(p.off) = src[p.off] /\ src[p.off] # "end"
      /\ p = PlaceOf(p.off)
  BY TextFacts DEF Placed
<1>1. Behind(p.off) = p.off + (IF src[p.off] = "cr" /\ Char(p.off + 1) = "lf" THEN 2 ELSE 1)
  BY <1>0, StartsTwo DEF Behind
<1> DEFINE i == p.off
<1>2. p = [off |-> i, line |-> p.line, col |-> p.col]
  BY <1>0, PlaceIs
<1>3. CASE src[i] = "lf"
  <2>1. i \in LineEnds
    BY <1>0, <1>3, LineEndsAre
  <2>2. Consume(p) = [off |-> i + 1, line |-> p.line + 1, col |-> 1]
    BY <1>0, <1>3 DEF Consume
  <2>3. PlaceOf(i + 1) = [off |-> i + 1, line |-> PlaceOf(i).line + 1, col |-> 1]
    BY <1>0, <2>1, NextLine
  <2> QED
    BY <1>0, <1>1, <1>3, <2>2, <2>3 DEF Placed
<1>4. CASE src[i] = "cr" /\ Char(i + 1) = "lf"
  <2>1. i \notin LineEnds /\ i + 1 \in LineEnds /\ i + 1 \in 1 .. Len(src)
    BY <1>0, <1>4, LineEndsAre, TextFacts
  <2>2. Consume(p) = [off |-> i + 2, line |-> p.line + 1, col |-> 1]
    BY <1>0, <1>4 DEF Consume
  <2>3. PlaceOf(i + 2) = [off |-> i + 2, line |-> PlaceOf(i).line + 1, col |-> 1]
    <3>1. i + 1 \in i .. Len(src) /\ (i + 1) + 1 = i + 2 /\ \A m \in i .. (i + 1) - 1 : m = i
      BY <1>0, <2>1
    <3> QED
      BY <1>0, <2>1, <3>1, NextLine
  <2> QED
    BY <1>0, <1>1, <1>4, <2>1, <2>2, <2>3 DEF Placed
<1>5. CASE src[i] = "cr" /\ Char(i + 1) # "lf"
  <2>1. i \in LineEnds
    BY <1>0, <1>5, LineEndsAre
  <2>2. Consume(p) = [off |-> i + 1, line |-> p.line + 1, col |-> 1]
    BY <1>0, <1>5 DEF Consume
  <2>3. PlaceOf(i + 1) = [off |-> i + 1, line |-> PlaceOf(i).line + 1, col |-> 1]
    BY <1>0, <2>1, NextLine
  <2> QED
    BY <1>0, <1>1, <1>5, <2>2, <2>3 DEF Placed
<1>6. CASE src[i] \notin {"lf", "cr"}
  <2>1. i \notin LineEnds
    BY <1>0, <1>6, LineEndsAre
  <2>2. Consume(p) = [p EXCEPT !.off = i + 1, !.col = @ + Width(src[i])]
    BY <1>0, <1>2, <1>6 DEF Consume
  <2>3. PlaceOf(i + 1) = [PlaceOf(i) EXCEPT !.off = i + 1, !.col = @ + Width(src[i])]
    BY <1>0, <2>1, SameLine
  <2>4. Consume(p) = PlaceOf(i + 1)
    BY <1>0, <2>2, <2>3
  <2>5. PlaceOf(i + 1).off = i + 1
    BY PlaceIs
  <2> QED
    BY <1>0, <1>1, <1>6, <2>4, <2>5 DEF Placed
<1> QED
  BY <1>3, <1>4, <1>5, <1>6
\* Consume, of the place of a character.
LEMMA ConsumePlace ==
  ASSUME IsText, NEW k \in 1 .. Len(src)
  PROVE  /\ Consume(PlaceOf(k)) = PlaceOf(Behind(k))
         /\ Behind(k) \in k + 1 .. Len(src) + 1
         /\ Behind(k) = IF Char(k) = "cr" /\ Char(k + 1) = "lf" THEN k + 2 ELSE k + 1
<1>0. Len(src) \in Nat
  BY TextFacts
<1>1. PlaceOf(k).off = k
  BY PlaceIs
<1>2. Placed(PlaceOf(k))
  BY <1>0, <1>1 DEF Placed
<1>3. Placed(Consume(PlaceOf(k))) /\ Consume(PlaceOf(k)).off = Behind(k)
  BY <1>0, <1>1, <1>2, ConsumePlaced
<1>4. Behind(k) = IF Char(k) = "cr" /\ Char(k + 1) = "lf" THEN k + 2 ELSE k + 1
  BY StartsTwo DEF Behind
<1>5. Behind(k) <= Len(src) + 1
  BY <1>3 DEF Placed
<1> QED
  BY <1>0, <1>3, <1>4, <1>5 DEF Placed

\* Walk goes to i, unless i is inside a CR LF.
LEMMA WalkReaches ==
  ASSUME IsText, NEW p, Placed(p), NEW i \in p.off .. Len(src) + 1,
         i > p.off => ~(Char(i - 1) = "cr" /\ Char(i) = "lf")
  PROVE  Walk(p, i) = PlaceOf(i)
<1>0. Len(src) \in Nat /\ p.off \in 1 .. Len(src) + 1 /\ p = PlaceOf(p.off) /\ i \in 1 .. Len(src) + 1
  BY TextFacts DEF Placed
<1>1. \A k : PlaceOf(k).off = k
  BY PlaceIs
<1> DEFINE V == {PlaceOf(k) : k \in 1 .. Len(src) + 1}
           turn == [x \in V |-> IF x.off >= i THEN x ELSE Consume(x)]
           step == [n \in 1 .. Len(src) |-> turn]
<1>2. step \in [1 .. Len(src) -> [V -> V]]
  <2>1. ASSUME NEW k \in 1 .. Len(src) + 1, k < i PROVE Consume(PlaceOf(k)) \in V
    <3>1. k \in 1 .. Len(src)
      BY <1>0, <2>1
    <3>2. Consume(PlaceOf(k)) = PlaceOf(Behind(k)) /\ Behind(k) \in 1 .. Len(src) + 1
      BY <1>0, <3>1, ConsumePlace
    <3> QED
      BY <3>2
  <2>2. \A x \in V : (IF x.off >= i THEN x ELSE Consume(x)) \in V
    <3> TAKE x \in V
    <3>1. PICK k \in 1 .. Len(src) + 1 : x = PlaceOf(k)
      OBVIOUS
    <3> HIDE DEF V
    <3> QED
      BY <1>0, <1>1, <2>1, <3>1
  <2> HIDE DEF V
  <2> QED
    BY <2>2
<1>3. PICK f \in [0 .. Len(src) -> V] : IsLoop(f, Len(src), p, step)
  <2>1. p \in V
    BY <1>0
  <2> HIDE DEF step, V
  <2> QED
    BY <1>0, <1>2, <2>1, LoopExists
<1>4. f = [n \in 0 .. Len(src) |->
             IF n = 0 THEN p ELSE IF f[n - 1].off >= i THEN f[n - 1] ELSE Consume(f[n - 1])]
  <2>1. \A n \in 1 .. Len(src) : f[n] = step[n][f[n - 1]] /\ f[n - 1] \in V
    <3> HIDE DEF V, step
    <3> QED
      BY <1>0, <1>3 DEF IsLoop
  <2>2. \A n \in 1 .. Len(src) : f[n] = IF f[n - 1].off >= i THEN f[n - 1] ELSE Consume(f[n - 1])
    <3> HIDE DEF V
    <3> QED
      BY <2>1
  <2>3. f[0] = p
    BY <1>3 DEF IsLoop
  <2>4. \A n \in 0 .. Len(src) : n # 0 => n \in 1 .. Len(src)
    OBVIOUS
  <2> HIDE DEF V, step
  <2> QED
    BY <2>2, <2>3, <2>4
<1> DEFINE g == CHOOSE h : h = [n \in 0 .. Len(src) |->
             IF n = 0 THEN p ELSE IF h[n - 1].off >= i THEN h[n - 1] ELSE Consume(h[n - 1])]
<1>5. g = [n \in 0 .. Len(src) |->
             IF n = 0 THEN p ELSE IF g[n - 1].off >= i THEN g[n - 1] ELSE Consume(g[n - 1])]
  BY <1>4
<1>6. Walk(p, i) = g[Len(src)]
  BY DEF Walk
<1> DEFINE Good == {n \in 0 .. Len(src) : \E k \in p.off .. i : g[n] = PlaceOf(k) /\ (k = i \/ k >= p.off + n)}
<1> HIDE DEF g, V, turn, step
<1>7. 0 \in Good
  <2>1. g[0] = p
    BY <1>0, <1>5
  <2> QED
    BY <1>0, <2>1
<1>8. ASSUME NEW n \in 1 .. Len(src), n - 1 \in Good PROVE n \in Good
  <2>1. PICK k \in p.off .. i : g[n - 1] = PlaceOf(k) /\ (k = i \/ k >= p.off + (n - 1))
    BY <1>8
  <2>2. g[n] = IF g[n - 1].off >= i THEN g[n - 1] ELSE Consume(g[n - 1])
    BY <1>0, <1>5
  <2>3. CASE k = i
    <3>1. g[n] = PlaceOf(k)
      BY <1>0, <1>1, <2>1, <2>2, <2>3
    <3> QED
      BY <3>1, <2>3
  <2>4. CASE k # i
    <3>1. k < i /\ k \in 1 .. Len(src)
      BY <1>0, <2>4
    <3>2. g[n] = PlaceOf(Behind(k))
      BY <1>0, <1>1, <2>1, <2>2, <3>1, ConsumePlace
    <3>3. Behind(k) \in k + 1 .. i
      <4>1. Behind(k) = IF Char(k) = "cr" /\ Char(k + 1) = "lf" THEN k + 2 ELSE k + 1
        BY <3>1, ConsumePlace
      <4>2. i = k + 1 => i - 1 = k /\ i > p.off
        BY <1>0, <3>1
      <4> QED
        BY <1>0, <3>1, <4>1, <4>2
    <3>4. Behind(k) >= p.off + n /\ Behind(k) \in p.off .. i
      BY <1>0, <2>1, <2>4, <3>1, <3>3
    <3> QED
      BY <3>2, <3>4
  <2> QED
    BY <2>3, <2>4
<1>9. 0 .. Len(src) \subseteq Good
  <2> HIDE DEF Good
  <2> QED
    BY <1>0, <1>7, <1>8, PrefixInduction
<1>10. PICK k \in p.off .. i : g[Len(src)] = PlaceOf(k) /\ (k = i \/ k >= p.off + Len(src))
  <2>1. Len(src) \in Good
    BY <1>0, <1>9
  <2> QED
    BY <2>1
<1> QED
  BY <1>0, <1>6, <1>10
-----------------------------------------------------------------------------
(* One piece of text after another *)

LEMMA MadeOfNothing == ASSUME NEW i \in Nat, NEW P PROVE MadeOf(i, i, P)
BY DEF MadeOf

\* Only the pieces between the ends count.
LEMMA MadeOfMore ==
  ASSUME NEW i \in Nat, NEW j \in Nat, NEW P, NEW Q, MadeOf(i, j, P),
         \A p \in P : i <= p[1] /\ p[2] <= j => p \in Q
  PROVE  MadeOf(i, j, Q)
<1> SUFFICES ASSUME NEW S \in SUBSET (i .. j), i \in S, \A p \in Q : p[1] \in S /\ p[2] <= j => p[2] \in S
             PROVE  j \in S
  BY DEF MadeOf
<1>1. ASSUME NEW p \in P, p[1] \in S, p[2] <= j PROVE p[2] \in S
  <2>0. p[1] \in i .. j
    BY <1>1
  <2>1. i <= p[1]
    BY <2>0
  <2>2. p \in Q
    BY <1>1, <2>1
  <2> QED
    BY <1>1, <2>2
<1> QED
  BY <1>1 DEF MadeOf

LEMMA MadeOfBoth ==
  ASSUME NEW i \in Nat, NEW j \in Nat, NEW k \in Nat, NEW P, MadeOf(i, j, P), MadeOf(j, k, P),
         \A p \in P : p[1] \in Nat /\ p[2] \in Nat /\ p[1] < p[2]
  PROVE  MadeOf(i, k, P)
<1>1. i <= j /\ j <= k
  BY DEF MadeOf
<1> SUFFICES ASSUME NEW S \in SUBSET (i .. k), i \in S, \A p \in P : p[1] \in S /\ p[2] <= k => p[2] \in S
             PROVE  k \in S
  BY <1>1 DEF MadeOf
<1>2. j \in S
  <2> DEFINE T == S \cap (i .. j)
  <2>1. T \in SUBSET (i .. j) /\ i \in T
    BY <1>1
  <2>2. \A p \in P : p[1] \in T /\ p[2] <= j => p[2] \in T
    BY <1>1
  <2>3. j \in T
    <3> HIDE DEF T
    <3> QED
      BY <2>1, <2>2 DEF MadeOf
  <2> QED
    BY <2>3
<1>3. k \in S
  <2> DEFINE T == S \cap (j .. k)
  <2>1. T \in SUBSET (j .. k) /\ j \in T
    BY <1>1, <1>2
  <2>2. \A p \in P : p[1] \in T /\ p[2] <= k => p[2] \in T
    BY <1>1
  <2>3. k \in T
    <3> HIDE DEF T
    <3> QED
      BY <2>1, <2>2 DEF MadeOf
  <2> QED
    BY <2>3
<1> QED
  BY <1>3

LEMMA MadeOfOne ==
  ASSUME NEW i \in Nat, NEW j \in Nat, NEW P, <<i, j>> \in P, i < j
  PROVE  MadeOf(i, j, P)
<1> SUFFICES ASSUME NEW S \in SUBSET (i .. j), i \in S, \A p \in P : p[1] \in S /\ p[2] <= j => p[2] \in S
             PROVE  j \in S
  BY DEF MadeOf
<1>1. <<i, j>>[1] = i /\ <<i, j>>[2] = j
  OBVIOUS
<1> QED
  BY <1>1

\* The piece at i is the only one: all goes on behind it.
LEMMA MadeOfSkip ==
  ASSUME NEW i \in Nat, NEW j \in Nat, NEW k \in Nat, NEW P, MadeOf(i, j, P), i < j, i < k,
         \A p \in P : p[1] \in Nat /\ p[2] \in Nat /\ p[1] < p[2],
         \A p \in P : p[1] = i => p[2] = k
  PROVE  MadeOf(k, j, P)
<1>1. k <= j
  <2> SUFFICES ASSUME k > j PROVE FALSE
    OBVIOUS
  <2>1. \A p \in P : p[1] \in {i} /\ p[2] <= j => p[2] \in {i}
    OBVIOUS
  <2>2. {i} \in SUBSET (i .. j)
    OBVIOUS
  <2>3. j \in {i}
    BY <2>1, <2>2 DEF MadeOf
  <2> QED
    BY <2>3
<1> SUFFICES ASSUME NEW S \in SUBSET (k .. j), k \in S, \A p \in P : p[1] \in S /\ p[2] <= j => p[2] \in S
             PROVE  j \in S
  BY <1>1 DEF MadeOf
<1> DEFINE T == S \cup {i}
<1>2. T \in SUBSET (i .. j) /\ i \in T
  BY <1>1
<1>3. \A p \in P : p[1] \in T /\ p[2] <= j => p[2] \in T
  OBVIOUS
<1>4. j \in T
  <2> HIDE DEF T
  <2> QED
    BY <1>2, <1>3 DEF MadeOf
<1> QED
  BY <1>4

\* No piece begins at i.
LEMMA MadeOfEnds ==
  ASSUME NEW i \in Nat, NEW j \in Nat, NEW P, MadeOf(i, j, P), \A p \in P : p[1] # i
  PROVE  j = i
<1>1. {i} \in SUBSET (i .. j)
  BY DEF MadeOf
<1>2. j \in {i}
  BY <1>1 DEF MadeOf
<1> QED
  BY <1>2
-----------------------------------------------------------------------------
(* Lexemes *)

PunctChars == {"(", ")", "lbrace", "rbrace", "comma", "#", ".", "?", "-", "=", "<", ">", "*", "/", "&"}
Heads == <<"(", ")", "lbrace", "rbrace", "comma", "#", ".", ".", ".", "?", "?", "-", "-", "-", "=", "=", "=",
           "<", "<", "<", "<", ">", ">", ">", ">", "*", "*", "/", "/", "&", "&", "&">>
Sizes == <<1, 1, 1, 1, 1, 1, 3, 2, 1, 2, 1, 2, 2, 1, 2, 2, 1, 3, 2, 2, 1, 3, 2, 2, 1, 2, 1, 2, 1, 2, 2, 1>>
Spelt(n) == Spellings[n] \in Seq(PunctChars) /\ Len(Spellings[n]) = Sizes[n] /\ Sizes[n] \in 1 .. 3

LEMMA SpellingCount == DOMAIN Spellings = 1 .. 32
BY DEF Spellings

LEMMA AllSpelt == \A n \in 1 .. 32 : Spelt(n)
<1>1. /\ Spelt(1) /\ Spelt(2) /\ Spelt(3) /\ Spelt(4) /\ Spelt(5) /\ Spelt(6) /\ Spelt(7) /\ Spelt(8)
      /\ Spelt(9) /\ Spelt(10) /\ Spelt(11) /\ Spelt(12) /\ Spelt(13) /\ Spelt(14) /\ Spelt(15) /\ Spelt(16)
      /\ Spelt(17) /\ Spelt(18) /\ Spelt(19) /\ Spelt(20) /\ Spelt(21) /\ Spelt(22) /\ Spelt(23) /\ Spelt(24)
      /\ Spelt(25) /\ Spelt(26) /\ Spelt(27) /\ Spelt(28) /\ Spelt(29) /\ Spelt(30) /\ Spelt(31) /\ Spelt(32)
  BY DEF Spellings, Sizes, Spelt, PunctChars
<1> QED
  BY <1>1

LEMMA SizesAreInts == \A n \in 1 .. 32 : Sizes[n] \in Int
BY DEF Sizes

\* Of two spellings that begin alike the longer one is tried first.
LEMMA LongestFirst == \A n, m \in 1 .. 32 : n < m /\ Heads[n] = Heads[m] => Sizes[n] >= Sizes[m]
BY DEF Heads, Sizes

LEMMA MatchesAre ==
  ASSUME NEW i
  PROVE  \A n : n \in Matches(i) <=> n \in 1 .. 32 /\ Starts(i, Spellings[n])
BY SpellingCount, Zenon DEF Matches

LEMMA PunctIs ==
  ASSUME NEW i, NEW j
  PROVE  IsLexeme("punct", i, j) <=> \E n \in 1 .. 32 : Starts(i, Spellings[n]) /\ j = i + Len(Spellings[n])
<1>1. IsLexeme("punct", i, j) <=> \E n \in DOMAIN Spellings : Starts(i, Spellings[n]) /\ j = i + Len(Spellings[n])
  BY DEF IsLexeme
<1> QED
  BY <1>1, SpellingCount, Zenon

LEMMA SpellingIs ==
  ASSUME NEW n \in 1 .. 32
  PROVE  /\ Spellings[n] \in Seq(PunctChars) /\ Len(Spellings[n]) = Sizes[n] /\ Sizes[n] \in 1 .. 3
         /\ DOMAIN Spellings[n] = 1 .. Sizes[n]
         /\ Heads[n] \in PunctChars
         /\ \A i \in Nat : Starts(i, Spellings[n]) => Char(i) = Heads[n]
<1>1. Spellings[n] \in Seq(PunctChars) /\ Len(Spellings[n]) = Sizes[n] /\ Sizes[n] \in 1 .. 3
  BY AllSpelt DEF Spelt
<1>2. DOMAIN Spellings[n] = 1 .. Sizes[n]
  BY <1>1
<1>3. \A m \in 1 .. 32 : Spellings[m][1] = Heads[m]
  BY DEF Spellings, Heads
<1>4. \A m \in 1 .. 32 : Heads[m] \in PunctChars
  BY DEF Heads, PunctChars
<1>5. ASSUME NEW i \in Nat, Starts(i, Spellings[n]) PROVE Char(i) = Heads[n]
  <2>1. 1 \in DOMAIN Spellings[n]
    BY <1>1, <1>2
  <2>2. Char(i + 1 - 1) = Spellings[n][1]
    BY <1>5, <2>1 DEF Starts
  <2>3. i + 1 - 1 = i
    OBVIOUS
  <2> QED
    BY <1>3, <2>2, <2>3
<1> QED
  BY <1>1, <1>2, <1>4, <1>5

\* j is the end of the longest lexeme at i.
Longest(kind, i, j) ==
  /\ kind \in LexemeKinds /\ j \in i + 1 .. Len(src) + 1 /\ IsLexeme(kind, i, j)
  /\ \A k \in LexemeKinds, m \in j + 1 .. Len(src) + 1 : ~IsLexeme(k, i, m)

\* How the lexemes of each kind begin.
LEMMA LexemeBegins ==
  ASSUME IsText, NEW i \in 1 .. Len(src), NEW m \in i + 1 .. Len(src) + 1, NEW kind \in LexemeKinds,
         IsLexeme(kind, i, m)
  PROVE  /\ kind = "ident" => IsIdent(i, m) /\ src[i] \in IdentStartChars
         /\ kind = "string" => IsString(i, m) /\ src[i] = "quote"
         /\ kind = "cstring" => src[i] = "c" /\ IsString(i + 1, m) /\ Char(i + 1) = "quote"
         /\ kind = "raw" => IsRaw(i, m) /\ src[i] = "r"
         /\ kind = "char" => IsChar(i, m) /\ src[i] = "tick"
         /\ kind = "int" => IsInt(i, m) /\ src[i] \in Digits
         /\ kind = "float" => IsFloat(i, m) /\ src[i] \in Digits
         /\ kind = "punct" => src[i] \in PunctChars
<1>0. Len(src) \in Nat /\ \A k \in 1 .. Len(src) : Char(k) = src[k]
  BY TextFacts
<1>1. kind = "ident" => IsIdent(i, m) /\ src[i] \in IdentStartChars
  BY DEF IsLexeme, IsIdent
<1>2. kind = "string" => IsString(i, m) /\ src[i] = "quote"
  BY DEF IsLexeme, IsString
<1>3. kind = "cstring" => src[i] = "c" /\ IsString(i + 1, m) /\ Char(i + 1) = "quote"
  <2> SUFFICES ASSUME kind = "cstring" PROVE src[i] = "c" /\ IsString(i + 1, m) /\ Char(i + 1) = "quote"
    OBVIOUS
  <2>1. Starts(i, <<"c">>) /\ IsString(i + 1, m)
    BY DEF IsLexeme
  <2>2. i + 1 \in 1 .. Len(src) /\ src[i + 1] = "quote"
    BY <1>0, <2>1 DEF IsString
  <2> QED
    BY <1>0, <2>1, <2>2, StartsOne
<1>4. kind = "raw" => IsRaw(i, m) /\ src[i] = "r"
  BY DEF IsLexeme, IsRaw
<1>5. kind = "char" => IsChar(i, m) /\ src[i] = "tick"
  BY DEF IsLexeme, IsChar
<1>6. kind = "int" => IsInt(i, m) /\ src[i] \in Digits
  BY DEF IsLexeme, IsInt
<1>7. kind = "float" => IsFloat(i, m) /\ src[i] \in Digits
  BY DEF IsLexeme, IsFloat
<1>8. kind = "punct" => src[i] \in PunctChars
  <2> SUFFICES ASSUME kind = "punct" PROVE src[i] \in PunctChars
    OBVIOUS
  <2>1. PICK n \in 1 .. 32 : Starts(i, Spellings[n])
    BY PunctIs
  <2>2. Char(i) = Heads[n] /\ Heads[n] \in PunctChars
    <3>1. i \in Nat
      OBVIOUS
    <3> QED
      BY <2>1, <3>1, SpellingIs, Zenon
  <2> QED
    BY <1>0, <2>2
<1> QED
  BY <1>1, <1>2, <1>3, <1>4, <1>5, <1>6, <1>7, <1>8

\* An operator or a bracket.
LEMMA PunctIsLongest ==
  ASSUME IsText, NEW i \in 1 .. Len(src), Matches(i) # {},
         NEW n, n = CHOOSE m \in Matches(i) : \A k \in Matches(i) : m <= k
  PROVE  /\ Longest("punct", i, i + Len(Spellings[n]))
         /\ Char(i + Len(Spellings[n]) - 1) # "cr"
<1>0. Len(src) \in Nat /\ \A k \in 1 .. Len(src) : Char(k) = src[k]
  BY TextFacts
<1>1. Matches(i) \in SUBSET Nat
  <2>1. \A m \in Matches(i) : m \in 1 .. 32
    BY MatchesAre, Zenon
  <2>2. \A m \in 1 .. 32 : m \in Nat
    OBVIOUS
  <2>3. \A m \in Matches(i) : m \in Nat
    BY <2>1, <2>2, Zenon
  <2> QED
    BY <2>3, Zenon
<1>2. n \in Matches(i) /\ \A k \in Matches(i) : n <= k
  <2>1. \E m \in Matches(i) : \A k \in Matches(i) : m <= k
    BY <1>1, LeastOf
  <2> QED
    BY <2>1
<1>3. n \in 1 .. 32 /\ Starts(i, Spellings[n])
  BY <1>2, MatchesAre, Zenon
<1> DEFINE s == Spellings[n]
           l == Len(s)
<1>4. l = Sizes[n] /\ l \in 1 .. 3 /\ DOMAIN s = 1 .. l /\ s \in Seq(PunctChars)
  BY <1>3, SpellingIs
<1>5. Char(i + l - 1) \in PunctChars
  <2>1. l \in DOMAIN s /\ Starts(i, s)
    BY <1>3, <1>4
  <2> HIDE DEF l, s
  <2>2. Char(i + l - 1) = s[l]
    BY <2>1 DEF Starts
  <2>3. s[l] \in PunctChars
    BY <1>4
  <2> QED
    BY <2>2, <2>3
<1>6. i + l - 1 <= Len(src) /\ Char(i + l - 1) # "cr"
  <2> HIDE DEF l, s
  <2>1. i + l - 1 > Len(src) => Char(i + l - 1) = "end"
    BY <1>0, <1>4 DEF Char
  <2>2. "end" \notin PunctChars /\ "cr" \notin PunctChars
    BY DEF PunctChars
  <2> QED
    BY <1>0, <1>4, <1>5, <2>1, <2>2
<1>7. IsLexeme("punct", i, i + l)
  BY <1>3, PunctIs, Zenon
<1>8. src[i] = Heads[n] /\ src[i] \in PunctChars
  <2>1. i \in Nat /\ Char(i) = src[i]
    BY <1>0
  <2>2. Char(i) = Heads[n] /\ Heads[n] \in PunctChars
    BY <2>1, <1>3, SpellingIs, Zenon
  <2> QED
    BY <2>1, <2>2
<1>9. ASSUME NEW k \in LexemeKinds, NEW j \in i + l + 1 .. Len(src) + 1, IsLexeme(k, i, j) PROVE FALSE
  <2>1. j \in i + 1 .. Len(src) + 1
    <3> HIDE DEF l
    <3> QED
      BY <1>0, <1>4
  <2>2. k = "punct"
    BY <1>8, <1>9, <2>1, LexemeBegins DEF LexemeKinds, PunctChars, IdentStartChars, LetterChars, Digits
  <2>3. PICK m \in 1 .. 32 : Starts(i, Spellings[m]) /\ j = i + Len(Spellings[m])
    BY <1>9, <2>2, PunctIs
  <2>4. m \in Matches(i)
    BY <2>3, MatchesAre, Zenon
  <2>5. Len(Spellings[m]) = Sizes[m] /\ Sizes[m] \in 1 .. 3
    BY SpellingIs
  <2>6. Heads[m] = Heads[n]
    <3>1. i \in Nat /\ Char(i) = src[i]
      BY <1>0
    <3>2. Char(i) = Heads[m]
      BY <2>3, <3>1, SpellingIs, Zenon
    <3> QED
      BY <1>8, <3>1, <3>2
  <2>7. Sizes[m] > Sizes[n]
    <3> HIDE DEF l
    <3> QED
      BY <1>4, <2>3, <2>5
  <2>8. n <= m
    BY <1>2, <2>4
  <2>9. n < m
    <3>1. \A a \in 1 .. 32, b \in 1 .. 32 : a <= b /\ a # b => a < b
      OBVIOUS
    <3>2. Sizes[n] \in Int
      BY <1>3, SizesAreInts, Zenon
    <3>3. n # m
      <4>1. \A a \in Int : ~(a > a)
        OBVIOUS
      <4> QED
        BY <2>7, <3>2, <4>1, Zenon
    <3> QED
      BY <1>3, <2>8, <3>1, <3>3, Zenon
  <2>10. Sizes[n] >= Sizes[m]
    BY <1>3, <2>6, <2>9, LongestFirst
  <2>11. Sizes[n] \in Int
    BY <1>3, SizesAreInts, Zenon
  <2> QED
    BY <2>5, <2>7, <2>10, <2>11
<1>10. i + l \in i + 1 .. Len(src) + 1
  <2> HIDE DEF l
  <2> QED
    BY <1>0, <1>4, <1>6
<1> QED
  <2>1. "punct" \in LexemeKinds
    BY DEF LexemeKinds
  <2>2. \A k \in LexemeKinds, m \in i + l + 1 .. Len(src) + 1 : ~IsLexeme(k, i, m)
    BY <1>9
  <2> HIDE DEF l
  <2>3. Longest("punct", i, i + l)
    BY <2>1, <2>2, <1>7, <1>10 DEF Longest
  <2> QED
    BY <2>3, <1>6 DEF l
\* The `#'s of a raw string are those up to its quote.
LEMMA RawOpens ==
  ASSUME IsText, NEW i \in 1 .. Len(src), NEW m \in i + 1 .. Len(src) + 1, IsRaw(i, m)
  PROVE  LET q == Past(i + 1, {"#"})
             n == q - i - 1
         IN  /\ q \in i + 1 .. Len(src) /\ Char(q) = "quote"
             /\ n \in 0 .. m - i
             /\ q < m - n - 1
             /\ Char(m - n - 1) = "quote" /\ HashesMatchAt(m - n, n)
             /\ \A k \in q + 1 .. m - n - 2 : ~(Char(k) = "quote" /\ HashesMatchAt(k + 1, n))
<1>0. Len(src) \in Nat /\ \A k \in 1 .. Len(src) : Char(k) = src[k]
  BY TextFacts
<1>1. PICK n \in 0 .. m - i :
         LET Closes(k) == src[k] = "quote" /\ k + n < m /\ All(k + 1, k + n + 1, {"#"})
         IN  /\ i + n + 1 < m - n - 1 /\ All(i + 1, i + n + 1, {"#"}) /\ src[i + n + 1] = "quote"
             /\ Closes(m - n - 1) /\ \A k \in i + n + 2 .. m - n - 2 : ~Closes(k)
  BY DEF IsRaw
<1> DEFINE q == i + n + 1
           last == m - n - 1
<1>2. n \in Nat /\ q \in i + 1 .. Len(src) /\ last \in q + 1 .. Len(src)
  BY <1>0, <1>1
<1>3. \A k \in i + 1 .. q - 1 : src[k] = "#"
  BY <1>1, <1>2 DEF All
<1>4. Char(q) = "quote"
  BY <1>0, <1>1, <1>2
<1>5. Past(i + 1, {"#"}) = q
  <2>1. Char(q) \notin {"#"} /\ "end" \notin {"#"} /\ i + 1 \in 1 .. Len(src) + 1 /\ q \in i + 1 .. Len(src) + 1
    BY <1>0, <1>2, <1>4
  <2> HIDE DEF q
  <2> QED
    BY <1>3, <2>1, PastIs
<1>6. Char(last) = "quote"
  BY <1>0, <1>1, <1>2
<1>7. \A k \in Nat : k \in q + 1 .. last => (All(k + 1, k + n + 1, {"#"}) <=> HashesMatchAt(k + 1, n))
  <2> SUFFICES ASSUME NEW k \in Nat, k \in q + 1 .. last
               PROVE  All(k + 1, k + n + 1, {"#"}) <=> HashesMatchAt(k + 1, n)
    OBVIOUS
  <2>1. k + 1 + n - 1 = k + n + 1 - 1 /\ \A l \in k + 1 .. k + n + 1 - 1 : l \in 1 .. Len(src)
    BY <1>0, <1>2
  <2> QED
    BY <1>0, <2>1 DEF All, HashesMatchAt
<1>8. HashesMatchAt(m - n, n)
  <2>1. last \in Nat /\ last \in q + 1 .. last /\ last + 1 = m - n
    BY <1>0, <1>2
  <2>2. All(last + 1, last + n + 1, {"#"})
    BY <1>1
  <2> HIDE DEF q, last
  <2> QED
    BY <1>7, <2>1, <2>2
<1>9. ASSUME NEW k \in q + 1 .. last - 1, Char(k) = "quote", HashesMatchAt(k + 1, n) PROVE FALSE
  <2>1. k \in Nat /\ k \in q + 1 .. last /\ k \in 1 .. Len(src) /\ k + n < m
    BY <1>0, <1>2
  <2>2. All(k + 1, k + n + 1, {"#"})
    BY <1>7, <1>9, <2>1
  <2>3. k \in i + n + 2 .. m - n - 2
    BY <1>2
  <2> QED
    BY <1>0, <1>1, <1>9, <2>1, <2>2, <2>3
<1>10. q - i - 1 = n /\ last - 1 = m - n - 2 /\ n \in 0 .. m - i /\ q < m - n - 1
  BY <1>0, <1>2
<1> QED
  <2> HIDE DEF q
  <2> QED
    BY <1>2, <1>4, <1>5, <1>6, <1>8, <1>9, <1>10

\* The first quote with as many `#'s behind it closes a raw string.
LEMMA RawIsLongest ==
  ASSUME IsText, NEW i \in 1 .. Len(src), Char(i) = "r",
         NEW n \in Nat, Past(i + 1, {"#"}) = i + n + 1, Char(i + n + 1) = "quote",
         NEW c \in i + n + 2 .. Len(src), Char(c) = "quote", HashesMatchAt(c + 1, n),
         \A k \in i + n + 2 .. c - 1 : ~(Char(k) = "quote" /\ HashesMatchAt(k + 1, n))
  PROVE  /\ Longest("raw", i, c + 1 + n)
         /\ Char(c + n) # "cr"
<1>0. Len(src) \in Nat /\ (\A k \in 1 .. Len(src) : Char(k) = src[k])
      /\ \A k \in Nat : k > Len(src) => Char(k) = "end"
  BY TextFacts
<1> DEFINE q == i + n + 1
           j == c + 1 + n
<1>1. \A k \in c + 1 .. c + n : Char(k) = "#"
  <2>1. c + 1 + n - 1 = c + n
    BY <1>0
  <2> QED
    BY <2>1 DEF HashesMatchAt
<1>2. j \in i + 1 .. Len(src) + 1 /\ n <= j - i /\ c \in 1 .. Len(src) /\ q \in 1 .. Len(src)
  <2>1. c + n > Len(src) => c + n \in c + 1 .. c + n /\ c + n \in Nat
    BY <1>0
  <2> QED
    BY <1>0, <1>1, <2>1
<1>3. Char(c + n) # "cr"
  <2>1. n = 0 => c + n = c
    BY <1>2
  <2>2. n # 0 => c + n \in c + 1 .. c + n
    BY <1>2
  <2> QED
    BY <1>1, <2>1, <2>2
<1>4. \A k \in i + 1 .. q - 1 : src[k] = "#"
  <2>1. i + 1 \in 1 .. Len(src) + 1 /\ "end" \notin {"#"}
    BY <1>0
  <2>2. \A k \in i + 1 .. q - 1 : src[k] \in {"#"}
    BY <2>1, PastRun
  <2> QED
    BY <2>2
<1>5. IsRaw(i, j)
  <2>1. j - n - 1 = c /\ i + n + 1 < c /\ n \in 0 .. j - i /\ i < j /\ src[i] = "r" /\ c + n < j
    BY <1>0, <1>2
  <2>2. All(i + 1, i + n + 1, {"#"}) /\ src[i + n + 1] = "quote"
    BY <1>0, <1>2, <1>4 DEF All
  <2>3. All(c + 1, c + n + 1, {"#"}) /\ src[c] = "quote"
    BY <1>0, <1>1, <1>2 DEF All
  <2>4. ASSUME NEW k \in i + n + 2 .. c - 1, src[k] = "quote", k + n < j, All(k + 1, k + n + 1, {"#"}) PROVE FALSE
    <3>1. k \in 1 .. Len(src) /\ k + 1 + n - 1 = k + n + 1 - 1 /\ \A l \in k + 1 .. k + n + 1 - 1 : l \in 1 .. Len(src)
      BY <1>0, <1>2, <2>4
    <3>2. HashesMatchAt(k + 1, n)
      BY <1>0, <2>4, <3>1 DEF All, HashesMatchAt
    <3> QED
      BY <1>0, <2>4, <3>1, <3>2
  <2>5. c - 1 = j - n - 2
    BY <1>2
  <2> HIDE DEF j
  <2> QED
    BY <2>1, <2>2, <2>3, <2>4, <2>5 DEF IsRaw
<1>6. ASSUME NEW k \in LexemeKinds, NEW m \in j + 1 .. Len(src) + 1, IsLexeme(k, i, m) PROVE FALSE
  <2>1. m \in i + 1 .. Len(src) + 1
    BY <1>0, <1>2
  <2>2. src[i] = "r"
    BY <1>0
  <2>3. k \in {"ident", "raw"}
    BY <1>6, <2>1, <2>2, LexemeBegins DEF LexemeKinds, PunctChars, Digits
  <2>4. CASE k = "ident"
    <3>1. IsIdent(i, m)
      BY <1>6, <2>1, <2>4, LexemeBegins
    <3>2. q \in i .. m - 1 /\ src[q] = "quote"
      BY <1>0, <1>2
    <3>3. src[q] \in IdentContinueChars
      BY <3>1, <3>2 DEF IsIdent, All
    <3> QED
      BY <3>2, <3>3 DEF IdentContinueChars, IdentStartChars, LetterChars, Digits
  <2>5. CASE k = "raw"
    <3>1. IsRaw(i, m)
      BY <1>6, <2>1, <2>5, LexemeBegins
    <3>2. q - i - 1 = n
      BY <1>2
    <3>3. \A l \in q + 1 .. m - n - 2 : ~(Char(l) = "quote" /\ HashesMatchAt(l + 1, n))
      <4> HIDE DEF q
      <4>1. Past(i + 1, {"#"}) = q
        BY DEF q
      <4> QED
        BY <2>1, <3>1, <3>2, <4>1, RawOpens
    <3>4. c \in q + 1 .. m - n - 2
      BY <1>2
    <3> QED
      BY <3>3, <3>4
  <2> QED
    BY <2>3, <2>4, <2>5
<1>7. "raw" \in LexemeKinds /\ IsLexeme("raw", i, j)
  BY <1>5 DEF LexemeKinds, IsLexeme
<1> QED
  <2>1. Longest("raw", i, j)
    <3> HIDE DEF j
    <3> QED
      BY <1>2, <1>6, <1>7 DEF Longest
  <2> QED
    BY <1>3, <2>1

\* Where a run of characters ends is where any run of them from there must end.
LEMMA IdentIsLongest ==
  ASSUME IsText, NEW i \in 1 .. Len(src), Char(i) \in IdentStartChars,
         Char(i) = "r" => Char(Past(i + 1, {"#"})) # "quote",
         Char(i) = "c" => Char(i + 1) # "quote"
  PROVE  /\ Longest("ident", i, Past(i, IdentContinueChars))
         /\ Char(Past(i, IdentContinueChars) - 1) # "cr"
<1>0. Len(src) \in Nat /\ \A k \in 1 .. Len(src) : Char(k) = src[k]
  BY TextFacts
<1> DEFINE j == Past(i, IdentContinueChars)
<1>1. /\ j \in i .. Len(src) + 1 /\ Char(j) \notin IdentContinueChars
      /\ \A k \in i .. j - 1 : src[k] \in IdentContinueChars
  <2>1. "end" \notin IdentContinueChars
    BY DEF IdentContinueChars, IdentStartChars, LetterChars, Digits
  <2> QED
    BY <1>0, <2>1, PastRun
<1> HIDE DEF j
<1>2. Char(i) \in IdentContinueChars
  BY DEF IdentContinueChars
<1>3. j \in i + 1 .. Len(src) + 1
  BY <1>0, <1>1, <1>2
<1>4. IsIdent(i, j)
  BY <1>0, <1>1, <1>3 DEF IsIdent, All
<1>5. Char(j - 1) # "cr"
  <2>1. "cr" \notin IdentContinueChars
    BY DEF IdentContinueChars, IdentStartChars, LetterChars, Digits
  <2> QED
    BY <1>0, <1>1, <1>3, <2>1
<1>6. ASSUME NEW k \in LexemeKinds, NEW m \in j + 1 .. Len(src) + 1, IsLexeme(k, i, m) PROVE FALSE
  <2>1. m \in i + 1 .. Len(src) + 1
    BY <1>0, <1>3
  <2>2. src[i] \in IdentStartChars
    BY <1>0
  <2>3. k \in {"ident", "cstring", "raw"}
    BY <1>6, <2>1, <2>2, LexemeBegins
       DEF LexemeKinds, PunctChars, IdentStartChars, LetterChars, Digits
  <2>4. CASE k = "ident"
    <3>1. IsIdent(i, m)
      BY <1>6, <2>1, <2>4, LexemeBegins
    <3>2. j \in i .. m - 1 /\ j \in 1 .. Len(src)
      BY <1>0, <1>3
    <3> QED
      BY <1>0, <1>1, <3>1, <3>2 DEF IsIdent, All
  <2>5. CASE k = "cstring"
    BY <1>0, <1>6, <2>1, <2>5, LexemeBegins
  <2>6. CASE k = "raw"
    <3>1. IsRaw(i, m) /\ src[i] = "r"
      BY <1>6, <2>1, <2>6, LexemeBegins
    <3>2. Char(Past(i + 1, {"#"})) = "quote"
      BY <2>1, <3>1, RawOpens
    <3> QED
      BY <1>0, <3>1, <3>2
  <2> QED
    BY <2>3, <2>4, <2>5, <2>6
<1>7. "ident" \in LexemeKinds /\ IsLexeme("ident", i, j)
  BY <1>4 DEF LexemeKinds, IsLexeme
<1> QED
  BY <1>3, <1>5, <1>6, <1>7 DEF Longest, j
-----------------------------------------------------------------------------
(* Numbers *)

DigitChars == Digits \cup {"_"}

LEMMA NumberChars ==
  /\ Digits \subseteq DigitChars /\ DigitChars \subseteq IdentContinueChars /\ IdentStartChars \subseteq IdentContinueChars
  /\ \A c \in IdentContinueChars : c \in Digits \/ c \in IdentStartChars
  /\ \A c \in Digits : c \notin IdentStartChars
  /\ {"end", "cr", ".", "+", "-", "quote"} \cap IdentContinueChars = {}
  /\ "e" \in IdentStartChars /\ "e" \notin DigitChars /\ "0" \in Digits
  /\ DOMAIN Radix = {"x", "b"} /\ {"x", "b"} \cap DigitChars = {} /\ {"x", "b"} \subseteq IdentContinueChars
  /\ \A c \in {"x", "b"} : Digits \subseteq Radix[c] /\ Radix[c] \cup {"_"} \subseteq IdentContinueChars
BY DEF DigitChars, Digits, IdentContinueChars, IdentStartChars, LetterChars, Radix

\* A run of digits, from a place on.
LEMMA RunEnds ==
  ASSUME IsText, NEW i \in 1 .. Len(src) + 1, NEW D, D \subseteq IdentContinueChars
  PROVE  /\ DigitRun(i, D) = Past(i, D \cup {"_"})
         /\ Past(i, D \cup {"_"}) \in i .. Len(src) + 1
         /\ Char(Past(i, D \cup {"_"})) \notin D \cup {"_"}
         /\ \A k \in i .. Past(i, D \cup {"_"}) - 1 : src[k] \in D \cup {"_"}
<1>1. "end" \notin D \cup {"_"}
  BY NumberChars
<1> QED
  BY <1>1, PastRun DEF DigitRun

\* The type of a number goes on as long as a name can.
LEMMA SuffixEnds ==
  ASSUME IsText, NEW d \in 1 .. Len(src) + 1, Char(d) \notin Digits
  PROVE  /\ Suffix(d) \in d .. Len(src) + 1
         /\ Char(Suffix(d)) \notin IdentContinueChars
         /\ IsNumberSuffix(d, Suffix(d))
         /\ \A k \in d .. Suffix(d) - 1 : src[k] \in IdentContinueChars
<1>0. Len(src) \in Nat /\ \A k \in 1 .. Len(src) : Char(k) = src[k]
  BY TextFacts
<1>1. CASE Char(d) \in IdentStartChars
  <2> DEFINE j == Past(d, IdentContinueChars)
  <2>1. Suffix(d) = j
    BY <1>1 DEF Suffix
  <2>2. /\ j \in d .. Len(src) + 1 /\ Char(j) \notin IdentContinueChars
        /\ \A k \in d .. j - 1 : src[k] \in IdentContinueChars
    <3>1. "end" \notin IdentContinueChars
      BY NumberChars
    <3> QED
      BY <3>1, PastRun
  <2> HIDE DEF j
  <2>3. Char(d) \in IdentContinueChars
    BY <1>1, NumberChars
  <2>4. d < j /\ d \in 1 .. Len(src)
    BY <1>0, <2>2, <2>3
  <2>5. IsIdent(d, j)
    BY <1>0, <1>1, <2>2, <2>4 DEF IsIdent, All
  <2> QED
    BY <2>1, <2>2, <2>5 DEF IsNumberSuffix
<1>2. CASE Char(d) \notin IdentStartChars
  <2>1. Suffix(d) = d
    BY <1>2 DEF Suffix
  <2>2. Char(d) \notin IdentContinueChars
    BY <1>2, NumberChars
  <2> QED
    BY <1>0, <2>1, <2>2 DEF IsNumberSuffix
<1> QED
  BY <1>1, <1>2

\* Digits and a type are characters of names, as an integer is.
LEMMA SuffixChars ==
  ASSUME NEW k \in Nat, NEW m \in Nat, IsNumberSuffix(k, m)
  PROVE  /\ k <= m /\ \A l \in k .. m - 1 : src[l] \in IdentContinueChars
         /\ k < m => src[k] \in IdentStartChars
BY DEF IsNumberSuffix, IsIdent, All

LEMMA IntChars ==
  ASSUME IsText, NEW i \in 1 .. Len(src), NEW m \in i + 1 .. Len(src) + 1, IsInt(i, m)
  PROVE  \A k \in i .. m - 1 : src[k] \in IdentContinueChars
<1>0. Len(src) \in Nat /\ \A k \in 1 .. Len(src) : Char(k) = src[k]
  BY TextFacts
<1>1. PICK k \in i + 1 .. m :
         /\ IsNumberSuffix(k, m)
         /\ \/ Digs(i, k, Digits)
            \/ \E c \in DOMAIN Radix : Starts(i, <<"0", c>>) /\ Digs(i + 2, k, Radix[c])
  BY DEF IsInt
<1>2. k \in Nat /\ m \in Nat
  BY <1>0
<1>3. \A l \in k .. m - 1 : src[l] \in IdentContinueChars
  BY <1>1, <1>2, SuffixChars
<1>4. CASE Digs(i, k, Digits)
  <2>1. \A l \in i .. k - 1 : src[l] \in IdentContinueChars
    BY <1>4, NumberChars DEF Digs, All, DigitChars
  <2> QED
    BY <1>2, <1>3, <2>1
<1>5. CASE \E c \in DOMAIN Radix : Starts(i, <<"0", c>>) /\ Digs(i + 2, k, Radix[c])
  <2>1. PICK c \in {"x", "b"} : Starts(i, <<"0", c>>) /\ Digs(i + 2, k, Radix[c])
    BY <1>5, NumberChars, Zenon
  <2>2. i + 2 <= k /\ \A l \in i + 2 .. k - 1 : src[l] \in IdentContinueChars
    <3>1. \A x \in Radix[c] \cup {"_"} : x \in IdentContinueChars
      BY NumberChars, Zenon
    <3> QED
      BY <2>1, <3>1 DEF Digs, All
  <2>3. Char(i) = "0" /\ Char(i + 1) = c
    <3>1. i \in Nat
      OBVIOUS
    <3> QED
      BY <2>1, <3>1, StartsTwo
  <2>4. src[i] \in IdentContinueChars /\ src[i + 1] \in IdentContinueChars
    <3>1. "0" \in IdentContinueChars /\ c \in IdentContinueChars
      BY NumberChars, Zenon
    <3> QED
      BY <1>0, <1>2, <2>2, <2>3, <3>1
  <2>5. \A l \in i .. m - 1 : l = i \/ l = i + 1 \/ l \in i + 2 .. k - 1 \/ l \in k .. m - 1
    BY <1>2
  <2> QED
    BY <1>3, <2>2, <2>4, <2>5
<1> QED
  BY <1>1, <1>4, <1>5

\* 0x and 0b
LEMMA RadixIsLongest ==
  ASSUME IsText, NEW i \in 1 .. Len(src), Char(i) = "0", NEW c \in {"x", "b"}, Char(i + 1) = c,
         NEW j, j = Suffix(DigitRun(i + 2, Radix[c]))
  PROVE  Longest("int", i, j) /\ Char(j - 1) # "cr"
<1>0. Len(src) \in Nat /\ (\A k \in 1 .. Len(src) : Char(k) = src[k]) /\ Char(Len(src) + 1) = "end"
  BY TextFacts
<1> DEFINE D == Radix[c]
           d == Past(i + 2, D \cup {"_"})
<1>1. c \in DOMAIN Radix /\ D \cup {"_"} \subseteq IdentContinueChars /\ Digits \subseteq D
  BY NumberChars, Zenon
<1>2. i + 1 \in 1 .. Len(src) /\ i + 2 \in 1 .. Len(src) + 1
  <2>1. c # "end"
    BY <1>1
  <2> QED
    BY <1>0, <2>1
<1>3. /\ DigitRun(i + 2, D) = d
      /\ d \in i + 2 .. Len(src) + 1 /\ Char(d) \notin D \cup {"_"}
      /\ \A k \in i + 2 .. d - 1 : src[k] \in D \cup {"_"}
  <2> HIDE DEF D
  <2> QED
    BY <1>1, <1>2, RunEnds
<1>4. j = Suffix(d)
  BY <1>3
<1> HIDE DEF D, d
<1>5. Char(d) \notin Digits /\ d \in i + 2 .. Len(src) + 1 /\ d \in 1 .. Len(src) + 1
  <2>1. d \in i + 2 .. Len(src) + 1
    BY <1>3
  <2>2. Char(d) \notin Digits
    BY <1>1, <1>3, Zenon
  <2> QED
    BY <1>2, <2>1, <2>2
<1>6. j \in d .. Len(src) + 1 /\ Char(j) \notin IdentContinueChars /\ IsNumberSuffix(d, j)
  BY <1>4, <1>5, SuffixEnds
<1>7. j \in i + 1 .. Len(src) + 1
  BY <1>0, <1>2, <1>5, <1>6
<1>8. IsInt(i, j)
  <2>1. src[i] \in Digits
    BY <1>0, NumberChars
  <2>2. Starts(i, <<"0", c>>) /\ c \in DOMAIN Radix
    <3>1. i \in Nat
      OBVIOUS
    <3> QED
      BY <1>1, <3>1, StartsTwo
  <2>3. Digs(i + 2, d, Radix[c])
    <3>1. i + 2 <= d
      BY <1>5
    <3>2. \A k \in i + 2 .. d - 1 : src[k] \in D \cup {"_"}
      BY <1>3
    <3> QED
      BY <3>1, <3>2, Zenon DEF Digs, All, D
  <2>4. d \in i + 1 .. j
    BY <1>5, <1>6
  <2> QED
    BY <1>6, <2>1, <2>2, <2>3, <2>4 DEF IsInt
<1>9. Char(j - 1) # "cr"
  <2>1. j - 1 \in i .. j - 1 /\ j - 1 \in 1 .. Len(src)
    BY <1>0, <1>7
  <2>2. src[j - 1] \in IdentContinueChars
    BY <1>7, <1>8, <2>1, IntChars
  <2> QED
    BY <1>0, <2>1, <2>2, NumberChars
<1>10. ASSUME NEW k \in LexemeKinds, NEW m \in j + 1 .. Len(src) + 1, IsLexeme(k, i, m) PROVE FALSE
  <2>1. m \in i + 1 .. Len(src) + 1
    BY <1>0, <1>7
  <2>2. src[i] = "0"
    BY <1>0
  <2>3. k \in {"int", "float"}
    BY <1>10, <2>1, <2>2, LexemeBegins DEF LexemeKinds, PunctChars, IdentStartChars, LetterChars
  <2>4. CASE k = "int"
    <3>1. IsInt(i, m)
      BY <1>10, <2>1, <2>4, LexemeBegins
    <3>2. j \in i .. m - 1 /\ j \in 1 .. Len(src)
      BY <1>0, <1>7
    <3> QED
      BY <1>0, <1>6, <2>1, <3>1, <3>2, IntChars
  <2>5. CASE k = "float"
    <3>1. IsFloat(i, m)
      BY <1>10, <2>1, <2>5, LexemeBegins
    <3> QED
      BY <1>1, <3>1 DEF IsFloat
  <2> QED
    BY <2>3, <2>4, <2>5
<1>11. "int" \in LexemeKinds /\ IsLexeme("int", i, j)
  BY <1>8 DEF LexemeKinds, IsLexeme
<1> QED
  BY <1>7, <1>9, <1>10, <1>11 DEF Longest
\* A number without a radix: the digits end at f, the fraction at g, the
\* exponent at h and the type at j.
Fraction(f, g) ==
  \/ g = f /\ ~(Char(f) = "." /\ Char(f + 1) \in Digits)
  \/ /\ Char(f) = "." /\ Char(f + 1) \in Digits /\ f + 1 < g
     /\ \A k \in f + 1 .. g - 1 : src[k] \in DigitChars
Exponent(g, h) ==
  \/ h = g /\ Char(g) # "e"
  \/ Char(g) = "e" /\ Char(g + 1) \notin {"+", "-"} /\ g + 1 <= h /\ \A k \in g + 1 .. h - 1 : src[k] \in DigitChars
  \/ Char(g) = "e" /\ Char(g + 1) \in {"+", "-"} /\ g + 2 <= h /\ \A k \in g + 2 .. h - 1 : src[k] \in DigitChars
Decimal(i, f, g, h, j) ==
  /\ f \in i + 1 .. Len(src) + 1 /\ g \in f .. Len(src) + 1 /\ h \in g .. Len(src) + 1 /\ j \in h .. Len(src) + 1
  /\ \A k \in i .. f - 1 : src[k] \in DigitChars
  /\ Char(f) \notin DigitChars /\ Char(g) \notin DigitChars /\ Char(h) \notin DigitChars
  /\ Fraction(f, g) /\ Exponent(g, h) /\ IsNumberSuffix(h, j)
  /\ Char(j) \notin IdentContinueChars

LEMMA DigitRunIs ==
  ASSUME IsText, NEW i \in 1 .. Len(src) + 1
  PROVE  /\ DigitRun(i, Digits) \in i .. Len(src) + 1
         /\ Char(DigitRun(i, Digits)) \notin DigitChars
         /\ \A k \in i .. DigitRun(i, Digits) - 1 : src[k] \in DigitChars
<1>1. Digits \subseteq IdentContinueChars
  BY NumberChars, Zenon
<1>2. /\ DigitRun(i, Digits) = Past(i, Digits \cup {"_"})
      /\ Past(i, Digits \cup {"_"}) \in i .. Len(src) + 1
      /\ Char(Past(i, Digits \cup {"_"})) \notin Digits \cup {"_"}
      /\ \A k \in i .. Past(i, Digits \cup {"_"}) - 1 : src[k] \in Digits \cup {"_"}
  BY <1>1, RunEnds
<1> QED
  BY <1>2, Zenon DEF DigitChars

LEMMA FractionEnds ==
  ASSUME IsText, NEW f \in 1 .. Len(src) + 1, Char(f) \notin DigitChars
  PROVE  /\ AfterFraction(f) \in f .. Len(src) + 1 /\ Char(AfterFraction(f)) \notin DigitChars
         /\ Fraction(f, AfterFraction(f))
<1>0. Len(src) \in Nat /\ (\A k \in 1 .. Len(src) : Char(k) = src[k]) /\ Char(Len(src) + 1) = "end"
  BY TextFacts
<1>1. CASE Char(f) = "." /\ Char(f + 1) \in Digits
  <2> DEFINE g == DigitRun(f + 1, Digits)
  <2>1. AfterFraction(f) = g
    BY <1>1 DEF AfterFraction
  <2>2. f \in 1 .. Len(src) /\ f + 1 \in 1 .. Len(src) + 1
    BY <1>0, <1>1
  <2>3. g \in f + 1 .. Len(src) + 1 /\ Char(g) \notin DigitChars /\ \A k \in f + 1 .. g - 1 : src[k] \in DigitChars
    BY <2>2, DigitRunIs
  <2> HIDE DEF g
  <2>4. g # f + 1
    BY <1>1, <2>3 DEF DigitChars
  <2>5. f + 1 < g /\ g \in f .. Len(src) + 1
    BY <1>0, <2>2, <2>3, <2>4
  <2> QED
    BY <1>1, <2>1, <2>3, <2>5 DEF Fraction
<1>2. CASE ~(Char(f) = "." /\ Char(f + 1) \in Digits)
  <2>1. AfterFraction(f) = f
    BY <1>2 DEF AfterFraction
  <2> QED
    BY <1>0, <1>2, <2>1 DEF Fraction
<1> QED
  BY <1>1, <1>2

LEMMA ExponentEnds ==
  ASSUME IsText, NEW g \in 1 .. Len(src) + 1, Char(g) \notin DigitChars
  PROVE  /\ AfterExponent(g) \in g .. Len(src) + 1 /\ Char(AfterExponent(g)) \notin DigitChars
         /\ Exponent(g, AfterExponent(g))
<1>0. Len(src) \in Nat /\ (\A k \in 1 .. Len(src) : Char(k) = src[k]) /\ Char(Len(src) + 1) = "end"
  BY TextFacts
<1>1. CASE Char(g) # "e"
  <2>1. AfterExponent(g) = g
    BY <1>1 DEF AfterExponent
  <2> QED
    BY <1>0, <1>1, <2>1 DEF Exponent
<1>2. CASE Char(g) = "e" /\ Char(g + 1) \in {"+", "-"}
  <2> DEFINE h == DigitRun(g + 2, Digits)
  <2>1. AfterExponent(g) = h
    BY <1>2 DEF AfterExponent
  <2>2. g \in 1 .. Len(src) /\ g + 1 \in 1 .. Len(src)
    <3>1. g \in 1 .. Len(src)
      BY <1>0, <1>2
    <3>2. g + 1 # Len(src) + 1
      BY <1>0, <1>2
    <3> QED
      BY <1>0, <3>1, <3>2
  <2>3. h \in g + 2 .. Len(src) + 1 /\ Char(h) \notin DigitChars /\ \A k \in g + 2 .. h - 1 : src[k] \in DigitChars
    <3>1. g + 2 \in 1 .. Len(src) + 1
      BY <1>0, <2>2
    <3> QED
      BY <3>1, DigitRunIs
  <2> HIDE DEF h
  <2>4. g + 2 <= h /\ h \in g .. Len(src) + 1
    BY <1>0, <2>2, <2>3
  <2> QED
    BY <1>2, <2>1, <2>3, <2>4 DEF Exponent
<1>3. CASE Char(g) = "e" /\ Char(g + 1) \notin {"+", "-"}
  <2> DEFINE h == DigitRun(g + 1, Digits)
  <2>1. AfterExponent(g) = h
    BY <1>3 DEF AfterExponent
  <2>2. g \in 1 .. Len(src) /\ g + 1 \in 1 .. Len(src) + 1
    BY <1>0, <1>3
  <2>3. h \in g + 1 .. Len(src) + 1 /\ Char(h) \notin DigitChars /\ \A k \in g + 1 .. h - 1 : src[k] \in DigitChars
    BY <2>2, DigitRunIs
  <2> HIDE DEF h
  <2>4. g + 1 <= h /\ h \in g .. Len(src) + 1
    BY <1>0, <2>2, <2>3
  <2> QED
    BY <1>3, <2>1, <2>3, <2>4 DEF Exponent
<1> QED
  BY <1>1, <1>2, <1>3

LEMMA DecimalIs ==
  ASSUME IsText, NEW i \in 1 .. Len(src), Char(i) \in Digits,
         NEW f, f = DigitRun(i, Digits), NEW g, g = AfterFraction(f), NEW h, h = AfterExponent(g),
         NEW j, j = Suffix(h)
  PROVE  Decimal(i, f, g, h, j)
<1>0. Len(src) \in Nat /\ (\A k \in 1 .. Len(src) : Char(k) = src[k]) /\ Char(Len(src) + 1) = "end"
  BY TextFacts
<1>1. f \in i .. Len(src) + 1 /\ Char(f) \notin DigitChars /\ \A k \in i .. f - 1 : src[k] \in DigitChars
  <2>1. i \in 1 .. Len(src) + 1
    BY <1>0
  <2> QED
    BY <2>1, DigitRunIs
<1>2. f \in i + 1 .. Len(src) + 1
  <2>1. f # i
    BY <1>1 DEF DigitChars
  <2>2. f \in i .. Len(src) + 1
    BY <1>1
  <2> QED
    BY <1>0, <2>1, <2>2
<1>3. g \in f .. Len(src) + 1 /\ Char(g) \notin DigitChars /\ Fraction(f, g)
  <2>1. f \in 1 .. Len(src) + 1
    BY <1>0, <1>2
  <2> QED
    BY <1>1, <2>1, FractionEnds
<1>4. h \in g .. Len(src) + 1 /\ Char(h) \notin DigitChars /\ Exponent(g, h)
  <2>1. g \in 1 .. Len(src) + 1
    BY <1>0, <1>2, <1>3
  <2> QED
    BY <1>3, <2>1, ExponentEnds
<1>5. j \in h .. Len(src) + 1 /\ Char(j) \notin IdentContinueChars /\ IsNumberSuffix(h, j)
  <2>1. h \in 1 .. Len(src) + 1
    BY <1>0, <1>2, <1>3, <1>4
  <2>2. Char(h) \notin Digits
    BY <1>4 DEF DigitChars
  <2> QED
    BY <2>1, <2>2, SuffixEnds
<1> QED
  BY <1>1, <1>2, <1>3, <1>4, <1>5 DEF Decimal

LEMMA DecimalSound ==
  ASSUME IsText, NEW i \in 1 .. Len(src), Char(i) \in Digits,
         Char(i) = "0" => Char(i + 1) \notin DOMAIN Radix,
         NEW f, NEW g, NEW h, NEW j, Decimal(i, f, g, h, j)
  PROVE  /\ IsLexeme(IF f = h THEN "int" ELSE "float", i, j)
         /\ Char(j - 1) # "cr"
<1>0. Len(src) \in Nat /\ (\A k \in 1 .. Len(src) : Char(k) = src[k]) /\ Char(Len(src) + 1) = "end"
  BY TextFacts
<1>1. /\ f \in i + 1 .. Len(src) + 1 /\ g \in f .. Len(src) + 1 /\ h \in g .. Len(src) + 1 /\ j \in h .. Len(src) + 1
      /\ f \in Nat /\ g \in Nat /\ h \in Nat /\ j \in Nat
  BY <1>0 DEF Decimal
<1>2. \A k \in i .. f - 1 : src[k] \in DigitChars
  BY DEF Decimal
<1>3. Fraction(f, g) /\ Exponent(g, h) /\ IsNumberSuffix(h, j)
  BY DEF Decimal
<1>4. src[i] \in Digits
  BY <1>0
<1>5. Digs(i, f, Digits)
  <2>1. i <= f
    BY <1>1
  <2> QED
    BY <1>2, <2>1, Zenon DEF Digs, All, DigitChars
<1>8. Char(j - 1) # "cr"
  <2>1. "cr" \notin DigitChars /\ "cr" \notin IdentContinueChars
    BY NumberChars
  <2>2. \A k \in h .. j - 1 : src[k] \in IdentContinueChars
    BY <1>1, <1>3, SuffixChars
  <2>3. j - 1 \in 1 .. Len(src) /\ Char(j - 1) = src[j - 1]
    BY <1>0, <1>1
  <2>4. CASE h < j
    BY <1>1, <2>1, <2>2, <2>3, <2>4
  <2>5. CASE h = j /\ g = h /\ f = g
    BY <1>1, <1>2, <2>1, <2>3, <2>5
  <2>6. CASE h = j /\ g = h /\ f # g
    <3>1. f + 1 < g /\ \A k \in f + 1 .. g - 1 : src[k] \in DigitChars
      BY <1>3, <2>6 DEF Fraction
    <3> QED
      BY <1>1, <2>1, <2>3, <2>6, <3>1
  <2>7. CASE h = j /\ g # h
    <3>1. CASE Char(g) = "e" /\ g + 1 <= h /\ \A k \in g + 1 .. h - 1 : src[k] \in DigitChars
      <4>1. j - 1 = g \/ j - 1 \in g + 1 .. h - 1
        BY <1>1, <2>7, <3>1
      <4> QED
        BY <2>1, <2>3, <3>1, <4>1
    <3>2. CASE /\ Char(g + 1) \in {"+", "-"} /\ g + 2 <= h
               /\ \A k \in g + 2 .. h - 1 : src[k] \in DigitChars
      <4>1. j - 1 = g + 1 \/ j - 1 \in g + 2 .. h - 1
        BY <1>1, <2>7, <3>2
      <4> QED
        BY <2>1, <2>3, <3>2, <4>1
    <3> QED
      BY <1>3, <2>7, <3>1, <3>2 DEF Exponent
  <2> QED
    BY <1>1, <2>4, <2>5, <2>6, <2>7
<1>6. CASE f = h
  <2>1. f \in i + 1 .. j
    BY <1>1, <1>6
  <2>2. IsInt(i, j)
    BY <1>3, <1>4, <1>5, <1>6, <2>1 DEF IsInt
  <2>3. IsLexeme("int", i, j)
    BY <2>2 DEF IsLexeme
  <2> QED
    BY <1>6, <1>8, <2>3
<1>7. CASE f # h
  <2>1. f \in i + 1 .. j /\ g \in i + 1 .. j /\ h \in i + 1 .. j /\ f <= g /\ g <= h /\ f < h
    BY <1>1, <1>7
  <2>2. f = g \/ (src[f] = "." /\ f + 1 < g /\ src[f + 1] \in Digits /\ Digs(f + 1, g, Digits))
    <3> SUFFICES ASSUME f # g PROVE src[f] = "." /\ f + 1 < g /\ src[f + 1] \in Digits /\ Digs(f + 1, g, Digits)
      OBVIOUS
    <3>1. Char(f) = "." /\ Char(f + 1) \in Digits /\ f + 1 < g /\ \A k \in f + 1 .. g - 1 : src[k] \in DigitChars
      BY <1>3 DEF Fraction
    <3>2. f \in 1 .. Len(src) /\ f + 1 \in 1 .. Len(src) /\ f + 1 <= g
      BY <1>0, <1>1, <3>1
    <3>3. Digs(f + 1, g, Digits)
      BY <3>1, <3>2 DEF Digs, All, DigitChars
    <3> QED
      BY <1>0, <3>1, <3>2, <3>3
  <2>3. \/ g = h
        \/ src[g] = "e" /\ Digs(g + 1, h, Digits)
        \/ src[g] = "e" /\ g + 1 < h /\ src[g + 1] \in {"+", "-"} /\ Digs(g + 2, h, Digits)
    <3>1. CASE h = g
      BY <3>1
    <3>2. CASE Char(g) = "e" /\ g + 1 <= h /\ \A k \in g + 1 .. h - 1 : src[k] \in DigitChars
      <4>1. g \in 1 .. Len(src)
        BY <1>0, <1>1, <3>2
      <4> QED
        BY <1>0, <3>2, <4>1 DEF Digs, All, DigitChars
    <3>3. CASE /\ Char(g) = "e" /\ Char(g + 1) \in {"+", "-"} /\ g + 2 <= h
               /\ \A k \in g + 2 .. h - 1 : src[k] \in DigitChars
      <4>1. g \in 1 .. Len(src) /\ g + 1 \in 1 .. Len(src) /\ g + 1 < h
        BY <1>0, <1>1, <3>3
      <4> QED
        BY <1>0, <3>3, <4>1 DEF Digs, All, DigitChars
    <3> QED
      BY <1>3, <3>1, <3>2, <3>3 DEF Exponent
  <2>4. ~(Char(i) = "0" /\ Char(i + 1) \in DOMAIN Radix)
    OBVIOUS
  <2>5. IsFloat(i, j)
    BY <1>3, <1>4, <1>5, <2>1, <2>2, <2>3, <2>4, Zenon DEF IsFloat
  <2>6. IsLexeme("float", i, j)
    BY <2>5 DEF IsLexeme
  <2> QED
    BY <1>7, <1>8, <2>6
<1> QED
  BY <1>6, <1>7

\* A stretch of name characters that begins in the number ends in it.
LEMMA DecimalTail ==
  ASSUME IsText, NEW i \in 1 .. Len(src), NEW f, NEW g, NEW h, NEW j, Decimal(i, f, g, h, j),
         NEW m \in i + 1 .. Len(src) + 1, NEW x \in i .. m, x <= j,
         \A k \in x .. m - 1 : src[k] \in IdentContinueChars
  PROVE  m <= j
<1>0. Len(src) \in Nat /\ (\A k \in 1 .. Len(src) : Char(k) = src[k])
  BY TextFacts
<1>1. j \in Nat /\ j <= Len(src) + 1
  BY <1>0 DEF Decimal
<1>2. Char(j) \notin IdentContinueChars
  BY DEF Decimal
<1> SUFFICES ASSUME j < m PROVE FALSE
  BY <1>1
<1>3. j \in x .. m - 1 /\ j \in 1 .. Len(src)
  BY <1>0, <1>1
<1> QED
  BY <1>0, <1>2, <1>3

LEMMA NoLongerFloat ==
  ASSUME IsText, NEW i \in 1 .. Len(src), NEW f, NEW g, NEW h, NEW j, Decimal(i, f, g, h, j),
         NEW m \in i + 1 .. Len(src) + 1, IsFloat(i, m)
  PROVE  m <= j
<1>0. Len(src) \in Nat /\ (\A l \in 1 .. Len(src) : Char(l) = src[l])
  BY TextFacts
<1>1. /\ f \in i + 1 .. Len(src) + 1 /\ g \in f .. Len(src) + 1 /\ h \in g .. Len(src) + 1 /\ j \in h .. Len(src) + 1
      /\ f \in Nat /\ g \in Nat /\ h \in Nat /\ j \in Nat /\ m \in Nat /\ i \in Nat
  BY <1>0 DEF Decimal
<1>2. \A l \in i .. f - 1 : src[l] \in DigitChars
  BY DEF Decimal
<1>3. Char(f) \notin DigitChars /\ Char(g) \notin DigitChars /\ Char(h) \notin DigitChars /\ Fraction(f, g) /\ Exponent(g, h)
  BY DEF Decimal
<1>4. PICK p \in i + 1 .. m, e \in i + 1 .. m, k \in i + 1 .. m :
         /\ p <= e /\ e <= k /\ p < k /\ Digs(i, p, Digits) /\ IsNumberSuffix(k, m)
         /\ p = e \/ (src[p] = "." /\ p + 1 < e /\ src[p + 1] \in Digits /\ Digs(p + 1, e, Digits))
         /\ \/ e = k
            \/ src[e] = "e" /\ Digs(e + 1, k, Digits)
            \/ src[e] = "e" /\ e + 1 < k /\ src[e + 1] \in {"+", "-"} /\ Digs(e + 2, k, Digits)
  BY DEF IsFloat
<1>5. p \in Nat /\ e \in Nat /\ k \in Nat /\ p <= e /\ e <= k /\ p < k /\ k <= m /\ i < p
  BY <1>4
<1>6. \A l \in i .. p - 1 : src[l] \in DigitChars
  BY <1>4 DEF Digs, All, DigitChars
<1>7. \A l \in k .. m - 1 : src[l] \in IdentContinueChars
  BY <1>1, <1>4, <1>5, SuffixChars
<1>8. "e" \notin DigitChars /\ "." \notin DigitChars /\ "e" \in IdentContinueChars
      /\ \A c : c \in DigitChars => c \in IdentContinueChars
  BY NumberChars
<1>9. p = f
  <2>1. ~(f < p)
    <3> SUFFICES ASSUME f < p PROVE FALSE
      OBVIOUS
    <3>1. f \in i .. p - 1 /\ f \in 1 .. Len(src)
      BY <1>0, <1>1, <1>5
    <3> QED
      BY <1>0, <1>3, <1>6, <3>1
  <2>2. ~(p < f)
    <3> SUFFICES ASSUME p < f PROVE FALSE
      OBVIOUS
    <3>1. src[p] \in DigitChars
      BY <1>1, <1>2, <1>5
    <3>2. src[p] # "." /\ src[p] # "e"
      BY <3>1, <1>8
    <3>3. p = e
      BY <1>4, <3>2
    <3> QED
      BY <1>4, <1>5, <3>2, <3>3
  <2> QED
    BY <1>1, <1>5, <2>1, <2>2
<1>10. f \in 1 .. Len(src) /\ Char(f) = src[f]
  BY <1>0, <1>1, <1>5, <1>9
<1>11. CASE p = e
  <2>1. src[f] = "e"
    BY <1>4, <1>5, <1>9, <1>11
  <2>2. g = f
    BY <1>3, <1>10, <2>1 DEF Fraction
  <2>3. CASE Digs(e + 1, k, Digits)
    <3>1. \A l \in f + 1 .. k - 1 : src[l] \in IdentContinueChars
      <4>1. \A l \in e + 1 .. k - 1 : src[l] \in DigitChars
        BY <2>3 DEF Digs, All, DigitChars
      <4> QED
        BY <1>8, <1>9, <1>11, <4>1
    <3>2. \A l \in f .. m - 1 : l = f \/ l \in f + 1 .. k - 1 \/ l \in k .. m - 1
      BY <1>1, <1>5
    <3>3. \A l \in f .. m - 1 : src[l] \in IdentContinueChars
      BY <1>7, <1>8, <2>1, <3>1, <3>2
    <3>4. f \in i .. m /\ f <= j
      BY <1>1, <1>5, <1>9
    <3> QED
      BY <3>3, <3>4, DecimalTail
  <2>4. CASE e + 1 < k /\ src[e + 1] \in {"+", "-"} /\ Digs(e + 2, k, Digits)
    <3>1. f + 2 <= h
      <4>1. f + 1 \in 1 .. Len(src) /\ Char(f + 1) \in {"+", "-"}
        BY <1>0, <1>1, <1>5, <1>9, <1>11, <2>4
      <4> QED
        BY <1>3, <1>10, <2>1, <2>2, <4>1 DEF Exponent
    <3>2. \A l \in f + 2 .. k - 1 : src[l] \in IdentContinueChars
      <4>1. \A l \in e + 2 .. k - 1 : src[l] \in DigitChars
        BY <2>4 DEF Digs, All, DigitChars
      <4> QED
        BY <1>8, <1>9, <1>11, <4>1
    <3>3. \A l \in f + 2 .. m - 1 : l \in f + 2 .. k - 1 \/ l \in k .. m - 1
      BY <1>1, <1>5
    <3>4. \A l \in f + 2 .. m - 1 : src[l] \in IdentContinueChars
      BY <1>7, <3>2, <3>3
    <3>5. f + 2 \in i .. m /\ f + 2 <= j
      BY <1>1, <1>5, <1>9, <1>11, <2>4, <3>1
    <3> QED
      BY <3>4, <3>5, DecimalTail
  <2>5. e # k
    BY <1>5, <1>11
  <2> QED
    BY <1>4, <2>3, <2>4, <2>5
<1>12. CASE p # e
  <2>1. src[f] = "." /\ f + 1 < e /\ src[f + 1] \in Digits
    BY <1>4, <1>9, <1>12
  <2>2. \A l \in f + 1 .. e - 1 : src[l] \in DigitChars
    <3>1. \A l \in p + 1 .. e - 1 : src[l] \in DigitChars
      BY <1>4, <1>12 DEF Digs, All, DigitChars
    <3> QED
      BY <1>9, <3>1
  <2>3. Char(f) = "." /\ Char(f + 1) \in Digits
    <3>1. f + 1 \in 1 .. Len(src)
      BY <1>0, <1>1, <1>5, <2>1
    <3> QED
      BY <1>0, <1>10, <2>1, <3>1
  <2>4. f + 1 < g /\ \A l \in f + 1 .. g - 1 : src[l] \in DigitChars
    BY <1>3, <2>3 DEF Fraction
  <2>5. \A l \in f + 1 .. e - 1 : src[l] \in IdentContinueChars
    BY <1>8, <2>2
  <2>6. f + 1 \in i .. m /\ f + 1 <= j
    BY <1>1, <1>5, <2>1, <2>4
  <2>7. CASE e = k
    <3>1. \A l \in f + 1 .. m - 1 : l \in f + 1 .. e - 1 \/ l \in k .. m - 1
      BY <1>1, <1>5, <2>7
    <3>2. \A l \in f + 1 .. m - 1 : src[l] \in IdentContinueChars
      BY <1>7, <2>5, <3>1
    <3> QED
      BY <2>6, <3>2, DecimalTail
  <2>8. CASE src[e] = "e" /\ Digs(e + 1, k, Digits)
    <3>1. \A l \in e + 1 .. k - 1 : src[l] \in IdentContinueChars
      <4>1. \A l \in e + 1 .. k - 1 : src[l] \in DigitChars
        BY <2>8 DEF Digs, All, DigitChars
      <4> QED
        BY <1>8, <4>1
    <3>2. \A l \in f + 1 .. m - 1 : l \in f + 1 .. e - 1 \/ l = e \/ l \in e + 1 .. k - 1 \/ l \in k .. m - 1
      BY <1>1, <1>5
    <3>3. \A l \in f + 1 .. m - 1 : src[l] \in IdentContinueChars
      BY <1>7, <1>8, <2>5, <2>8, <3>1, <3>2
    <3> QED
      BY <2>6, <3>3, DecimalTail
  <2>9. CASE src[e] = "e" /\ e + 1 < k /\ src[e + 1] \in {"+", "-"} /\ Digs(e + 2, k, Digits)
    <3>1. e \in 1 .. Len(src) /\ e + 1 \in 1 .. Len(src)
      BY <1>0, <1>1, <1>5, <2>9
    <3>2. e = g
      <4>1. ~(e < g)
        BY <1>1, <1>5, <1>8, <2>1, <2>4, <2>9
      <4>2. ~(g < e)
        <5> SUFFICES ASSUME g < e PROVE FALSE
          OBVIOUS
        <5>1. g \in f + 1 .. e - 1 /\ g \in 1 .. Len(src)
          BY <1>0, <1>1, <1>5, <2>4, <3>1
        <5> QED
          BY <1>0, <1>3, <2>2, <5>1
      <4> QED
        BY <1>1, <1>5, <4>1, <4>2
    <3>3. e + 2 <= h
      <4>1. Char(g) = "e" /\ Char(g + 1) \in {"+", "-"}
        BY <1>0, <2>9, <3>1, <3>2
      <4> QED
        BY <1>3, <3>2, <4>1 DEF Exponent
    <3>4. \A l \in e + 2 .. k - 1 : src[l] \in IdentContinueChars
      <4>1. \A l \in e + 2 .. k - 1 : src[l] \in DigitChars
        BY <2>9 DEF Digs, All, DigitChars
      <4> QED
        BY <1>8, <4>1
    <3>5. \A l \in e + 2 .. m - 1 : l \in e + 2 .. k - 1 \/ l \in k .. m - 1
      BY <1>1, <1>5
    <3>6. \A l \in e + 2 .. m - 1 : src[l] \in IdentContinueChars
      BY <1>7, <3>4, <3>5
    <3>7. e + 2 \in i .. m /\ e + 2 <= j
      BY <1>1, <1>5, <2>9, <3>3
    <3> QED
      BY <3>6, <3>7, DecimalTail
  <2> QED
    BY <1>4, <2>7, <2>8, <2>9
<1> QED
  BY <1>11, <1>12

\* Numbers without a radix.
LEMMA DecimalIsLongest ==
  ASSUME IsText, NEW i \in 1 .. Len(src), Char(i) \in Digits,
         Char(i) = "0" => Char(i + 1) \notin DOMAIN Radix,
         NEW f, f = DigitRun(i, Digits), NEW h, h = AfterExponent(AfterFraction(f)), NEW j, j = Suffix(h)
  PROVE  Longest(IF f = h THEN "int" ELSE "float", i, j) /\ Char(j - 1) # "cr"
<1>0. Len(src) \in Nat /\ (\A l \in 1 .. Len(src) : Char(l) = src[l])
  BY TextFacts
<1> DEFINE g == AfterFraction(f)
<1>1. Decimal(i, f, g, h, j)
  BY DecimalIs
<1> HIDE DEF g
<1>2. IsLexeme(IF f = h THEN "int" ELSE "float", i, j) /\ Char(j - 1) # "cr"
  BY <1>1, DecimalSound
<1>3. j \in i + 1 .. Len(src) + 1
  BY <1>0, <1>1 DEF Decimal
<1>4. ASSUME NEW k \in LexemeKinds, NEW m \in j + 1 .. Len(src) + 1, IsLexeme(k, i, m) PROVE FALSE
  <2>1. m \in i + 1 .. Len(src) + 1 /\ ~(m <= j)
    BY <1>0, <1>3
  <2>2. src[i] \in Digits
    BY <1>0
  <2>3. k \in {"int", "float"}
    BY <1>4, <2>1, <2>2, LexemeBegins DEF LexemeKinds, PunctChars, Digits, IdentStartChars, LetterChars
  <2>4. CASE k = "int"
    <3>1. IsInt(i, m)
      BY <1>4, <2>1, <2>4, LexemeBegins
    <3>2. \A l \in i .. m - 1 : src[l] \in IdentContinueChars
      BY <2>1, <3>1, IntChars
    <3>3. i \in i .. m /\ i <= j
      BY <1>0, <1>3, <2>1
    <3> QED
      BY <1>1, <2>1, <3>2, <3>3, DecimalTail
  <2>5. CASE k = "float"
    <3>1. IsFloat(i, m)
      BY <1>4, <2>1, <2>5, LexemeBegins
    <3> QED
      BY <1>1, <2>1, <3>1, NoLongerFloat
  <2> QED
    BY <2>3, <2>4, <2>5
<1>5. (IF f = h THEN "int" ELSE "float") \in LexemeKinds
  BY DEF LexemeKinds
<1> QED
  BY <1>2, <1>3, <1>4, <1>5 DEF Longest
-----------------------------------------------------------------------------
(* Characters and strings *)

LEMMA ConsumeEnd == IsText => Consume(PlaceOf(Len(src) + 1)) = PlaceOf(Len(src) + 1)
<1> HAVE IsText
<1>1. Char(Len(src) + 1) = "end" /\ PlaceOf(Len(src) + 1).off = Len(src) + 1
  BY TextFacts, PlaceIs
<1> QED
  BY <1>1 DEF Consume

\* Where a character literal's body ends.
CharEnd(i, k) ==
  \/ Char(i + 1) # "bs" /\ Char(i + 1) # "end" /\ k = Behind(i + 1)
  \/ Char(i + 1) = "bs" /\ Char(i + 2) # "end" /\ Width(Char(i + 2)) = 1 /\ k = Behind(i + 2)
     /\ ~(Char(i + 2) = "u" /\ Char(i + 3) = "lbrace")
  \/ /\ Char(i + 1) = "bs" /\ Char(i + 2) = "u" /\ Char(i + 3) = "lbrace"
     /\ k \in i + 5 .. Len(src) + 1 /\ Char(k - 1) = "rbrace" /\ \A l \in i + 4 .. k - 2 : src[l] # "rbrace"

LEMMA BraceEndIs ==
  ASSUME IsText, NEW i \in 1 .. Len(src) + 1
  PROVE  /\ BraceEnd(i) \in i .. Len(src) + 1 /\ Char(BraceEnd(i)) \in {"rbrace", "end"}
         /\ \A k \in i .. BraceEnd(i) - 1 : src[k] # "rbrace"
<1>0. Len(src) \in Nat /\ (\A k \in 1 .. Len(src) : Char(k) = src[k]) /\ Char(Len(src) + 1) = "end"
  BY TextFacts
<1> DEFINE Ends == {j \in i .. Len(src) + 1 : Char(j) \in {"rbrace", "end"}}
<1>1. Ends \in SUBSET Nat /\ Ends # {}
  <2>1. Len(src) + 1 \in Ends
    BY <1>0
  <2> QED
    BY <2>1, <1>0
<1>2. PICK j \in Ends : \A k \in Ends : j <= k
  <2> HIDE DEF Ends
  <2> QED
    BY <1>1, LeastOf
<1>3. \A k \in i .. j - 1 : src[k] # "rbrace"
  BY <1>0, <1>2
<1>4. \E m \in i .. Len(src) + 1 : Char(m) \in {"rbrace", "end"} /\ \A k \in i .. m - 1 : src[k] # "rbrace"
  BY <1>2, <1>3
<1> QED
  BY <1>4 DEF BraceEnd

LEMMA CharBodyIs ==
  ASSUME IsText, NEW i \in 1 .. Len(src), Char(i) = "tick", NEW q, q = AfterCharBody(PlaceOf(i + 1))
  PROVE  /\ q \in Position /\ q.off \in i + 1 .. Len(src) + 1
         /\ Char(q.off) = "tick" => q = PlaceOf(q.off) /\ CharEnd(i, q.off)
<1>0. Len(src) \in Nat /\ (\A k \in 1 .. Len(src) : Char(k) = src[k] /\ src[k] # "end") /\ Char(Len(src) + 1) = "end"
  BY TextFacts
<1>1. (\A k : PlaceOf(k).off = k) /\ \A k \in 1 .. Len(src) + 1 : PlaceOf(k) \in Position
  BY PlaceIs, PlaceTyped
<1> DEFINE p == PlaceOf(i + 1)
           s == Consume(p)
           r == IF Width(Char(s.off)) = 1 THEN Consume(s) ELSE [s EXCEPT !.col = @ + 1]
<1>2. q = IF Char(p.off) # "bs" THEN s
          ELSE IF Char(s.off) = "u" /\ Char(r.off) = "lbrace" THEN Consume(Walk(r, BraceEnd(r.off)))
          ELSE r
  BY DEF AfterCharBody
<1>3. p.off = i + 1
  BY <1>1
<1>4. CASE Char(i + 1) # "bs"
  <2>1. q = s
    BY <1>2, <1>3, <1>4
  <2>2. CASE i + 1 \in 1 .. Len(src)
    <3>1. s = PlaceOf(Behind(i + 1)) /\ Behind(i + 1) \in (i + 1) + 1 .. Len(src) + 1
      BY <2>2, ConsumePlace
    <3>2. q.off = Behind(i + 1) /\ q = PlaceOf(q.off)
      BY <1>1, <2>1, <3>1
    <3>3. Char(i + 1) # "end"
      BY <1>0, <2>2
    <3>4. Behind(i + 1) \in i + 1 .. Len(src) + 1 /\ Behind(i + 1) \in 1 .. Len(src) + 1
      BY <3>1
    <3>5. q \in Position
      BY <1>1, <2>1, <3>1, <3>4
    <3> QED
      BY <1>4, <3>2, <3>3, <3>4, <3>5 DEF CharEnd
  <2>3. CASE i + 1 = Len(src) + 1
    <3>1. q = PlaceOf(Len(src) + 1)
      BY <2>1, <2>3, ConsumeEnd
    <3>2. q.off = Len(src) + 1
      BY <1>1, <3>1
    <3>3. Char(q.off) # "tick"
      BY <1>0, <3>2
    <3>4. q \in Position
      BY <1>0, <1>1, <3>1
    <3> QED
      BY <1>0, <2>3, <3>2, <3>3, <3>4
  <2> QED
    BY <1>0, <2>2, <2>3
<1>5. CASE Char(i + 1) = "bs"
  <2>1. i + 1 \in 1 .. Len(src)
    BY <1>0, <1>5
  <2>2. s = PlaceOf(i + 2)
    <3>1. s = PlaceOf(Behind(i + 1)) /\ Behind(i + 1) = IF Char(i + 1) = "cr" /\ Char((i + 1) + 1) = "lf" THEN (i + 1) + 2 ELSE (i + 1) + 1
      BY <2>1, ConsumePlace
    <3>2. Behind(i + 1) = i + 2
      BY <1>5, <3>1
    <3> QED
      BY <3>1, <3>2
  <2>3. s.off = i + 2
    BY <1>1, <2>2
  <2>4. CASE i + 2 = Len(src) + 1
    <3>1. Char(s.off) = "end" /\ Char(s.off) # "u"
      BY <1>0, <2>3, <2>4
    <3>2. Width(Char(s.off)) = 1
      BY <3>1 DEF Width
    <3>3. r = PlaceOf(Len(src) + 1)
      BY <2>2, <2>4, <3>2, ConsumeEnd
    <3>4. q = r
      BY <1>2, <1>3, <1>5, <3>1
    <3>5. q.off = Len(src) + 1
      BY <1>1, <3>3, <3>4
    <3>6. Char(q.off) # "tick"
      BY <1>0, <3>5
    <3>7. q \in Position
      BY <1>0, <1>1, <3>3, <3>4
    <3> QED
      BY <1>0, <2>4, <3>5, <3>6, <3>7
  <2>5. CASE i + 2 \in 1 .. Len(src) /\ Width(Char(i + 2)) # 1
    <3>1. Char(i + 2) \notin {"u", "tick"}
      BY <2>5 DEF Width
    <3>2. r = [s EXCEPT !.col = @ + 1]
      BY <2>3, <2>5
    <3>3. r.off = s.off
      <4>1. s = [off |-> i + 2, line |-> s.line, col |-> s.col]
        BY <2>2, PlaceIs
      <4> HIDE DEF s, r
      <4> QED
        BY <3>2, <4>1
    <3>4. q = r
      BY <1>2, <1>3, <1>5, <2>3, <3>1
    <3>5. q.off = i + 2
      BY <2>3, <3>3, <3>4
    <3>6. Char(q.off) # "tick"
      BY <3>1, <3>5
    <3>7. s \in Position
      <4>1. i + 2 \in 1 .. Len(src) + 1
        BY <1>0, <2>5
      <4> QED
        BY <1>1, <2>2, <4>1
    <3>8. q \in Position
      <4> HIDE DEF s, r
      <4> QED
        BY <3>2, <3>4, <3>7 DEF Position
    <3> QED
      BY <1>0, <2>5, <3>5, <3>6, <3>8
  <2>6. CASE i + 2 \in 1 .. Len(src) /\ Width(Char(i + 2)) = 1
    <3>1. /\ r = PlaceOf(Behind(i + 2)) /\ Behind(i + 2) \in (i + 2) + 1 .. Len(src) + 1
          /\ Behind(i + 2) = IF Char(i + 2) = "cr" /\ Char((i + 2) + 1) = "lf" THEN (i + 2) + 2 ELSE (i + 2) + 1
      BY <2>2, <2>3, <2>6, ConsumePlace
    <3>2. r.off = Behind(i + 2)
      BY <1>1, <3>1
    <3>3. Char(i + 2) # "end"
      BY <1>0, <2>6
    <3>4. CASE Char(i + 2) = "u" /\ Char(i + 3) = "lbrace"
      <4>1. Behind(i + 2) = i + 3
        BY <3>1, <3>4
      <4> DEFINE b == BraceEnd(i + 3)
      <4>2. i + 3 \in 1 .. Len(src)
        BY <1>0, <2>6, <3>4
      <4>3. b \in i + 3 .. Len(src) + 1 /\ Char(b) \in {"rbrace", "end"} /\ \A k \in i + 3 .. b - 1 : src[k] # "rbrace"
        <5>1. i + 3 \in 1 .. Len(src) + 1
          BY <4>2
        <5> QED
          BY <5>1, BraceEndIs
      <4>4. Placed(r) /\ r.off = i + 3
        BY <3>1, <3>2, <4>1, <4>2 DEF Placed
      <4>5. q = Consume(Walk(r, b))
        BY <1>2, <1>3, <1>5, <2>3, <3>4, <4>4
      <4> HIDE DEF b, s, p, r
      <4>6. Walk(r, b) = PlaceOf(b)
        <5>1. b > r.off => ~(Char(b - 1) = "cr" /\ Char(b) = "lf")
          BY <4>3
        <5>2. b \in r.off .. Len(src) + 1
          BY <4>3, <4>4
        <5> QED
          BY <4>4, <5>1, <5>2, WalkReaches
      <4>7. CASE b = Len(src) + 1
        <5>1. q = PlaceOf(Len(src) + 1)
          BY <4>5, <4>6, <4>7, ConsumeEnd
        <5>2. q.off = Len(src) + 1
          BY <1>1, <5>1
        <5>3. Char(q.off) # "tick"
          BY <1>0, <5>2
        <5>4. q \in Position
          BY <1>0, <1>1, <5>1
        <5> QED
          BY <1>0, <5>2, <5>3, <5>4
      <4>8. CASE b \in 1 .. Len(src)
        <5>1. Char(b) = "rbrace" /\ b # i + 3
          BY <1>0, <3>4, <4>3, <4>8
        <5>2. q = PlaceOf(Behind(b)) /\ Behind(b) = IF Char(b) = "cr" /\ Char(b + 1) = "lf" THEN b + 2 ELSE b + 1
          BY <4>5, <4>6, <4>8, ConsumePlace
        <5>3. Behind(b) = b + 1
          BY <5>1, <5>2
        <5>4. q.off = b + 1 /\ q = PlaceOf(q.off)
          BY <1>1, <5>2, <5>3
        <5>5. b \in i + 4 .. Len(src) /\ b + 1 \in i + 5 .. Len(src) + 1 /\ (b + 1) - 1 = b /\ (b + 1) - 2 = b - 1
          BY <1>0, <4>3, <4>8, <5>1
        <5>6. CharEnd(i, b + 1)
          <6>1. \A l \in i + 4 .. b - 1 : src[l] # "rbrace"
            BY <4>3
          <6> QED
            BY <1>5, <3>4, <5>1, <5>5, <6>1 DEF CharEnd
        <5>7. b + 1 \in i + 1 .. Len(src) + 1 /\ b + 1 \in 1 .. Len(src) + 1
          BY <5>5
        <5>8. q \in Position
          BY <1>1, <5>2, <5>3, <5>7
        <5> QED
          BY <5>4, <5>6, <5>7, <5>8
      <4> QED
        BY <1>0, <4>2, <4>3, <4>7, <4>8
    <3>5. CASE ~(Char(i + 2) = "u" /\ Char(i + 3) = "lbrace")
      <4>1. Char(i + 2) = "u" => Behind(i + 2) = i + 3
        BY <3>1
      <4>2. q = r
        BY <1>2, <1>3, <1>5, <2>3, <3>2, <3>5, <4>1
      <4>3. q.off = Behind(i + 2) /\ q = PlaceOf(q.off)
        BY <3>1, <3>2, <4>2
      <4>4. Behind(i + 2) \in i + 1 .. Len(src) + 1 /\ Behind(i + 2) \in 1 .. Len(src) + 1
        BY <3>1
      <4>6. q \in Position
        BY <1>1, <3>1, <4>2, <4>4
      <4>5. CharEnd(i, Behind(i + 2))
        BY <1>5, <2>6, <3>3, <3>5 DEF CharEnd
      <4> QED
        BY <4>3, <4>4, <4>5, <4>6
    <3> QED
      BY <3>4, <3>5
  <2>7. i + 2 = Len(src) + 1 \/ i + 2 \in 1 .. Len(src)
    BY <1>0, <2>1
  <2> QED
    BY <2>4, <2>5, <2>6, <2>7
<1> QED
  BY <1>4, <1>5

LEMMA CharIsLongest ==
  ASSUME IsText, NEW i \in 1 .. Len(src), Char(i) = "tick",
         NEW k \in i + 1 .. Len(src) + 1, CharEnd(i, k), Char(k) = "tick"
  PROVE  Longest("char", i, k + 1)
<1>0. Len(src) \in Nat /\ (\A l \in 1 .. Len(src) : Char(l) = src[l]) /\ \A l \in Nat : l > Len(src) => Char(l) = "end"
  BY TextFacts
<1>1. k \in 1 .. Len(src) /\ k + 1 \in i + 1 .. Len(src) + 1
  BY <1>0
<1>2. \A l \in Nat : Behind(l) = IF Char(l) = "cr" /\ Char(l + 1) = "lf" THEN l + 2 ELSE l + 1
  BY StartsTwo DEF Behind
<1>3. \A l \in Nat : Behind(l) \in Nat /\ Behind(l) > l
  BY <1>2
<1>4. i + 1 \in 1 .. Len(src) /\ src[i + 1] = Char(i + 1)
  <2>1. Char(i + 1) # "end"
    BY DEF CharEnd
  <2>2. ~(i + 1 > Len(src))
    BY <1>0, <2>1
  <2> QED
    BY <1>0, <2>2
<1>5. Char(i + 1) = "bs" => i + 2 \in 1 .. Len(src) /\ src[i + 2] = Char(i + 2)
  <2> HAVE Char(i + 1) = "bs"
  <2>1. Char(i + 2) # "end"
    BY DEF CharEnd
  <2>2. ~(i + 2 > Len(src))
    BY <1>0, <2>1
  <2> QED
    BY <1>0, <2>2
<1>6. Starts(i + 1, <<"bs", "u", "lbrace">>) <=> Char(i + 1) = "bs" /\ Char(i + 2) = "u" /\ Char(i + 3) = "lbrace"
  <2>1. i + 1 \in Nat /\ (i + 1) + 1 = i + 2 /\ (i + 1) + 2 = i + 3
    OBVIOUS
  <2>2. Starts(i + 1, <<"bs", "u", "lbrace">>) <=> Char(i + 1) = "bs" /\ Char((i + 1) + 1) = "u" /\ Char((i + 1) + 2) = "lbrace"
    BY <2>1, StartsThree
  <2> QED
    BY <2>1, <2>2
<1>7. IsChar(i, k + 1)
  <2>1. src[i] = "tick" /\ src[(k + 1) - 1] = "tick"
    BY <1>0, <1>1
  <2>2. i + 2 < k + 1
    <3>1. i + 1 \in Nat /\ i + 2 \in Nat
      OBVIOUS
    <3>2. k # i + 1
      <4>1. Behind(i + 1) > i + 1 /\ Behind(i + 1) \in Nat /\ Behind(i + 2) > i + 2 /\ Behind(i + 2) \in Nat
        BY <1>3, <3>1
      <4>2. k = Behind(i + 1) \/ k = Behind(i + 2) \/ k \in i + 5 .. Len(src) + 1
        BY DEF CharEnd
      <4> QED
        BY <4>1, <4>2
    <3> QED
      BY <1>1, <3>2
  <2>3. CASE Char(i + 1) # "bs" /\ k = Behind(i + 1)
    BY <1>4, <2>1, <2>2, <2>3 DEF IsChar
  <2>4. CASE Char(i + 1) = "bs" /\ Width(Char(i + 2)) = 1 /\ k = Behind(i + 2)
    BY <1>4, <1>5, <2>1, <2>2, <2>4 DEF IsChar
  <2>5. CASE /\ Char(i + 1) = "bs" /\ Char(i + 2) = "u" /\ Char(i + 3) = "lbrace"
             /\ k \in i + 5 .. Len(src) + 1 /\ Char(k - 1) = "rbrace" /\ \A l \in i + 4 .. k - 2 : src[l] # "rbrace"
    <3>1. k - 1 \in 1 .. Len(src) /\ (k + 1) - 2 = k - 1 /\ (k + 1) - 3 = k - 2
      BY <1>1, <2>5
    <3>2. src[(k + 1) - 2] = "rbrace"
      BY <1>0, <2>5, <3>1
    <3> QED
      BY <1>6, <2>1, <2>2, <2>5, <3>1, <3>2 DEF IsChar
  <2> QED
    BY <2>3, <2>4, <2>5 DEF CharEnd
<1>8. ASSUME NEW d \in LexemeKinds, NEW m \in k + 1 + 1 .. Len(src) + 1, IsLexeme(d, i, m) PROVE FALSE
  <2>1. m \in i + 1 .. Len(src) + 1 /\ m > k + 1
    BY <1>0, <1>1
  <2>2. src[i] = "tick"
    BY <1>0
  <2>3. d = "char"
    BY <1>8, <2>1, <2>2, LexemeBegins DEF LexemeKinds, PunctChars, Digits, IdentStartChars, LetterChars
  <2>4. IsChar(i, m)
    BY <1>8, <2>1, <2>3, LexemeBegins
  <2>5. i + 1 \in Nat /\ i + 2 \in Nat
    OBVIOUS
  <2>6. CASE src[i + 1] # "bs"
    <3>1. k = Behind(i + 1)
      BY <1>4, <2>6 DEF CharEnd
    <3>2. m = Behind(i + 1) + 1
      <4>1. Char(i + 1) # "bs"
        BY <1>4, <2>6
      <4> QED
        BY <1>6, <2>4, <2>6, <4>1 DEF IsChar
    <3> QED
      BY <2>1, <3>1, <3>2
  <2>7. CASE src[i + 1] = "bs"
    <3>1. Char(i + 1) = "bs"
      BY <1>4, <2>7
    <3>2. \/ m = Behind(i + 2) + 1
          \/ /\ Char(i + 2) = "u" /\ Char(i + 3) = "lbrace"
             /\ src[m - 2] = "rbrace" /\ \A l \in i + 4 .. m - 3 : src[l] # "rbrace"
      BY <1>6, <2>4, <2>7 DEF IsChar
    <3>3. CASE k = Behind(i + 2) /\ ~(Char(i + 2) = "u" /\ Char(i + 3) = "lbrace")
      BY <2>1, <3>2, <3>3
    <3>4. CASE /\ Char(i + 2) = "u" /\ Char(i + 3) = "lbrace"
               /\ k \in i + 5 .. Len(src) + 1 /\ Char(k - 1) = "rbrace" /\ \A l \in i + 4 .. k - 2 : src[l] # "rbrace"
      <4>1. Behind(i + 2) = i + 3
        BY <1>2, <2>5, <3>4
      <4>2. m # Behind(i + 2) + 1
        BY <2>1, <3>4, <4>1
      <4>3. k - 1 \in i + 4 .. m - 3 /\ k - 1 \in 1 .. Len(src)
        BY <1>1, <2>1, <3>4
      <4> QED
        BY <1>0, <3>2, <3>4, <4>2, <4>3
    <3> QED
      BY <3>1, <3>3, <3>4 DEF CharEnd
  <2> QED
    BY <2>6, <2>7
<1>9. "char" \in LexemeKinds /\ IsLexeme("char", i, k + 1)
  BY <1>7 DEF LexemeKinds, IsLexeme
<1> QED
  BY <1>1, <1>8, <1>9 DEF Longest
\* What is read of the inside of a string is made of its pieces, and whatever
\* longer inside there is goes on from here.
Body(start, h) ==
  h <= Len(src) =>
    /\ MadeOf(start, h, StringText)
    /\ \A m \in h .. Len(src) + 1 : MadeOf(start, m, StringText) => MadeOf(h, m, StringText)

LEMMA StringPieces ==
  ASSUME IsText, NEW h \in 1 .. Len(src)
  PROVE  /\ \A p \in StringText : p[1] \in Nat /\ p[2] \in Nat /\ p[1] < p[2]
         /\ Char(h) \notin {"quote", "bs"} => <<h, Behind(h)>> \in StringText /\ \A p \in StringText : p[1] = h => p[2] = Behind(h)
         /\ Char(h) = "bs" /\ h < Len(src) =>
              <<h, Behind(h + 1)>> \in StringText /\ \A p \in StringText : p[1] = h => p[2] = Behind(h + 1)
         /\ Char(h) = "quote" => \A p \in StringText : p[1] # h
<1>0. Len(src) \in Nat /\ Char(h) = src[h]
  BY TextFacts
<1>1. \A p \in StringText : p[1] \in Nat /\ p[2] \in Nat /\ p[1] < p[2]
  BY <1>0 DEF StringText, Stretches
<1>2. ASSUME Char(h) \notin {"quote", "bs"}
      PROVE  <<h, Behind(h)>> \in StringText /\ \A p \in StringText : p[1] = h => p[2] = Behind(h)
  <2>1. Behind(h) \in h + 1 .. Len(src) + 1
    BY ConsumePlace
  <2> DEFINE p == <<h, Behind(h)>>
  <2>2. p \in (1 .. Len(src) + 1) \X (1 .. Len(src) + 1) /\ p[1] = h /\ p[2] = Behind(h)
    BY <1>0, <2>1
  <2>3. p \in Stretches
    BY <2>1, <2>2 DEF Stretches
  <2>4. p \in StringText
    BY <1>0, <1>2, <2>2, <2>3 DEF StringText
  <2>5. \A x \in StringText : x[1] = h => x[2] = Behind(h)
    BY <1>0, <1>2 DEF StringText
  <2> QED
    BY <2>4, <2>5
<1>3. ASSUME Char(h) = "bs", h < Len(src)
      PROVE  <<h, Behind(h + 1)>> \in StringText /\ \A p \in StringText : p[1] = h => p[2] = Behind(h + 1)
  <2>1. Behind(h + 1) \in h + 2 .. Len(src) + 1
    <3>1. h + 1 \in 1 .. Len(src)
      BY <1>0, <1>3
    <3>2. Behind(h + 1) \in (h + 1) + 1 .. Len(src) + 1
      BY <3>1, ConsumePlace
    <3> QED
      BY <3>2
  <2> DEFINE p == <<h, Behind(h + 1)>>
  <2>2. p \in (1 .. Len(src) + 1) \X (1 .. Len(src) + 1) /\ p[1] = h /\ p[2] = Behind(h + 1)
    BY <1>0, <2>1
  <2>3. p \in Stretches
    BY <2>1, <2>2 DEF Stretches
  <2>4. p \in StringText
    BY <1>0, <1>3, <2>2, <2>3 DEF StringText
  <2>5. \A x \in StringText : x[1] = h => x[2] = Behind(h + 1)
    BY <1>0, <1>3 DEF StringText
  <2> QED
    BY <2>4, <2>5
<1>4. ASSUME Char(h) = "quote" PROVE \A p \in StringText : p[1] # h
  BY <1>0, <1>4 DEF StringText
<1> QED
  BY <1>1, <1>2, <1>3, <1>4

LEMMA BodyStarts == ASSUME IsText, NEW h \in 1 .. Len(src) + 1 PROVE Body(h, h)
BY TextFacts, MadeOfNothing DEF Body

\* One piece further.
LEMMA BodyGoesOn ==
  ASSUME IsText, NEW h \in 1 .. Len(src), NEW start \in 1 .. h, Body(start, h),
         NEW k \in h + 1 .. Len(src) + 1, <<h, k>> \in StringText, \A p \in StringText : p[1] = h => p[2] = k
  PROVE  Body(start, k)
<1>0. Len(src) \in Nat /\ h \in Nat /\ k \in Nat /\ start \in Nat
  BY TextFacts
<1>1. \A p \in StringText : p[1] \in Nat /\ p[2] \in Nat /\ p[1] < p[2]
  BY StringPieces
<1>2. MadeOf(start, h, StringText)
      /\ \A m \in h .. Len(src) + 1 : MadeOf(start, m, StringText) => MadeOf(h, m, StringText)
  BY <1>0 DEF Body
<1>3. MadeOf(h, k, StringText)
  BY <1>0, MadeOfOne
<1>4. MadeOf(start, k, StringText)
  BY <1>0, <1>1, <1>2, <1>3, MadeOfBoth
<1>5. ASSUME NEW m \in k .. Len(src) + 1, MadeOf(start, m, StringText) PROVE MadeOf(k, m, StringText)
  <2>1. m \in h .. Len(src) + 1 /\ m \in Nat /\ h < m /\ h < k
    BY <1>0
  <2>2. MadeOf(h, m, StringText)
    BY <1>2, <1>5, <2>1
  <2> QED
    BY <1>0, <1>1, <2>1, <2>2, MadeOfSkip
<1> QED
  BY <1>4, <1>5 DEF Body

\* The first quote that no escape takes closes a string.
LEMMA StringIsLongest ==
  ASSUME IsText, NEW i \in 1 .. Len(src), NEW kind \in {"string", "cstring"},
         kind = "cstring" => Char(i) = "c",
         NEW start \in i + 1 .. Len(src) + 1, start = IF kind = "string" THEN i + 1 ELSE i + 2,
         Char(start - 1) = "quote",
         NEW h \in start .. Len(src), Char(h) = "quote", Body(start, h)
  PROVE  Longest(kind, i, h + 1)
<1>0. Len(src) \in Nat /\ \A l \in 1 .. Len(src) : Char(l) = src[l]
  BY TextFacts
<1> DEFINE q == start - 1
<1>1. q \in 1 .. Len(src) /\ h \in 1 .. Len(src) /\ h + 1 \in i + 1 .. Len(src) + 1 /\ q + 1 = start /\ q \in i .. i + 1
      /\ start \in Nat /\ (h + 1) - 1 = h /\ q + 1 < h + 1 /\ i \in Nat
  BY <1>0
<1>2. src[q] = "quote" /\ src[h] = "quote"
  BY <1>0, <1>1
<1>3. MadeOf(start, h, StringText)
      /\ \A m \in h .. Len(src) + 1 : MadeOf(start, m, StringText) => MadeOf(h, m, StringText)
  BY <1>0 DEF Body
<1> HIDE DEF q
<1>4. IsString(q, h + 1)
  BY <1>1, <1>2, <1>3 DEF IsString, InsideString
<1>5. IsLexeme(kind, i, h + 1)
  <2>1. CASE kind = "string"
    <3>1. q = i
      BY <1>1, <2>1 DEF q
    <3> QED
      BY <1>4, <2>1, <3>1 DEF IsLexeme
  <2>2. CASE kind = "cstring"
    <3>1. q = i + 1
      BY <1>1, <2>2 DEF q
    <3>2. Starts(i, <<"c">>)
      BY <1>1, <2>2, StartsOne
    <3> QED
      BY <1>4, <2>2, <3>1, <3>2 DEF IsLexeme
  <2> QED
    BY <2>1, <2>2
<1>6. ASSUME NEW k \in LexemeKinds, NEW m \in h + 1 + 1 .. Len(src) + 1, IsLexeme(k, i, m) PROVE FALSE
  <2>1. m \in i + 1 .. Len(src) + 1 /\ m - 1 \in h .. Len(src) + 1 /\ m - 1 # h /\ m \in Nat /\ m - 1 \in Nat /\ h \in Nat
    BY <1>0, <1>1
  <2>2. IsString(q, m)
    <3>1. CASE kind = "string"
      <4>1. q = i
        BY <1>1, <3>1 DEF q
      <4>2. src[i] = "quote"
        BY <1>2, <4>1
      <4>3. k = "string"
        BY <1>6, <2>1, <4>2, LexemeBegins DEF LexemeKinds, PunctChars, Digits, IdentStartChars, LetterChars
      <4> QED
        BY <1>6, <2>1, <4>1, <4>3, LexemeBegins
    <3>2. CASE kind = "cstring"
      <4>1. q = i + 1
        BY <1>1, <3>2 DEF q
      <4>2. src[i] = "c"
        BY <1>0, <3>2
      <4>3. k \in {"ident", "cstring"}
        BY <1>6, <2>1, <4>2, LexemeBegins DEF LexemeKinds, PunctChars, Digits
      <4>4. k # "ident"
        <5> SUFFICES ASSUME k = "ident" PROVE FALSE
          OBVIOUS
        <5>1. IsIdent(i, m)
          BY <1>6, <2>1, LexemeBegins
        <5>2. q \in i .. m - 1
          BY <1>1, <2>1, <4>1
        <5>3. src[q] \in IdentContinueChars
          BY <5>1, <5>2 DEF IsIdent, All
        <5> QED
          BY <1>2, <5>3, NumberChars
      <4> QED
        BY <1>6, <2>1, <4>1, <4>3, <4>4, LexemeBegins
    <3> QED
      BY <3>1, <3>2
  <2>3. MadeOf(start, m - 1, StringText)
    BY <1>1, <2>2 DEF IsString, InsideString
  <2>4. MadeOf(h, m - 1, StringText)
    BY <1>3, <2>1, <2>3
  <2>5. \A p \in StringText : p[1] # h
    BY <1>1, StringPieces
  <2> QED
    BY <2>1, <2>4, <2>5, MadeOfEnds
<1>7. kind \in LexemeKinds
  BY DEF LexemeKinds
<1> QED
  BY <1>1, <1>5, <1>6, <1>7 DEF Longest
-----------------------------------------------------------------------------
(* What holds while a text is scanned.  It is said of the values that a step
   leaves as well as of those it meets, for one and the same text. *)

Modes == {"start", "trivia", "line", "block", "raw", "string", "cstring", "done"}
Inner == {"line", "block", "raw", "string", "cstring"}
TokenSet == [kind : LexemeKinds \cup {"EOF"}, from : Position, to : Position]

\* A token is the longest lexeme at its place.
Lexed(t) ==
  /\ t.from.off \in 1 .. Len(src) /\ t.from = PlaceOf(t.from.off) /\ t.to = PlaceOf(t.to.off)
  /\ Longest(t.kind, t.from.off, t.to.off)

\* The tokens before the place end.
TokensOK(ts, end) ==
  /\ ts \in Seq(TokenSet)
  /\ \A n \in 1 .. Len(ts) : Lexed(ts[n]) /\ ts[n].to.off <= (IF n = Len(ts) THEN end ELSE ts[n + 1].from.off)
\* All tokens, the last of them EOF.
DoneOK(ts) ==
  /\ ts \in Seq(TokenSet)
  /\ \A n \in 1 .. Len(ts) - 1 : Lexed(ts[n]) /\ ts[n].to.off <= ts[n + 1].from.off

\* What the routine that scans the inside of a token has read.
InnerOK(h, m, f, c) ==
  /\ Placed(f) /\ f.off <= Len(src) /\ f.off <= h.off
  /\ m = "string" => Char(f.off) = "quote" /\ f.off + 1 <= h.off /\ Body(f.off + 1, h.off)
  /\ m = "cstring" => /\ Char(f.off) = "c" /\ Char(f.off + 1) = "quote" /\ f.off + 2 <= h.off
                      /\ Body(f.off + 2, h.off)
  /\ m = "raw" => /\ Char(f.off) = "r" /\ Past(f.off + 1, {"#"}) = f.off + c + 1
                  /\ Char(f.off + c + 1) = "quote" /\ f.off + c + 2 <= h.off
                  /\ \A k \in f.off + c + 2 .. h.off - 1 : ~(Char(k) = "quote" /\ HashesMatchAt(k + 1, c))

LexOK(h, m, f, c, ts, st) ==
  /\ h \in Position /\ f \in Position /\ m \in Modes /\ c \in Nat /\ st \in BOOLEAN
  /\ ~st => Placed(h)
  /\ m = "start" => ~st
  /\ m = "done" => DoneOK(ts)
  /\ m \in {"start", "trivia"} => TokensOK(ts, h.off)
  /\ m \in Inner => ~st /\ TokensOK(ts, f.off) /\ InnerOK(h, m, f, c)

\* The inductive invariant of the scanner.
LexInv == IsText /\ LexOK(here, mode, from, count, tokens, stopped)

LEMMA TokensLater ==
  ASSUME NEW ts, NEW e \in Nat, NEW e2 \in Nat, e <= e2, TokensOK(ts, e)
  PROVE  TokensOK(ts, e2)
<1>1. \A n \in 1 .. Len(ts) : ts[n] \in TokenSet
  BY DEF TokensOK
<1>2. \A n \in 1 .. Len(ts) : ts[n].to.off \in Nat
  BY <1>1 DEF TokenSet, Position
<1> QED
  BY <1>2 DEF TokensOK

LEMMA TokensEmit ==
  ASSUME NEW ts, NEW t \in TokenSet, NEW e \in Nat, e <= t.from.off, TokensOK(ts, e), Lexed(t)
  PROVE  TokensOK(Append(ts, t), t.to.off)
<1>0. ts \in Seq(TokenSet) /\ Len(ts) \in Nat
      /\ \A n \in 1 .. Len(ts) : Lexed(ts[n]) /\ ts[n].to.off <= (IF n = Len(ts) THEN e ELSE ts[n + 1].from.off)
  BY DEF TokensOK
<1> DEFINE us == Append(ts, t)
<1>1. us \in Seq(TokenSet) /\ Len(us) = Len(ts) + 1 /\ us[Len(ts) + 1] = t
      /\ \A n \in 1 .. Len(ts) : us[n] = ts[n]
  BY <1>0
<1>2. t.to.off \in Nat /\ t.from.off \in Nat /\ \A n \in 1 .. Len(ts) : ts[n].to.off \in Nat
  <2>1. \A n \in 1 .. Len(ts) : ts[n] \in TokenSet
    BY <1>0
  <2> QED
    BY <2>1 DEF TokenSet, Position
<1> HIDE DEF us
<1>3. ASSUME NEW n \in 1 .. Len(us)
      PROVE  Lexed(us[n]) /\ us[n].to.off <= (IF n = Len(us) THEN t.to.off ELSE us[n + 1].from.off)
  <2>1. CASE n = Len(us)
    BY <1>0, <1>1, <1>2, <2>1
  <2>2. CASE n = Len(ts)
    <3>1. ts[n].to.off <= e /\ n # Len(us) /\ n \in 1 .. Len(ts)
      BY <1>0, <1>1, <2>2
    <3>2. us[n] = ts[n] /\ us[n + 1] = t
      BY <1>1, <2>2, <3>1
    <3> QED
      BY <1>0, <1>2, <3>1, <3>2
  <2>3. CASE n \in 1 .. Len(ts) - 1
    <3>1. n \in 1 .. Len(ts) /\ n + 1 \in 1 .. Len(ts) /\ n # Len(us) /\ n # Len(ts)
      BY <1>0, <1>1, <2>3
    <3> QED
      BY <1>0, <1>1, <3>1
  <2> QED
    BY <1>0, <1>1, <2>1, <2>2, <2>3
<1> QED
  BY <1>1, <1>3 DEF TokensOK, us

LEMMA TokensEnd ==
  ASSUME NEW ts, NEW t \in TokenSet, TokensOK(ts, t.from.off)
  PROVE  DoneOK(Append(ts, t))
<1>0. ts \in Seq(TokenSet) /\ Len(ts) \in Nat
      /\ \A n \in 1 .. Len(ts) : Lexed(ts[n]) /\ ts[n].to.off <= (IF n = Len(ts) THEN t.from.off ELSE ts[n + 1].from.off)
  BY DEF TokensOK
<1> DEFINE us == Append(ts, t)
<1>1. us \in Seq(TokenSet) /\ Len(us) = Len(ts) + 1 /\ us[Len(ts) + 1] = t
      /\ \A n \in 1 .. Len(ts) : us[n] = ts[n]
  BY <1>0
<1> HIDE DEF us
<1>2. ASSUME NEW n \in 1 .. Len(us) - 1 PROVE Lexed(us[n]) /\ us[n].to.off <= us[n + 1].from.off
  <2>1. n \in 1 .. Len(ts) /\ (n # Len(ts) => n + 1 \in 1 .. Len(ts))
    BY <1>0, <1>1
  <2>2. n = Len(ts) => us[n + 1] = t
    BY <1>1
  <2> QED
    BY <1>0, <1>1, <2>1, <2>2
<1> QED
  BY <1>1, <1>2 DEF DoneOK, us

\* A token whose lexeme begins at a place.
LEMMA TokenLexed ==
  ASSUME IsText, NEW kind, NEW i \in 1 .. Len(src), NEW j, Longest(kind, i, j)
  PROVE  /\ Token(kind, PlaceOf(i), PlaceOf(j)) \in TokenSet /\ Lexed(Token(kind, PlaceOf(i), PlaceOf(j)))
         /\ Token(kind, PlaceOf(i), PlaceOf(j)).from.off = i /\ Token(kind, PlaceOf(i), PlaceOf(j)).to.off = j
<1>0. Len(src) \in Nat
  BY TextFacts
<1>1. kind \in LexemeKinds /\ j \in i + 1 .. Len(src) + 1
  BY DEF Longest
<1>2. i \in 1 .. Len(src) + 1 /\ j \in 1 .. Len(src) + 1
  BY <1>0, <1>1
<1>3. PlaceOf(i) \in Position /\ PlaceOf(j) \in Position /\ PlaceOf(i).off = i /\ PlaceOf(j).off = j
  BY <1>2, PlaceTyped, PlaceIs
<1> DEFINE t == Token(kind, PlaceOf(i), PlaceOf(j))
<1>4. t.kind = kind /\ t.from = PlaceOf(i) /\ t.to = PlaceOf(j)
  BY DEF Token
<1>5. t \in TokenSet
  BY <1>1, <1>3 DEF TokenSet, Token
<1>6. Lexed(t)
  <2> HIDE DEF t
  <2> QED
    BY <1>3, <1>4 DEF Lexed
<1> QED
  <2> HIDE DEF t
  <2>1. t \in TokenSet /\ Lexed(t) /\ t.from.off = i /\ t.to.off = j
    BY <1>3, <1>4, <1>5, <1>6
  <2> QED
    BY <2>1 DEF t
-----------------------------------------------------------------------------
(* Each action keeps it *)

LexNext == LexOK(here', mode', from', count', tokens', stopped')

LEMMA LexFacts ==
  LexInv =>
    /\ IsText /\ here \in Position /\ from \in Position /\ mode \in Modes /\ count \in Nat /\ stopped \in BOOLEAN
    /\ here.off \in Nat /\ from.off \in Nat
    /\ (mode \in {"start", "trivia"} => TokensOK(tokens, here.off))
    /\ (mode \in Inner => ~stopped /\ TokensOK(tokens, from.off) /\ InnerOK(here, mode, from, count))
    /\ (mode = "start" => ~stopped)
    /\ (~stopped => Placed(here))
BY DEF LexInv, LexOK, Position

\* Where a token or comment can begin.
LEMMA ScanFacts ==
  ASSUME LexInv, Scanning
  PROVE  /\ IsText /\ Len(src) \in Nat /\ here.off \in 1 .. Len(src) /\ here = PlaceOf(here.off)
         /\ Placed(here) /\ Here = Char(here.off) /\ Char(here.off) = src[here.off] /\ src[here.off] # "end"
         /\ TokensOK(tokens, here.off) /\ mode = "trivia" /\ ~stopped
<1>1. IsText /\ Placed(here) /\ mode = "trivia" /\ ~stopped /\ TokensOK(tokens, here.off)
  BY LexFacts DEF Scanning
<1>2. Len(src) \in Nat /\ here.off \in 1 .. Len(src) + 1 /\ ~(here.off > Len(src))
  BY <1>1, TextFacts DEF Placed, Scanning, Ended
<1>3. here.off \in 1 .. Len(src)
  BY <1>2
<1> QED
  BY <1>1, <1>2, <1>3, TextFacts DEF Placed, Here

LEMMA EmitFromOK ==
  ASSUME LexInv, Scanning, NEW kind, NEW j, Longest(kind, here.off, j), EmitFrom(kind, PlaceOf(j))
  PROVE  LexNext
<1>1. /\ IsText /\ here.off \in 1 .. Len(src) /\ here = PlaceOf(here.off) /\ TokensOK(tokens, here.off)
      /\ mode = "trivia" /\ ~stopped /\ here.off \in Nat
  BY ScanFacts, LexFacts
<1> DEFINE t == Token(kind, PlaceOf(here.off), PlaceOf(j))
<1>2. t \in TokenSet /\ Lexed(t) /\ t.from.off = here.off /\ t.to.off = j
  BY <1>1, TokenLexed
<1>3. tokens' = Append(tokens, t) /\ here' = PlaceOf(j) /\ mode' = mode /\ from' = from /\ count' = count /\ stopped' = stopped
  BY <1>1 DEF EmitFrom
<1> HIDE DEF t
<1>4. TokensOK(Append(tokens, t), t.to.off)
  BY <1>1, <1>2, TokensEmit
<1>5. j \in 1 .. Len(src) + 1
  BY <1>1, TextFacts DEF Longest
<1>6. PlaceOf(j) \in Position /\ Placed(PlaceOf(j)) /\ PlaceOf(j).off = j
  BY <1>1, <1>5, PlaceTyped, PlaceIs DEF Placed
<1>7. TokensOK(tokens', here'.off)
  BY <1>2, <1>3, <1>4, <1>6
<1> QED
  BY <1>1, <1>3, <1>6, <1>7, LexFacts DEF LexNext, LexOK, Inner

LEMMA EmitOK ==
  ASSUME LexInv, mode \in Inner, NEW kind, NEW j, Longest(kind, from.off, j), Emit(kind, PlaceOf(j))
  PROVE  LexNext
<1>1. /\ IsText /\ from.off \in 1 .. Len(src) /\ from = PlaceOf(from.off) /\ TokensOK(tokens, from.off)
      /\ ~stopped /\ from.off \in Nat
  <2>1. IsText /\ Placed(from) /\ from.off <= Len(src) /\ TokensOK(tokens, from.off) /\ ~stopped
    BY LexFacts DEF InnerOK
  <2> QED
    BY <2>1, TextFacts DEF Placed
<1> DEFINE t == Token(kind, PlaceOf(from.off), PlaceOf(j))
<1>2. t \in TokenSet /\ Lexed(t) /\ t.from.off = from.off /\ t.to.off = j
  BY <1>1, TokenLexed
<1>3. tokens' = Append(tokens, t) /\ here' = PlaceOf(j) /\ mode' = "trivia" /\ from' = from /\ count' = count /\ stopped' = stopped
  BY <1>1 DEF Emit
<1> HIDE DEF t
<1>4. TokensOK(Append(tokens, t), t.to.off)
  BY <1>1, <1>2, TokensEmit
<1>5. j \in 1 .. Len(src) + 1
  BY <1>1, TextFacts DEF Longest
<1>6. PlaceOf(j) \in Position /\ Placed(PlaceOf(j)) /\ PlaceOf(j).off = j
  BY <1>1, <1>5, PlaceTyped, PlaceIs DEF Placed
<1>7. TokensOK(tokens', here'.off)
  BY <1>2, <1>3, <1>4, <1>6
<1> QED
  BY <1>1, <1>3, <1>6, <1>7, LexFacts DEF LexNext, LexOK, Inner, Modes

\* Nothing but a place further on.
LEMMA OnwardOK ==
  ASSUME LexInv, mode \in {"start", "trivia"}, mode' = "trivia", here' \in Position, here.off <= here'.off,
         ~stopped' => Placed(here'), stopped' \in BOOLEAN, UNCHANGED <<from, count, tokens>>
  PROVE  LexNext
<1>1. TokensOK(tokens, here.off) /\ here.off \in Nat /\ here'.off \in Nat
  BY LexFacts DEF Position
<1>2. TokensOK(tokens, here'.off)
  BY <1>1, TokensLater
<1> QED
  BY <1>2, LexFacts DEF LexNext, LexOK, Inner, Modes

\* Out of a comment or token that did not end.
LEMMA OutOK ==
  ASSUME LexInv, mode \in Inner, mode' = "trivia", stopped' \in BOOLEAN, UNCHANGED <<here, from, count, tokens>>
  PROVE  LexNext
<1>1. TokensOK(tokens, from.off) /\ from.off <= here.off /\ here.off \in Nat /\ from.off \in Nat /\ Placed(here)
  BY LexFacts DEF InnerOK
<1>2. TokensOK(tokens, here.off)
  BY <1>1, TokensLater
<1> QED
  BY <1>1, <1>2, LexFacts DEF LexNext, LexOK, Inner, Modes

LEMMA CheckBOMOK == LexInv /\ CheckBOM => LexNext
<1> SUFFICES ASSUME LexInv, CheckBOM PROVE LexNext
  OBVIOUS
<1>1. IsText /\ mode = "start" /\ mode' = "trivia" /\ ~stopped /\ Placed(here) /\ UNCHANGED <<from, count, tokens>>
      /\ here.off \in Nat /\ here \in Position /\ stopped \in BOOLEAN
  BY LexFacts DEF CheckBOM
<1>2. CASE Here = "bom"
  <2>1. stopped' = TRUE /\ here' = Consume(here)
    BY <1>2 DEF CheckBOM
  <2>2. here.off \in 1 .. Len(src)
    BY <1>1, <1>2, TextFacts DEF Placed, Here
  <2>3. Placed(Consume(here)) /\ Consume(here).off = Behind(here.off) /\ Behind(here.off) \in here.off + 1 .. Len(src) + 1
    BY <1>1, <2>2, ConsumePlaced, ConsumePlace
  <2>4. here' \in Position
    BY <1>1, <2>1, <2>3, PlaceTyped DEF Placed
  <2>5. here.off <= here'.off
    BY <1>1, <2>1, <2>3
  <2> QED
    BY <1>1, <2>1, <2>3, <2>4, <2>5, OnwardOK
<1>3. CASE Here # "bom"
  <2>1. stopped' = stopped /\ here' = here
    BY <1>3 DEF CheckBOM
  <2>2. here.off <= here'.off
    BY <1>1, <2>1
  <2>3. here' \in Position /\ Placed(here') /\ stopped' \in BOOLEAN
    BY <1>1, <2>1, Zenon
  <2> QED
    BY <1>1, <2>2, <2>3, OnwardOK
<1> QED
  BY <1>2, <1>3

LEMMA EmitEOFOK == LexInv /\ EmitEOF => LexNext
<1> SUFFICES ASSUME LexInv, EmitEOF PROVE LexNext
  OBVIOUS
<1> DEFINE t == Token("EOF", here, here)
<1>1. /\ mode' = "done" /\ tokens' = Append(tokens, t) /\ UNCHANGED <<here, from, count, stopped>>
      /\ TokensOK(tokens, here.off) /\ here \in Position
  BY LexFacts DEF EmitEOF
<1>2. t \in TokenSet /\ t.from.off = here.off
  BY <1>1 DEF TokenSet, Token
<1> HIDE DEF t
<1>3. DoneOK(tokens')
  BY <1>1, <1>2, TokensEnd
<1> QED
  BY <1>1, <1>3, LexFacts DEF LexNext, LexOK, Inner, Modes

\* One character further.
LEMMA Onward ==
  ASSUME IsText, NEW p, Placed(p), p.off <= Len(src)
  PROVE  /\ Placed(Consume(p)) /\ Consume(p) \in Position /\ Consume(p).off = Behind(p.off)
         /\ Behind(p.off) \in p.off + 1 .. Len(src) + 1
         /\ (Char(p.off) # "cr" => Behind(p.off) = p.off + 1)
<1>1. p.off \in 1 .. Len(src)
  BY TextFacts DEF Placed
<1>2. Placed(Consume(p)) /\ Consume(p).off = Behind(p.off)
  BY ConsumePlaced
<1>3. Behind(p.off) \in p.off + 1 .. Len(src) + 1
      /\ Behind(p.off) = IF Char(p.off) = "cr" /\ Char(p.off + 1) = "lf" THEN p.off + 2 ELSE p.off + 1
  BY <1>1, ConsumePlace
<1>4. Consume(p) \in Position
  BY <1>2, PlaceTyped DEF Placed
<1> QED
  BY <1>2, <1>3, <1>4

\* Two characters further, past an opener or an escape.
LEMMA OnwardTwice ==
  ASSUME IsText, NEW p, Placed(p), p.off < Len(src), Char(p.off) # "cr"
  PROVE  /\ Placed(Consume(Consume(p))) /\ Consume(Consume(p)) \in Position
         /\ Consume(Consume(p)).off = Behind(p.off + 1)
         /\ Behind(p.off + 1) \in p.off + 2 .. Len(src) + 1
         /\ (Char(p.off + 1) # "cr" => Behind(p.off + 1) = p.off + 2)
<1>0. Len(src) \in Nat /\ p.off \in 1 .. Len(src)
  BY TextFacts DEF Placed
<1> DEFINE q == Consume(p)
<1>1. Placed(q) /\ q.off = p.off + 1
  BY <1>0, Onward
<1> HIDE DEF q
<1>2. /\ Placed(Consume(q)) /\ Consume(q) \in Position /\ Consume(q).off = Behind(q.off)
      /\ Behind(q.off) \in q.off + 1 .. Len(src) + 1
      /\ (Char(q.off) # "cr" => Behind(q.off) = q.off + 1)
  BY <1>0, <1>1, Onward
<1>3. q.off + 1 = p.off + 2
  BY <1>0, <1>1
<1> QED
  BY <1>1, <1>2, <1>3 DEF q

\* Into a comment or the inside of a token.
LEMMA EnterOK ==
  ASSUME LexInv, Scanning, NEW m \in Inner, NEW q \in Position, NEW n \in Nat, Placed(q), here.off <= q.off,
         Enter(m, q, n), InnerOK(q, m, here, n)
  PROVE  LexNext
<1>1. /\ mode' = m /\ from' = here /\ here' = q /\ count' = n /\ tokens' = tokens /\ stopped' = stopped
  BY DEF Enter
<1>2. TokensOK(tokens, here.off) /\ ~stopped /\ here \in Position
  BY ScanFacts, LexFacts
<1>3. m \in Modes /\ m \notin {"start", "trivia"} /\ m # "start" /\ m # "done"
  BY DEF Inner, Modes
<1>4. stopped \in BOOLEAN
  BY LexFacts
<1>5. LexOK(q, m, here, n, tokens, stopped)
  BY <1>2, <1>3, <1>4, Zenon DEF LexOK
<1> QED
  BY <1>1, <1>5, Zenon DEF LexNext

\* Further inside.
LEMMA StayOK ==
  ASSUME LexInv, mode \in Inner, NEW q \in Position, NEW n \in Nat, Placed(q), Stay(q, n), InnerOK(q, mode, from, n)
  PROVE  LexNext
<1>1. /\ mode' = mode /\ from' = from /\ here' = q /\ count' = n /\ tokens' = tokens /\ stopped' = stopped
  BY DEF Stay
<1>2. TokensOK(tokens, from.off) /\ ~stopped /\ from \in Position /\ mode \in Modes
  BY LexFacts
<1>3. mode \notin {"start", "trivia"} /\ mode # "start" /\ mode # "done"
  BY DEF Inner
<1>4. stopped \in BOOLEAN
  BY LexFacts
<1>5. LexOK(q, mode, from, n, tokens, stopped)
  BY <1>2, <1>3, <1>4, Zenon DEF LexOK
<1> QED
  BY <1>1, <1>5, Zenon DEF LexNext
\* Two characters of an opener are in the text.
LEMMA OpenerIs ==
  ASSUME IsText, NEW i \in 1 .. Len(src) + 1, NEW a, NEW b, b # "end", Starts(i, <<a, b>>)
  PROVE  Char(i) = a /\ Char(i + 1) = b /\ i + 1 \in 1 .. Len(src) /\ i < Len(src)
<1>1. Char(i) = a /\ Char(i + 1) = b
  <2>1. i \in Nat
    OBVIOUS
  <2> QED
    BY <2>1, StartsTwo
<1>2. i + 1 \in Nat /\ ~(i + 1 > Len(src)) /\ Len(src) \in Nat
  BY <1>1, TextFacts
<1> QED
  BY <1>1, <1>2

LEMMA SkipTriviaOK == LexInv /\ SkipTrivia => LexNext
<1> SUFFICES ASSUME LexInv, SkipTrivia PROVE LexNext
  OBVIOUS
<1>1. Scanning
  BY DEF SkipTrivia
<1>2. /\ IsText /\ Len(src) \in Nat /\ here.off \in 1 .. Len(src) /\ Placed(here) /\ mode = "trivia" /\ ~stopped
      /\ here \in Position /\ stopped \in BOOLEAN /\ here.off \in Nat
  BY <1>1, ScanFacts, LexFacts
<1>3. CASE Here \in Blank /\ Stay(Consume(here), count)
  <2>1. here' = Consume(here) /\ mode' = "trivia" /\ stopped' = stopped /\ UNCHANGED <<from, count, tokens>>
    BY <1>2, <1>3 DEF Stay
  <2>2. Placed(Consume(here)) /\ Consume(here) \in Position /\ here.off <= Consume(here).off
    BY <1>2, Onward
  <2>3. Placed(here') /\ here' \in Position /\ here.off <= here'.off /\ stopped' \in BOOLEAN
    BY <1>2, <2>1, <2>2, Zenon
  <2> QED
    BY <1>2, <2>1, <2>3, OnwardOK
<1>4. CASE LineComment /\ Enter("line", here, 0)
  <2>1. InnerOK(here, "line", here, 0)
    BY <1>2 DEF InnerOK
  <2>2. "line" \in Inner /\ 0 \in Nat /\ here.off <= here.off
    BY <1>2 DEF Inner
  <2> QED
    BY <1>1, <1>2, <1>4, <2>1, <2>2, EnterOK
<1>5. CASE BlockComment /\ Enter("block", Consume(Consume(here)), 1)
  <2>1. Char(here.off) = "/" /\ here.off < Len(src)
    <3>1. here.off \in 1 .. Len(src) + 1 /\ "*" # "end"
      BY <1>2
    <3> QED
      BY <1>2, <1>5, <3>1, OpenerIs DEF BlockComment
  <2> DEFINE q == Consume(Consume(here))
  <2>2. Placed(q) /\ q \in Position /\ here.off <= q.off
    BY <1>2, <2>1, OnwardTwice
  <2> HIDE DEF q
  <2>3. InnerOK(q, "block", here, 1)
    BY <1>2, <2>2 DEF InnerOK
  <2>4. "block" \in Inner /\ 1 \in Nat /\ Enter("block", q, 1)
    BY <1>5 DEF Inner, q
  <2> QED
    BY <1>1, <2>2, <2>3, <2>4, EnterOK
<1> QED
  BY <1>3, <1>4, <1>5 DEF SkipTrivia

\* Inside a comment or token, before the end of the text.
LEMMA InnerFacts ==
  ASSUME LexInv, mode \in Inner
  PROVE  /\ IsText /\ Len(src) \in Nat /\ Placed(here) /\ here.off \in 1 .. Len(src) + 1 /\ here.off \in Nat
         /\ Placed(from) /\ from.off \in 1 .. Len(src) /\ from.off \in Nat /\ from.off <= here.off
         /\ InnerOK(here, mode, from, count) /\ Here = Char(here.off) /\ stopped \in BOOLEAN /\ count \in Nat
         /\ (Ended => Char(here.off) = "end") /\ (~Ended => here.off \in 1 .. Len(src))
<1>1. IsText /\ Placed(here) /\ InnerOK(here, mode, from, count) /\ stopped \in BOOLEAN /\ count \in Nat
  BY LexFacts
<1>2. Len(src) \in Nat /\ here.off \in 1 .. Len(src) + 1
  BY <1>1, TextFacts DEF Placed
<1>3. Placed(from) /\ from.off <= Len(src) /\ from.off <= here.off
  BY <1>1 DEF InnerOK
<1>4. from.off \in 1 .. Len(src)
  BY <1>2, <1>3 DEF Placed
<1>5. Ended => Char(here.off) = "end"
  BY <1>1, <1>2, TextFacts DEF Ended
<1>6. ~Ended => here.off \in 1 .. Len(src)
  BY <1>2 DEF Ended
<1> QED
  BY <1>1, <1>2, <1>3, <1>4, <1>5, <1>6 DEF Here

\* In a comment any place further on is as good.
LEMMA CommentOnward ==
  ASSUME LexInv, mode \in {"line", "block"}, NEW q \in Position, NEW n \in Nat, Placed(q), here.off <= q.off, Stay(q, n)
  PROVE  LexNext
<1>1. mode \in Inner
  BY DEF Inner
<1>2. Placed(from) /\ from.off <= Len(src) /\ from.off <= here.off /\ here.off \in Nat /\ from.off \in Nat /\ Len(src) \in Nat
      /\ from.off \in 1 .. Len(src)
  BY <1>1, InnerFacts
<1>3. q.off \in Nat
  BY DEF Position
<1>4. InnerOK(q, mode, from, n)
  BY <1>2, <1>3 DEF InnerOK
<1> QED
  BY <1>1, <1>4, StayOK

LEMMA SkipLineCommentOK == LexInv /\ SkipLineComment => LexNext
<1> SUFFICES ASSUME LexInv, SkipLineComment PROVE LexNext
  OBVIOUS
<1>1. mode = "line" /\ mode \in {"line", "block"} /\ mode \in Inner
  BY DEF SkipLineComment, Inner
<1>2. IsText /\ Placed(here) /\ stopped \in BOOLEAN /\ (~Ended => here.off \in 1 .. Len(src)) /\ count \in Nat
  BY <1>1, InnerFacts
<1>3. CASE Ended \/ Here = "lf"
  <2>1. Back
    BY <1>3 DEF SkipLineComment
  <2>2. mode' = "trivia" /\ stopped' = stopped /\ UNCHANGED <<here, from, count, tokens>>
    BY <2>1 DEF Back
  <2> QED
    BY <1>1, <1>2, <2>2, OutOK
<1>4. CASE ~(Ended \/ Here = "lf")
  <2>1. Stay(Consume(here), count)
    BY <1>4 DEF SkipLineComment
  <2>2. Placed(Consume(here)) /\ Consume(here) \in Position /\ here.off <= Consume(here).off
    BY <1>2, <1>4, Onward
  <2> QED
    BY <1>1, <1>2, <2>1, <2>2, CommentOnward
<1> QED
  BY <1>3, <1>4

\* The steps inside a block comment, one by one.
LEMMA BlockCases ==
  ASSUME LexInv, SkipBlockComment
  PROVE  /\ mode = "block"
         /\ (count = 0 => Back)
         /\ (count > 0 /\ Ended => Stop(from))
         /\ (count > 0 /\ ~Ended =>
               \/ BlockComment /\ Stay(Consume(Consume(here)), count + 1)
               \/ ~BlockComment /\ Starts(here.off, <<"*", "/">>) /\ Stay(Consume(Consume(here)), count - 1)
               \/ ~BlockComment /\ ~Starts(here.off, <<"*", "/">>) /\ Stay(Consume(here), count))
<1>0. mode = "block" /\ count \in Nat /\ here.off \in Nat /\ (Ended => Char(here.off) = "end")
  <2>1. mode = "block" /\ mode \in Inner
    BY DEF SkipBlockComment, Inner
  <2> QED
    BY <2>1, InnerFacts
<1>1. BlockComment <=> Char(here.off) = "/" /\ Char(here.off + 1) = "*"
  BY <1>0, StartsTwo DEF BlockComment
<1>2. Starts(here.off, <<"*", "/">>) <=> Char(here.off) = "*" /\ Char(here.off + 1) = "/"
  BY <1>0, StartsTwo
<1>3. ~(BlockComment /\ Starts(here.off, <<"*", "/">>)) /\ (Ended => ~BlockComment /\ ~Starts(here.off, <<"*", "/">>))
  BY <1>0, <1>1, <1>2
<1>4. CASE count = 0
  BY <1>0, <1>4 DEF SkipBlockComment
<1>5. CASE count > 0
  <2>1. count # 0
    BY <1>5
  <2> QED
    BY <1>0, <1>3, <1>5, <2>1, Zenon DEF SkipBlockComment
<1> QED
  BY <1>0, <1>4, <1>5

LEMMA SkipBlockCommentOK == LexInv /\ SkipBlockComment => LexNext
<1> SUFFICES ASSUME LexInv, SkipBlockComment PROVE LexNext
  OBVIOUS
<1>1. mode = "block" /\ mode \in {"line", "block"} /\ mode \in Inner
  BY DEF SkipBlockComment, Inner
<1>2. IsText /\ Placed(here) /\ stopped \in BOOLEAN /\ (~Ended => here.off \in 1 .. Len(src)) /\ count \in Nat
      /\ here.off \in 1 .. Len(src) + 1 /\ Len(src) \in Nat
  BY <1>1, InnerFacts
<1>3. CASE count = 0
  <2>1. Back
    BY <1>2, <1>3, BlockCases
  <2>2. mode' = "trivia" /\ stopped' = stopped /\ UNCHANGED <<here, from, count, tokens>>
    BY <2>1 DEF Back
  <2> QED
    BY <1>1, <1>2, <2>2, OutOK
<1>4. CASE count > 0 /\ Ended
  <2>1. Stop(from)
    BY <1>2, <1>4, BlockCases
  <2>2. mode' = "trivia" /\ stopped' \in BOOLEAN /\ UNCHANGED <<here, from, count, tokens>>
    BY <2>1 DEF Stop
  <2> QED
    BY <1>1, <1>2, <2>2, OutOK
<1>5. CASE count > 0 /\ ~Ended
  <2>1. \/ BlockComment /\ Stay(Consume(Consume(here)), count + 1)
        \/ ~BlockComment /\ Starts(here.off, <<"*", "/">>) /\ Stay(Consume(Consume(here)), count - 1)
        \/ ~BlockComment /\ ~Starts(here.off, <<"*", "/">>) /\ Stay(Consume(here), count)
    BY <1>2, <1>5, BlockCases
  <2>2. Placed(Consume(here)) /\ Consume(here) \in Position /\ here.off <= Consume(here).off
    BY <1>2, <1>5, Onward
  <2>3. BlockComment \/ Starts(here.off, <<"*", "/">>) =>
          LET q == Consume(Consume(here)) IN Placed(q) /\ q \in Position /\ here.off <= q.off
    <3> HAVE BlockComment \/ Starts(here.off, <<"*", "/">>)
    <3>1. Char(here.off) # "cr" /\ here.off < Len(src)
      BY <1>2, OpenerIs DEF BlockComment
    <3> QED
      BY <1>2, <3>1, OnwardTwice
  <2>4. count + 1 \in Nat /\ count - 1 \in Nat
    BY <1>2, <1>5
  <2> QED
    BY <1>1, <1>2, <2>1, <2>2, <2>3, <2>4, CommentOnward
<1> QED
  BY <1>2, <1>3, <1>4, <1>5
LEMMA AlongIs ==
  ASSUME LexInv, Placed(here), NEW j \in here.off + 1 .. Len(src) + 1, Char(j - 1) # "cr"
  PROVE  Along(j) = PlaceOf(j)
<1>1. IsText /\ j \in here.off .. Len(src) + 1
  BY LexFacts
<1> QED
  BY <1>1, WalkReaches DEF Along

LEMMA RawCase ==
  ASSUME ScanIdentOrKeyword, RawOpener
  PROVE  Enter("raw", Along(Past(here.off + 1, {"#"}) + 1), Past(here.off + 1, {"#"}) - here.off - 1)
<1>1. Here = "r"
  BY DEF RawOpener
<1>2. ~(Here = "c" /\ Next1 = "quote")
  BY <1>1
<1> QED
  BY <1>2 DEF ScanIdentOrKeyword

LEMMA ScanIdentOrKeywordOK == LexInv /\ ScanIdentOrKeyword => LexNext
<1> SUFFICES ASSUME LexInv, ScanIdentOrKeyword PROVE LexNext
  OBVIOUS
<1>1. Scanning /\ Here \in IdentStartChars
  BY DEF ScanIdentOrKeyword
<1>2. /\ IsText /\ Len(src) \in Nat /\ here.off \in 1 .. Len(src) /\ Placed(here) /\ Here = Char(here.off) /\ here.off \in Nat
      /\ here \in Position
  BY <1>1, ScanFacts, LexFacts
<1> DEFINE o == here.off
<1>3. CASE RawOpener
  <2> DEFINE i == Past(o + 1, {"#"})
             n == i - o - 1
             q == PlaceOf(i + 1)
  <2>1. Here = "r" /\ Char(i) = "quote"
    BY <1>3 DEF RawOpener
  <2>2. i \in o + 1 .. Len(src) + 1 /\ \A k \in o + 1 .. i - 1 : src[k] \in {"#"}
    <3>1. o + 1 \in 1 .. Len(src) + 1 /\ "end" \notin {"#"}
      BY <1>2
    <3> QED
      BY <1>2, <3>1, PastRun
  <2>3. Enter("raw", Along(i + 1), n)
    BY <1>3, <2>1, RawCase, Zenon
  <2> HIDE DEF i
  <2>4. i \in 1 .. Len(src) /\ i + 1 \in o + 1 .. Len(src) + 1 /\ (i + 1) - 1 = i /\ n \in Nat /\ o + n + 1 = i
        /\ i + 1 \in 1 .. Len(src) + 1
    <3>1. Char(Len(src) + 1) = "end"
      BY <1>2, TextFacts
    <3>2. i # Len(src) + 1
      BY <2>1, <3>1
    <3> QED
      BY <1>2, <2>2, <3>2
  <2>5. Along(i + 1) = q
    <3>1. Char((i + 1) - 1) # "cr"
      BY <2>1, <2>4
    <3> QED
      BY <1>2, <2>4, <3>1, AlongIs
  <2>6. Placed(q) /\ q \in Position /\ q.off = i + 1
    BY <1>2, <2>4, PlaceTyped, PlaceIs DEF Placed
  <2> HIDE DEF q, n
  <2>7. InnerOK(q, "raw", here, n)
    <3>1. Char(o) = "r" /\ Past(o + 1, {"#"}) = o + n + 1 /\ Char(o + n + 1) = "quote" /\ o + n + 2 <= q.off
      BY <1>2, <2>1, <2>4, <2>6 DEF i
    <3>2. \A k \in o + n + 2 .. q.off - 1 : FALSE
      <4>1. o + n + 2 = i + 1 /\ q.off - 1 = i /\ i \in Nat
        BY <1>2, <2>4, <2>6
      <4>2. \A k \in i + 1 .. i : FALSE
        BY <4>1
      <4> QED
        BY <4>1, <4>2
    <3>3. o <= Len(src) /\ o <= q.off
      BY <1>2, <2>4, <2>6
    <3> QED
      BY <1>2, <3>1, <3>2, <3>3 DEF InnerOK
  <2>8. o <= q.off /\ "raw" \in Inner /\ n \in Nat
    BY <1>2, <2>4, <2>6 DEF Inner
  <2>9. Enter("raw", q, n)
    BY <2>3, <2>5
  <2> QED
    BY <1>1, <2>6, <2>7, <2>8, <2>9, EnterOK
<1>4. CASE ~RawOpener /\ Here = "c" /\ Next1 = "quote"
  <2> DEFINE q == Consume(Consume(here))
  <2>1. Enter("cstring", q, 0)
    BY <1>4 DEF ScanIdentOrKeyword
  <2>2. Char(o) = "c" /\ Char(o + 1) = "quote"
    BY <1>2, <1>4 DEF Next1
  <2>3. o < Len(src)
    <3>1. Char(Len(src) + 1) = "end"
      BY <1>2, TextFacts
    <3>2. o # Len(src)
      BY <2>2, <3>1
    <3> QED
      BY <1>2, <3>2
  <2>4. Placed(q) /\ q \in Position /\ q.off = o + 2
    BY <1>2, <2>2, <2>3, OnwardTwice
  <2> HIDE DEF q
  <2>5. Body(o + 2, q.off)
    <3>1. o + 2 \in 1 .. Len(src) + 1
      BY <1>2, <2>3
    <3> QED
      BY <1>2, <2>4, <3>1, BodyStarts
  <2>6. InnerOK(q, "cstring", here, 0)
    BY <1>2, <2>2, <2>4, <2>5 DEF InnerOK
  <2>7. o <= q.off /\ "cstring" \in Inner /\ 0 \in Nat
    BY <1>2, <2>4 DEF Inner
  <2> QED
    BY <1>1, <2>1, <2>4, <2>6, <2>7, EnterOK
<1>5. CASE ~RawOpener /\ ~(Here = "c" /\ Next1 = "quote")
  <2> DEFINE j == Past(o, IdentContinueChars)
  <2>1. EmitFrom("ident", Along(j))
    BY <1>5, Zenon DEF ScanIdentOrKeyword
  <2>2. Char(o) = "r" => Char(Past(o + 1, {"#"})) # "quote"
    BY <1>2, <1>5 DEF RawOpener
  <2>3. Char(o) = "c" => Char(o + 1) # "quote"
    BY <1>2, <1>5 DEF Next1
  <2>4. Longest("ident", o, j) /\ Char(j - 1) # "cr"
    <3>1. Char(o) \in IdentStartChars
      BY <1>1, <1>2
    <3> QED
      BY <1>2, <2>2, <2>3, <3>1, IdentIsLongest
  <2> HIDE DEF j
  <2>5. Along(j) = PlaceOf(j)
    <3>1. j \in o + 1 .. Len(src) + 1
      BY <2>4 DEF Longest
    <3> QED
      BY <1>2, <2>4, <3>1, AlongIs
  <2> QED
    BY <1>1, <2>1, <2>4, <2>5, EmitFromOK
<1> QED
  BY <1>3, <1>4, <1>5

LEMMA ScanRawStringOK == LexInv /\ ScanRawString => LexNext
<1> SUFFICES ASSUME LexInv, ScanRawString PROVE LexNext
  OBVIOUS
<1>1. mode = "raw" /\ mode \in Inner
  BY DEF ScanRawString, Inner
<1>2. /\ IsText /\ Len(src) \in Nat /\ Placed(here) /\ here.off \in 1 .. Len(src) + 1 /\ here.off \in Nat
      /\ Placed(from) /\ from.off \in 1 .. Len(src) /\ from.off \in Nat /\ from.off <= here.off
      /\ InnerOK(here, mode, from, count) /\ Here = Char(here.off) /\ stopped \in BOOLEAN /\ count \in Nat
      /\ (~Ended => here.off \in 1 .. Len(src))
  BY <1>1, InnerFacts
<1> DEFINE f == from.off
           h == here.off
<1>3. /\ Char(f) = "r" /\ Past(f + 1, {"#"}) = f + count + 1 /\ Char(f + count + 1) = "quote" /\ f + count + 2 <= h
      /\ \A k \in f + count + 2 .. h - 1 : ~(Char(k) = "quote" /\ HashesMatchAt(k + 1, count))
  BY <1>1, <1>2 DEF InnerOK
<1>4. CASE Ended
  <2>1. Stop(from)
    BY <1>4 DEF ScanRawString
  <2>2. mode' = "trivia" /\ stopped' \in BOOLEAN /\ UNCHANGED <<here, from, count, tokens>>
    BY <2>1 DEF Stop
  <2> QED
    BY <1>1, <2>2, OutOK
<1>5. CASE ~Ended /\ Here = "quote" /\ HashesMatchAt(h + 1, count)
  <2> DEFINE j == h + 1 + count
  <2>1. Emit("raw", Along(j))
    BY <1>5 DEF ScanRawString
  <2>2. h \in f + count + 2 .. Len(src) /\ Char(h) = "quote"
    BY <1>2, <1>3, <1>5
  <2>3. Longest("raw", f, j) /\ Char(h + count) # "cr"
    BY <1>2, <1>3, <1>5, <2>2, RawIsLongest
  <2>4. j \in h + 1 .. Len(src) + 1 /\ j - 1 = h + count
    BY <1>2, <2>3 DEF Longest
  <2>5. Along(j) = PlaceOf(j)
    <3>1. Char(j - 1) # "cr"
      BY <2>3, <2>4
    <3> HIDE DEF j
    <3> QED
      BY <1>2, <2>4, <3>1, AlongIs
  <2> QED
    BY <1>1, <2>1, <2>3, <2>5, EmitOK
<1>6. CASE ~Ended /\ ~(Here = "quote" /\ HashesMatchAt(h + 1, count))
  <2> DEFINE q == Consume(here)
  <2>1. Stay(q, count)
    BY <1>6 DEF ScanRawString
  <2>2. /\ Placed(q) /\ q \in Position /\ q.off = Behind(h) /\ Behind(h) \in h + 1 .. Len(src) + 1
        /\ (Char(h) # "cr" => Behind(h) = h + 1)
    BY <1>2, <1>6, Onward
  <2>3. Behind(h) = h + 1 \/ (Behind(h) = h + 2 /\ Char(h + 1) = "lf")
    <3>1. h \in 1 .. Len(src)
      BY <1>2, <1>6
    <3> QED
      BY <1>2, <3>1, ConsumePlace
  <2> HIDE DEF q
  <2>4. \A k \in f + count + 2 .. q.off - 1 : ~(Char(k) = "quote" /\ HashesMatchAt(k + 1, count))
    <3> TAKE k \in f + count + 2 .. q.off - 1
    <3>1. k \in f + count + 2 .. h - 1 \/ k = h \/ (k = h + 1 /\ Char(h + 1) = "lf")
      BY <1>2, <1>3, <2>2, <2>3
    <3> QED
      BY <1>2, <1>3, <1>6, <3>1
  <2>5. f <= q.off /\ f + count + 2 <= q.off /\ f <= Len(src)
    BY <1>2, <1>3, <2>2
  <2>6. InnerOK(q, mode, from, count)
    BY <1>1, <1>2, <1>3, <2>4, <2>5 DEF InnerOK
  <2> QED
    BY <1>1, <1>2, <2>1, <2>2, <2>6, StayOK
<1> QED
  BY <1>4, <1>5, <1>6

LEMMA ScanStringOK == LexInv /\ ScanString => LexNext
<1> SUFFICES ASSUME LexInv, ScanString PROVE LexNext
  OBVIOUS
<1>1. Scanning /\ Here = "quote" /\ Enter("string", Consume(here), 0)
  BY DEF ScanString
<1>2. /\ IsText /\ Len(src) \in Nat /\ here.off \in 1 .. Len(src) /\ Placed(here) /\ Here = Char(here.off) /\ here.off \in Nat
  BY <1>1, ScanFacts, LexFacts
<1> DEFINE q == Consume(here)
<1>3. Placed(q) /\ q \in Position /\ q.off = here.off + 1
  BY <1>1, <1>2, Onward
<1> HIDE DEF q
<1>4. Body(here.off + 1, q.off)
  <2>1. here.off + 1 \in 1 .. Len(src) + 1
    BY <1>2
  <2> QED
    BY <1>2, <1>3, <2>1, BodyStarts
<1>5. InnerOK(q, "string", here, 0)
  BY <1>1, <1>2, <1>3, <1>4 DEF InnerOK
<1>6. here.off <= q.off /\ "string" \in Inner /\ 0 \in Nat /\ Enter("string", q, 0)
  BY <1>1, <1>2, <1>3 DEF Inner, q
<1> QED
  BY <1>1, <1>3, <1>5, <1>6, EnterOK

LEMMA ConsumeStringBodyOK == LexInv /\ ConsumeStringBody => LexNext
<1> SUFFICES ASSUME LexInv, ConsumeStringBody PROVE LexNext
  OBVIOUS
<1>1. mode \in {"string", "cstring"} /\ mode \in Inner
  BY DEF ConsumeStringBody, Inner
<1>2. /\ IsText /\ Len(src) \in Nat /\ Placed(here) /\ here.off \in 1 .. Len(src) + 1 /\ here.off \in Nat
      /\ Placed(from) /\ from.off \in 1 .. Len(src) /\ from.off \in Nat /\ from.off <= here.off
      /\ InnerOK(here, mode, from, count) /\ Here = Char(here.off) /\ stopped \in BOOLEAN /\ count \in Nat
      /\ (Ended => Char(here.off) = "end") /\ (~Ended => here.off \in 1 .. Len(src))
  BY <1>1, InnerFacts
<1> DEFINE f == from.off
           h == here.off
           start == IF mode = "string" THEN f + 1 ELSE f + 2
<1>3. /\ start \in f + 1 .. Len(src) + 1 /\ start <= h /\ Char(start - 1) = "quote" /\ Body(start, h)
      /\ (mode = "cstring" => Char(f) = "c")
  <2>1. CASE mode = "string"
    <3>1. Char(f) = "quote" /\ f + 1 <= h /\ Body(f + 1, h) /\ start = f + 1 /\ start - 1 = f
      BY <1>2, <2>1 DEF InnerOK
    <3> QED
      BY <1>2, <2>1, <3>1
  <2>2. CASE mode = "cstring"
    <3>1. Char(f) = "c" /\ Char(f + 1) = "quote" /\ f + 2 <= h /\ Body(f + 2, h) /\ start = f + 2 /\ start - 1 = f + 1
      BY <1>2, <2>2 DEF InnerOK
    <3> QED
      BY <1>2, <2>2, <3>1
  <2> QED
    BY <1>1, <2>1, <2>2
<1> DEFINE Onto(q) == q \in Position /\ Placed(q) /\ h <= q.off /\ Body(start, q.off)
<1>4. ASSUME NEW q, Onto(q), Stay(q, count) PROVE LexNext
  <2>1. f <= q.off /\ start <= q.off /\ f <= Len(src)
    <3>1. q.off \in Nat
      BY <1>4 DEF Position
    <3> QED
      BY <1>2, <1>3, <1>4, <3>1
  <2>2. InnerOK(q, mode, from, count)
    <3>1. CASE mode = "string"
      BY <1>2, <1>4, <2>1, <3>1 DEF InnerOK
    <3>2. CASE mode = "cstring"
      BY <1>2, <1>4, <2>1, <3>2 DEF InnerOK
    <3> QED
      BY <1>1, <3>1, <3>2
  <2> QED
    BY <1>1, <1>2, <1>4, <2>2, StayOK
<1> HIDE DEF start
<1>5. CASE Ended
  <2>1. Stop(from)
    BY <1>2, <1>5 DEF ConsumeStringBody
  <2>2. mode' = "trivia" /\ stopped' \in BOOLEAN /\ UNCHANGED <<here, from, count, tokens>>
    BY <2>1 DEF Stop
  <2> QED
    BY <1>1, <2>2, OutOK
<1>6. CASE ~Ended /\ Here = "quote"
  <2>1. Emit(mode, Consume(here))
    BY <1>6 DEF ConsumeStringBody
  <2>2. Placed(Consume(here)) /\ Consume(here).off = h + 1
    <3>1. here.off <= Len(src) /\ Char(here.off) # "cr"
      BY <1>2, <1>6
    <3>2. Placed(Consume(here)) /\ Consume(here).off = Behind(here.off) /\ Behind(here.off) = here.off + 1
      BY <1>2, <3>1, Onward
    <3> QED
      BY <3>2
  <2>3. Consume(here) = PlaceOf(h + 1)
    BY <2>2 DEF Placed
  <2>4. Longest(mode, f, h + 1)
    <3>1. h \in start .. Len(src) /\ Char(h) = "quote" /\ start = IF mode = "string" THEN f + 1 ELSE f + 2
      BY <1>2, <1>3, <1>6 DEF start
    <3> QED
      BY <1>1, <1>2, <1>3, <3>1, StringIsLongest
  <2> QED
    BY <1>1, <2>1, <2>3, <2>4, EmitOK
<1>7. CASE ~Ended /\ Here = "bs"
  <2> DEFINE q == Consume(Consume(here))
  <2>1. Stay(q, count)
    BY <1>7 DEF ConsumeStringBody
  <2>2. CASE h < Len(src)
    <3>1. /\ Placed(q) /\ q \in Position /\ q.off = Behind(h + 1) /\ Behind(h + 1) \in h + 2 .. Len(src) + 1
      BY <1>2, <1>7, <2>2, OnwardTwice
    <3>2. <<h, Behind(h + 1)>> \in StringText /\ \A p \in StringText : p[1] = h => p[2] = Behind(h + 1)
      BY <1>2, <1>7, <2>2, StringPieces
    <3>3. Body(start, Behind(h + 1))
      <4>1. h \in 1 .. Len(src) /\ start \in 1 .. h /\ Behind(h + 1) \in h + 1 .. Len(src) + 1
        BY <1>2, <1>3, <2>2, <3>1
      <4> QED
        BY <1>2, <1>3, <3>2, <4>1, BodyGoesOn
    <3> HIDE DEF q
    <3>4. Onto(q)
      BY <1>2, <3>1, <3>3
    <3> QED
      BY <1>4, <2>1, <3>4
  <2>3. CASE h = Len(src)
    <3>1. Placed(Consume(here)) /\ Consume(here).off = h + 1
      BY <1>2, <1>7, <2>3, Onward
    <3>2. Consume(here) = PlaceOf(Len(src) + 1)
      BY <2>3, <3>1 DEF Placed
    <3>3. q = PlaceOf(Len(src) + 1)
      BY <1>2, <3>2, ConsumeEnd
    <3> HIDE DEF q
    <3>4. q \in Position /\ Placed(q) /\ q.off = Len(src) + 1
      BY <1>2, <3>3, PlaceTyped, PlaceIs DEF Placed
    <3>5. Body(start, q.off)
      BY <1>2, <3>4 DEF Body
    <3>6. Onto(q)
      BY <1>2, <3>4, <3>5
    <3> QED
      BY <1>4, <2>1, <3>6
  <2> QED
    BY <1>2, <1>7, <2>2, <2>3
<1>8. CASE ~Ended /\ Here \notin {"quote", "bs"}
  <2> DEFINE q == Consume(here)
  <2>1. Stay(q, count)
    BY <1>8 DEF ConsumeStringBody
  <2>2. Placed(q) /\ q \in Position /\ q.off = Behind(h) /\ Behind(h) \in h + 1 .. Len(src) + 1
    BY <1>2, <1>8, Onward
  <2>3. <<h, Behind(h)>> \in StringText /\ \A p \in StringText : p[1] = h => p[2] = Behind(h)
    BY <1>2, <1>8, StringPieces
  <2>4. Body(start, Behind(h))
    <3>1. h \in 1 .. Len(src) /\ start \in 1 .. h
      BY <1>2, <1>3, <1>8
    <3> QED
      BY <1>2, <1>3, <2>2, <2>3, <3>1, BodyGoesOn
  <2> HIDE DEF q
  <2>5. Onto(q)
    BY <1>2, <2>2, <2>4
  <2> QED
    BY <1>4, <2>1, <2>5
<1> QED
  BY <1>5, <1>6, <1>7, <1>8
LEMMA ScanCharOK == LexInv /\ ScanChar => LexNext
<1> SUFFICES ASSUME LexInv, ScanChar PROVE LexNext
  OBVIOUS
<1>1. Scanning /\ Here = "tick"
  BY DEF ScanChar
<1>2. /\ IsText /\ Len(src) \in Nat /\ here.off \in 1 .. Len(src) /\ Placed(here) /\ Here = Char(here.off) /\ here.off \in Nat
      /\ stopped \in BOOLEAN /\ mode = "trivia"
  BY <1>1, ScanFacts, LexFacts
<1> DEFINE i == here.off
           q == AfterCharBody(Consume(here))
<1>3. Consume(here) = PlaceOf(i + 1)
  <2>1. Placed(Consume(here)) /\ Consume(here).off = Behind(i) /\ Behind(i) = i + 1
    BY <1>1, <1>2, Onward
  <2> QED
    BY <2>1 DEF Placed
<1>4. /\ q \in Position /\ q.off \in i + 1 .. Len(src) + 1
      /\ Char(q.off) = "tick" => q = PlaceOf(q.off) /\ CharEnd(i, q.off)
  BY <1>1, <1>2, <1>3, CharBodyIs
<1>5. \/ Char(q.off) = "tick" /\ EmitFrom("char", Consume(q))
      \/ Char(q.off) # "tick" /\ stopped' = TRUE /\ here' = q /\ UNCHANGED <<src, mode, from, count, tokens>>
  BY DEF ScanChar
<1> HIDE DEF q
<1>6. CASE Char(q.off) = "tick" /\ EmitFrom("char", Consume(q))
  <2>1. Longest("char", i, q.off + 1)
    BY <1>1, <1>2, <1>4, <1>6, CharIsLongest
  <2>2. q.off <= Len(src)
    <3>1. Char(Len(src) + 1) = "end"
      BY <1>2, TextFacts
    <3>2. q.off # Len(src) + 1
      BY <1>6, <3>1
    <3> QED
      BY <1>2, <1>4, <3>2
  <2>3. Consume(q) = PlaceOf(q.off + 1)
    <3>1. Placed(q) /\ Char(q.off) # "cr"
      BY <1>2, <1>4, <1>6 DEF Placed
    <3>2. Placed(Consume(q)) /\ Consume(q).off = Behind(q.off) /\ Behind(q.off) = q.off + 1
      BY <1>2, <2>2, <3>1, Onward
    <3> QED
      BY <3>2 DEF Placed
  <2> QED
    BY <1>1, <1>6, <2>1, <2>3, EmitFromOK
<1>7. CASE Char(q.off) # "tick" /\ stopped' = TRUE /\ here' = q /\ UNCHANGED <<src, mode, from, count, tokens>>
  <2>1. here' \in Position /\ here.off <= here'.off /\ stopped' \in BOOLEAN /\ stopped' /\ mode' = "trivia"
    BY <1>2, <1>4, <1>7
  <2> QED
    BY <1>2, <1>7, <2>1, OnwardOK
<1> QED
  BY <1>5, <1>6, <1>7

LEMMA ScanNumberOK == LexInv /\ ScanNumber => LexNext
<1> SUFFICES ASSUME LexInv, ScanNumber PROVE LexNext
  OBVIOUS
<1>1. Scanning /\ Here \in Digits
  BY DEF ScanNumber
<1>2. /\ IsText /\ Len(src) \in Nat /\ here.off \in 1 .. Len(src) /\ Placed(here) /\ Here = Char(here.off) /\ here.off \in Nat
  BY <1>1, ScanFacts, LexFacts
<1> DEFINE o == here.off
<1>3. ASSUME NEW kind, NEW j, Longest(kind, o, j), Char(j - 1) # "cr", EmitFrom(kind, Along(j)) PROVE LexNext
  <2>1. j \in o + 1 .. Len(src) + 1
    BY <1>3 DEF Longest
  <2>2. Along(j) = PlaceOf(j)
    BY <1>2, <1>3, <2>1, AlongIs
  <2> QED
    BY <1>1, <1>3, <2>2, EmitFromOK
<1>4. CASE Here = "0" /\ Next1 \in DOMAIN Radix
  <2>1. Next1 = Char(o + 1) /\ Char(o + 1) \in {"x", "b"}
    BY <1>4, NumberChars, Zenon DEF Next1
  <2> DEFINE c == Char(o + 1)
             j == Suffix(DigitRun(o + 2, Radix[c]))
  <2>2. EmitFrom("int", Along(j))
    BY <1>4, <2>1, Zenon DEF ScanNumber
  <2>3. Longest("int", o, j) /\ Char(j - 1) # "cr"
    <3>1. Char(o) = "0"
      BY <1>2, <1>4
    <3> QED
      BY <1>2, <2>1, <3>1, RadixIsLongest
  <2> HIDE DEF j
  <2> QED
    BY <1>3, <2>2, <2>3
<1>5. CASE ~(Here = "0" /\ Next1 \in DOMAIN Radix)
  <2> DEFINE f == DigitRun(o, Digits)
             h == AfterExponent(AfterFraction(f))
             j == Suffix(h)
             kind == IF f = h THEN "int" ELSE "float"
  <2>1. EmitFrom(kind, Along(j))
    BY <1>5, Zenon DEF ScanNumber
  <2>2. Char(o) \in Digits /\ (Char(o) = "0" => Char(o + 1) \notin DOMAIN Radix)
    BY <1>1, <1>2, <1>5, Zenon DEF Next1
  <2>3. Longest(kind, o, j) /\ Char(j - 1) # "cr"
    <3> HIDE DEF f, h
    <3>1. f = DigitRun(o, Digits) /\ h = AfterExponent(AfterFraction(f))
      BY DEF f, h
    <3> HIDE DEF j
    <3>2. j = Suffix(h)
      BY DEF j
    <3>3. Longest(IF f = h THEN "int" ELSE "float", o, j) /\ Char(j - 1) # "cr"
      BY <1>2, <2>2, <3>1, <3>2, DecimalIsLongest
    <3> QED
      BY <3>3
  <2> HIDE DEF j, kind
  <2> QED
    BY <1>3, <2>1, <2>3
<1> QED
  BY <1>4, <1>5

LEMMA ScanPunctOK == LexInv /\ ScanPunct => LexNext
<1> SUFFICES ASSUME LexInv, ScanPunct PROVE LexNext
  OBVIOUS
<1>1. Scanning /\ Matches(here.off) # {}
  BY DEF ScanPunct
<1>2. /\ IsText /\ Len(src) \in Nat /\ here.off \in 1 .. Len(src) /\ Placed(here) /\ here.off \in Nat
  BY <1>1, ScanFacts, LexFacts
<1> DEFINE o == here.off
           n == CHOOSE m \in Matches(o) : \A k \in Matches(o) : m <= k
           j == o + Len(Spellings[n])
<1>3. EmitFrom("punct", Along(j))
  BY Zenon DEF ScanPunct
<1>4. Longest("punct", o, j) /\ Char(j - 1) # "cr"
  BY <1>1, <1>2, PunctIsLongest
<1> HIDE DEF j
<1>5. j \in o + 1 .. Len(src) + 1
  BY <1>4 DEF Longest
<1>6. Along(j) = PlaceOf(j)
  BY <1>2, <1>4, <1>5, AlongIs
<1> QED
  BY <1>1, <1>3, <1>4, <1>6, EmitFromOK

LEMMA InvalidRuneOK == LexInv /\ InvalidRune => LexNext
<1> SUFFICES ASSUME LexInv, InvalidRune PROVE LexNext
  OBVIOUS
<1>1. Scanning /\ here' = Consume(here) /\ UNCHANGED <<src, mode, from, count, tokens, stopped>>
  BY DEF InvalidRune
<1>2. /\ IsText /\ Len(src) \in Nat /\ here.off \in 1 .. Len(src) /\ Placed(here) /\ here.off \in Nat
      /\ stopped \in BOOLEAN /\ mode = "trivia"
  BY <1>1, ScanFacts, LexFacts
<1>3. Placed(Consume(here)) /\ Consume(here) \in Position /\ here.off <= Consume(here).off
  BY <1>2, Onward
<1>4. Placed(here') /\ here' \in Position /\ here.off <= here'.off /\ stopped' \in BOOLEAN /\ mode' = "trivia"
  BY <1>1, <1>2, <1>3, Zenon
<1> QED
  BY <1>1, <1>2, <1>4, OnwardOK

\* No step writes the text.
LEMMA SameSource == LexInv /\ ScanStep => src' = src
<1> SUFFICES ASSUME LexInv, ScanStep PROVE src' = src
  OBVIOUS
<1>2. CASE CheckBOM
  BY <1>2 DEF CheckBOM
<1>3. CASE EmitEOF
  BY <1>3 DEF EmitEOF
<1>4. CASE SkipTrivia
  BY <1>4 DEF SkipTrivia, Stay, Enter
<1>5. CASE SkipLineComment
  BY <1>5 DEF SkipLineComment, Stay, Back
<1>6. CASE SkipBlockComment
  <2>1. count = 0 \/ (count > 0 /\ Ended) \/ (count > 0 /\ ~Ended)
    BY LexFacts
  <2>2. Back \/ Stop(from) \/ Stay(Consume(Consume(here)), count + 1) \/ Stay(Consume(Consume(here)), count - 1)
          \/ Stay(Consume(here), count)
    BY <1>6, <2>1, BlockCases, Zenon
  <2>3. Back => src' = src
    BY DEF Back
  <2>4. Stop(from) => src' = src
    BY DEF Stop
  <2>5. \A q, n : Stay(q, n) => src' = src
    BY DEF Stay
  <2> QED
    BY <2>2, <2>3, <2>4, <2>5, Zenon
<1>7. CASE ScanIdentOrKeyword
  BY <1>7 DEF ScanIdentOrKeyword, Enter, EmitFrom
<1>8. CASE ScanRawString
  BY <1>8 DEF ScanRawString, Stay, Stop, Emit
<1>9. CASE ScanString
  BY <1>9 DEF ScanString, Enter
<1>10. CASE ConsumeStringBody
  BY <1>10 DEF ConsumeStringBody, Stay, Stop, Emit
<1>11. CASE ScanChar
  BY <1>11 DEF ScanChar, EmitFrom
<1>12. CASE ScanNumber
  BY <1>12 DEF ScanNumber, EmitFrom
<1>13. CASE ScanPunct
  BY <1>13 DEF ScanPunct, EmitFrom
<1>14. CASE InvalidRune
  BY <1>14 DEF InvalidRune
<1> QED
  BY <1>2, <1>3, <1>4, <1>5, <1>6, <1>7, <1>8, <1>9, <1>10, <1>11, <1>12, <1>13, <1>14 DEF ScanStep

LEMMA ScanStepOK == LexInv /\ ScanStep => LexNext
BY CheckBOMOK, EmitEOFOK, SkipTriviaOK, SkipLineCommentOK, SkipBlockCommentOK, ScanIdentOrKeywordOK, ScanRawStringOK,
   ScanStringOK, ConsumeStringBodyOK, ScanCharOK, ScanNumberOK, ScanPunctOK, InvalidRuneOK, Zenon DEF ScanStep
-----------------------------------------------------------------------------
(* The text stays the same *)

LEMMA SameChar == ASSUME src' = src, NEW i PROVE Char(i)' = Char(i)
BY DEF Char

LEMMA SameStarts == ASSUME src' = src, NEW i, NEW s PROVE Starts(i, s)' = Starts(i, s)
BY DEF Starts, Char

LEMMA SamePast == ASSUME src' = src, NEW i, NEW S PROVE Past(i, S)' = Past(i, S)
BY DEF Past, Char

LEMMA SamePlace == ASSUME src' = src, NEW i PROVE PlaceOf(i)' = PlaceOf(i)
BY DEF PlaceOf, LineEnds, Char

LEMMA SameStringText == ASSUME src' = src PROVE StringText' = StringText
BY DEF StringText, Stretches, Behind, Starts, Char

LEMMA SameHashes == ASSUME src' = src, NEW i, NEW n PROVE HashesMatchAt(i, n)' = HashesMatchAt(i, n)
BY DEF HashesMatchAt, Char

LEMMA SameLexeme == ASSUME src' = src, NEW kind, NEW i, NEW j PROVE IsLexeme(kind, i, j)' = IsLexeme(kind, i, j)
<1>1. ASSUME NEW a, NEW b PROVE IsIdent(a, b)' = IsIdent(a, b)
  BY DEF IsIdent, All
<1>2. ASSUME NEW a, NEW b PROVE IsString(a, b)' = IsString(a, b)
  BY SameStringText DEF IsString, InsideString
<1>3. ASSUME NEW a, NEW b PROVE IsRaw(a, b)' = IsRaw(a, b)
  BY DEF IsRaw, All
<1>4. ASSUME NEW a, NEW b PROVE IsChar(a, b)' = IsChar(a, b)
  BY DEF IsChar, Behind, Starts, Char
<1>5. ASSUME NEW a, NEW b PROVE IsInt(a, b)' = IsInt(a, b)
  BY DEF IsInt, IsNumberSuffix, IsIdent, Digs, All, Starts, Char
<1>6. ASSUME NEW a, NEW b PROVE IsFloat(a, b)' = IsFloat(a, b)
  BY DEF IsFloat, IsNumberSuffix, IsIdent, Digs, All, Char
<1>7. ASSUME NEW a, NEW s PROVE Starts(a, s)' = Starts(a, s)
  BY SameStarts
<1> QED
  BY <1>1, <1>2, <1>3, <1>4, <1>5, <1>6, <1>7 DEF IsLexeme

LEMMA SameLongest == ASSUME src' = src, NEW kind, NEW i, NEW j PROVE Longest(kind, i, j)' = Longest(kind, i, j)
<1>1. ASSUME NEW k, NEW m PROVE IsLexeme(k, i, m)' = IsLexeme(k, i, m)
  BY SameLexeme
<1> QED
  BY <1>1 DEF Longest

LEMMA SamePlaced == ASSUME src' = src, NEW p PROVE Placed(p)' = Placed(p)
BY SamePlace DEF Placed

LEMMA SameLexed == ASSUME src' = src, NEW t PROVE Lexed(t)' = Lexed(t)
<1>1. Longest(t.kind, t.from.off, t.to.off)' = Longest(t.kind, t.from.off, t.to.off)
  BY SameLongest
<1>2. PlaceOf(t.from.off)' = PlaceOf(t.from.off) /\ PlaceOf(t.to.off)' = PlaceOf(t.to.off)
  BY SamePlace
<1> QED
  BY <1>1, <1>2 DEF Lexed

LEMMA SameTokens ==
  ASSUME src' = src, NEW ts, NEW e PROVE TokensOK(ts, e)' = TokensOK(ts, e) /\ DoneOK(ts)' = DoneOK(ts)
<1>1. ASSUME NEW t PROVE Lexed(t)' = Lexed(t)
  BY SameLexed
<1> QED
  BY <1>1 DEF TokensOK, DoneOK

LEMMA SameInner ==
  ASSUME src' = src, NEW h, NEW m, NEW f, NEW c PROVE InnerOK(h, m, f, c)' = InnerOK(h, m, f, c)
<1>1. Placed(f)' = Placed(f)
  BY SamePlaced
<1>2. ASSUME NEW a PROVE Char(a)' = Char(a)
  BY SameChar
<1>3. ASSUME NEW a, NEW b PROVE Body(a, b)' = Body(a, b)
  BY SameStringText DEF Body
<1>4. Past(f.off + 1, {"#"})' = Past(f.off + 1, {"#"})
  BY SamePast
<1>5. ASSUME NEW a, NEW n PROVE HashesMatchAt(a, n)' = HashesMatchAt(a, n)
  BY SameHashes
<1> QED
  BY <1>1, <1>2, <1>3, <1>4, <1>5 DEF InnerOK

LEMMA SameLex ==
  ASSUME src' = src, NEW h, NEW m, NEW f, NEW c, NEW ts, NEW st
  PROVE  LexOK(h, m, f, c, ts, st)' = LexOK(h, m, f, c, ts, st)
<1>1. Placed(h)' = Placed(h)
  BY SamePlaced
<1>2. TokensOK(ts, h.off)' = TokensOK(ts, h.off) /\ TokensOK(ts, f.off)' = TokensOK(ts, f.off) /\ DoneOK(ts)' = DoneOK(ts)
  BY SameTokens
<1>3. InnerOK(h, m, f, c)' = InnerOK(h, m, f, c)
  BY SameInner
<1> QED
  BY <1>1, <1>2, <1>3 DEF LexOK
-----------------------------------------------------------------------------
(* The theorem on tokens *)

LEMMA LexInit == ScanInit => LexInv
<1> HAVE ScanInit
<1>1. IsText /\ here = TextStart /\ from = TextStart /\ mode = "start" /\ count = 0 /\ tokens = <<>> /\ stopped = FALSE
  BY DEF ScanInit, IsText
<1>2. Len(src) \in Nat
  BY <1>1, TextFacts
<1>3. TextStart \in Position /\ TextStart.off = 1
  BY DEF TextStart, Position
<1>4. Placed(here)
  BY <1>1, <1>2, <1>3, FirstPlace DEF Placed
<1>5. TokensOK(<<>>, here.off)
  BY DEF TokensOK
<1>6. LexOK(here, mode, from, count, tokens, stopped)
  <2>1. here \in Position /\ from \in Position /\ count \in Nat /\ TokensOK(tokens, here.off)
    BY <1>1, <1>3, <1>5
  <2>2. mode \in Modes /\ mode # "done" /\ mode \notin Inner /\ stopped \in BOOLEAN /\ ~stopped
    BY <1>1 DEF Modes, Inner
  <2> QED
    BY <1>4, <2>1, <2>2, Zenon DEF LexOK
<1> QED
  BY <1>1, <1>6 DEF LexInv

LEMMA LexStep == LexInv /\ [ScanStep]_scanVars => LexInv'
<1> SUFFICES ASSUME LexInv, [ScanStep]_scanVars PROVE LexInv'
  OBVIOUS
<1>1. IsText /\ LexOK(here, mode, from, count, tokens, stopped)
  BY DEF LexInv
<1>2. LexNext /\ src' = src
  <2>1. CASE ScanStep
    BY <2>1, ScanStepOK, SameSource
  <2>2. CASE UNCHANGED scanVars
    BY <1>1, <2>2 DEF LexNext, scanVars
  <2> QED
    BY <2>1, <2>2
<1>3. IsText'
  BY <1>1, <1>2 DEF IsText
<1>4. LexOK(here, mode, from, count, tokens, stopped)'
  BY <1>2, SameLex DEF LexNext
<1> QED
  BY <1>3, <1>4 DEF LexInv

\* LexInv: the tokens emitted so far are right, and what the routine that runs
\* has read of the next one can still become one.
THEOREM ScannerInvariant == ScanSpec => []LexInv
BY LexInit, LexStep, PTL DEF ScanSpec

\* The part of the promise that needs nothing of the texts: every token is the
\* longest lexeme at its place, the tokens are in order, and both ends of each
\* have the line and the column of their characters.
TokensAreLexemes ==
  mode = "done" =>
    \A n \in 1 .. Len(tokens) - 1 :
      LET t == tokens[n]
      IN  /\ IsLexeme(t.kind, t.from.off, t.to.off)
          /\ \A kind \in LexemeKinds, j \in t.to.off + 1 .. Len(src) + 1 : ~IsLexeme(kind, t.from.off, j)
          /\ t.from = PlaceOf(t.from.off) /\ t.to = PlaceOf(t.to.off)
          /\ t.to.off <= tokens[n + 1].from.off

LEMMA LexInvTokens == LexInv => TokensAreLexemes
<1> SUFFICES ASSUME LexInv, mode = "done", NEW n \in 1 .. Len(tokens) - 1
             PROVE  LET t == tokens[n]
                    IN  /\ IsLexeme(t.kind, t.from.off, t.to.off)
                        /\ \A kind \in LexemeKinds, j \in t.to.off + 1 .. Len(src) + 1 : ~IsLexeme(kind, t.from.off, j)
                        /\ t.from = PlaceOf(t.from.off) /\ t.to = PlaceOf(t.to.off)
                        /\ t.to.off <= tokens[n + 1].from.off
  BY DEF TokensAreLexemes
<1>1. DoneOK(tokens)
  BY DEF LexInv, LexOK
<1>2. Lexed(tokens[n]) /\ tokens[n].to.off <= tokens[n + 1].from.off
  BY <1>1 DEF DoneOK
<1> QED
  BY <1>2 DEF Lexed, Longest

\* TokensAreLexemes: whatever the text, errors and CR LFs included, scanOne's
\* routines emit only whole lexemes, each the longest at its place.
THEOREM ScannerTokensAreLexemes == ScanSpec => []TokensAreLexemes
BY ScannerInvariant, LexInvTokens, PTL
-----------------------------------------------------------------------------
(* Block comments *)

\* Comments around what the set inner holds besides plain characters.
Around(inner) ==
  {p \in Stretches : /\ p[1] + 4 <= p[2]
                     /\ Starts(p[1], <<"/", "*">>) /\ Starts(p[2] - 2, <<"*", "/">>)
                     /\ MadeOf(p[1] + 2, p[2] - 2, CommentText \cup inner)}

LEMMA CommentsDef ==
  ASSUME IsText
  PROVE  /\ \A d \in 0 .. Len(src) : Comments[d] \in SUBSET Stretches
         /\ Comments[0] = {}
         /\ \A d \in 1 .. Len(src) : Comments[d] = Around(Comments[d - 1])
<1>0. Len(src) \in Nat
  BY TextFacts
<1> DEFINE V == SUBSET Stretches
           turn == [X \in V |-> Around(X)]
           step == [d \in 1 .. Len(src) |-> turn]
<1>1. step \in [1 .. Len(src) -> [V -> V]]
  <2>1. \A X \in V : Around(X) \in V
    BY DEF Around
  <2> HIDE DEF V
  <2> QED
    BY <2>1
<1>2. PICK f \in [0 .. Len(src) -> V] : IsLoop(f, Len(src), {}, step)
  <2>1. {} \in V
    OBVIOUS
  <2> HIDE DEF step, V
  <2> QED
    BY <1>0, <1>1, <2>1, LoopExists
<1>3. f = [d \in 0 .. Len(src) |-> IF d = 0 THEN {} ELSE Around(f[d - 1])]
  <2>1. \A d \in 1 .. Len(src) : f[d] = step[d][f[d - 1]] /\ f[d - 1] \in V
    <3> HIDE DEF V, step
    <3> QED
      BY <1>0, <1>2 DEF IsLoop
  <2>2. \A d \in 1 .. Len(src) : f[d] = Around(f[d - 1])
    <3> HIDE DEF V
    <3> QED
      BY <2>1
  <2>3. f[0] = {}
    BY <1>2 DEF IsLoop
  <2>4. \A d \in 0 .. Len(src) : d # 0 => d \in 1 .. Len(src)
    OBVIOUS
  <2> HIDE DEF V, step
  <2> QED
    BY <2>2, <2>3, <2>4
<1>4. Comments = CHOOSE g : g = [d \in 0 .. Len(src) |-> IF d = 0 THEN {} ELSE Around(g[d - 1])]
  BY DEF Comments, Around
<1>5. Comments = [d \in 0 .. Len(src) |-> IF d = 0 THEN {} ELSE Around(Comments[d - 1])]
  BY <1>3, <1>4
<1>6. Comments[0] = {}
  BY <1>0, <1>5
<1>7. \A d \in 1 .. Len(src) : Comments[d] = Around(Comments[d - 1])
  <2> TAKE d \in 1 .. Len(src)
  <2>1. d \in 0 .. Len(src) /\ d # 0
    BY <1>0
  <2> QED
    BY <1>5, <2>1
<1>8. \A d \in 0 .. Len(src) : Comments[d] \in SUBSET Stretches
  <2> TAKE d \in 0 .. Len(src)
  <2>1. CASE d = 0
    BY <1>6, <2>1
  <2>2. CASE d # 0
    <3>1. d \in 1 .. Len(src)
      BY <1>0, <2>2
    <3>2. Comments[d] = Around(Comments[d - 1])
      BY <1>7, <3>1
    <3> QED
      BY <3>2 DEF Around
  <2> QED
    BY <2>1, <2>2
<1> QED
  BY <1>6, <1>7, <1>8

LEMMA AroundGrows ==
  ASSUME IsText, NEW X, NEW Y, X \subseteq Y
  PROVE  Around(X) \subseteq Around(Y)
<1> SUFFICES ASSUME NEW p \in Around(X) PROVE p \in Around(Y)
  OBVIOUS
<1>1. /\ p \in Stretches /\ p[1] + 4 <= p[2] /\ Starts(p[1], <<"/", "*">>) /\ Starts(p[2] - 2, <<"*", "/">>)
      /\ MadeOf(p[1] + 2, p[2] - 2, CommentText \cup X)
  BY DEF Around
<1>2. p[1] \in Nat /\ p[2] \in Nat
  BY <1>1, TextFacts DEF Stretches
<1>3. p[1] + 2 \in Nat /\ p[2] - 2 \in Nat
  BY <1>1, <1>2
<1>4. MadeOf(p[1] + 2, p[2] - 2, CommentText \cup Y)
  BY <1>1, <1>3, MadeOfMore
<1> QED
  BY <1>1, <1>4 DEF Around

\* More levels hold more comments.
LEMMA CommentsGrow ==
  ASSUME IsText, NEW d \in 0 .. Len(src), NEW e \in d .. Len(src)
  PROVE  Comments[d] \subseteq Comments[e]
<1>0. Len(src) \in Nat
  BY TextFacts
<1> DEFINE S == {k \in 0 .. Len(src) : k + 1 <= Len(src) => Comments[k] \subseteq Comments[k + 1]}
<1>1. 0 \in S
  BY <1>0, CommentsDef
<1>2. ASSUME NEW k \in 1 .. Len(src), k - 1 \in S PROVE k \in S
  <2> SUFFICES ASSUME k + 1 <= Len(src) PROVE Comments[k] \subseteq Comments[k + 1]
    BY <1>0
  <2>1. k \in 1 .. Len(src) /\ k + 1 \in 1 .. Len(src) /\ (k + 1) - 1 = k /\ (k - 1) + 1 = k
    BY <1>0
  <2>2. Comments[k - 1] \subseteq Comments[k]
    BY <1>0, <1>2, <2>1
  <2>3. Comments[k] = Around(Comments[k - 1]) /\ Comments[k + 1] = Around(Comments[k])
    BY <2>1, CommentsDef
  <2>4. Around(Comments[k - 1]) \subseteq Around(Comments[k])
    BY <2>2, AroundGrows
  <2> QED
    BY <2>3, <2>4
<1>3. \A k \in 0 .. Len(src) : k + 1 <= Len(src) => Comments[k] \subseteq Comments[k + 1]
  <2> HIDE DEF S
  <2>1. 0 .. Len(src) \subseteq S
    BY <1>0, <1>1, <1>2, PrefixInduction
  <2> QED
    BY <2>1 DEF S
<1> DEFINE T == {k \in 0 .. Len(src) : d <= k => Comments[d] \subseteq Comments[k]}
<1>4. 0 \in T
  <2>1. d <= 0 => d = 0
    OBVIOUS
  <2> QED
    BY <1>0, <2>1
<1>5. ASSUME NEW k \in 1 .. Len(src), k - 1 \in T PROVE k \in T
  <2> SUFFICES ASSUME d <= k PROVE Comments[d] \subseteq Comments[k]
    BY <1>0
  <2>1. CASE d = k
    BY <2>1
  <2>2. CASE d # k
    <3>1. d <= k - 1 /\ k - 1 \in 0 .. Len(src) /\ (k - 1) + 1 = k /\ k <= Len(src)
      BY <1>0, <2>2
    <3>2. Comments[d] \subseteq Comments[k - 1]
      BY <1>5, <3>1
    <3>3. Comments[k - 1] \subseteq Comments[k]
      BY <1>3, <3>1
    <3> QED
      BY <3>2, <3>3
  <2> QED
    BY <2>1, <2>2
<1>6. 0 .. Len(src) \subseteq T
  <2> HIDE DEF T
  <2> QED
    BY <1>0, <1>4, <1>5, PrefixInduction
<1> QED
  BY <1>0, <1>6
\* The comments, by their lengths: a comment of n characters has fewer levels.
Sound == {p \in Stretches : p \in Comments[p[2] - p[1]]}
Inside == CommentText \cup Sound

LEMMA InsidePieces ==
  ASSUME IsText
  PROVE  /\ \A p \in Inside : p[1] \in Nat /\ p[2] \in Nat /\ p[1] < p[2]
         /\ Sound \subseteq Comments[Len(src)]
<1>0. Len(src) \in Nat
  BY TextFacts
<1>1. \A p \in Stretches : p[1] \in 1 .. Len(src) + 1 /\ p[2] \in 1 .. Len(src) + 1 /\ p[1] < p[2]
  BY DEF Stretches
<1>2. \A p \in Inside : p \in Stretches
  BY DEF Inside, Sound, CommentText
<1>3. ASSUME NEW p \in Sound PROVE p \in Comments[Len(src)]
  <2>1. p \in Stretches /\ p \in Comments[p[2] - p[1]]
    BY DEF Sound
  <2>2. p[1] \in 1 .. Len(src) + 1 /\ p[2] \in 1 .. Len(src) + 1 /\ p[1] < p[2]
    BY <1>1, <2>1
  <2> DEFINE d == p[2] - p[1]
  <2>3. d \in 0 .. Len(src) /\ Len(src) \in d .. Len(src)
    BY <1>0, <2>2
  <2> HIDE DEF d
  <2>4. Comments[d] \subseteq Comments[Len(src)]
    BY <2>3, CommentsGrow
  <2> QED
    BY <2>1, <2>4 DEF d
<1> QED
  BY <1>0, <1>1, <1>2, <1>3

\* The comment that begins at o ends behind h.
LEMMA CommentCloses ==
  ASSUME IsText, NEW o \in 1 .. Len(src), NEW h \in 1 .. Len(src),
         Starts(o, <<"/", "*">>), MadeOf(o + 2, h, Inside), Starts(h, <<"*", "/">>)
  PROVE  <<o, h + 2>> \in Sound
<1>0. Len(src) \in Nat /\ o \in Nat /\ h \in Nat
  BY TextFacts
<1>1. h + 1 \in 1 .. Len(src)
  <2>1. h \in 1 .. Len(src) + 1 /\ "/" # "end"
    BY <1>0
  <2> QED
    BY <2>1, OpenerIs
<1>2. o + 2 <= h
  BY DEF MadeOf
<1> DEFINE p == <<o, h + 2>>
           d == h + 2 - o
<1>3. d \in 1 .. Len(src) /\ d \in Nat /\ d - 1 \in 0 .. Len(src) /\ d - 1 = h + 1 - o
  BY <1>0, <1>1, <1>2
<1>4. p[1] = o /\ p[2] = h + 2
  OBVIOUS
<1>5. p \in Stretches
  <2>1. o \in 1 .. Len(src) + 1 /\ h + 2 \in 1 .. Len(src) + 1 /\ o < h + 2
    BY <1>0, <1>1, <1>2
  <2> QED
    BY <2>1 DEF Stretches
<1> HIDE DEF p, d
<1>6. MadeOf(o + 2, h, CommentText \cup Comments[d - 1])
  <2>1. ASSUME NEW x \in Inside, o + 2 <= x[1], x[2] <= h PROVE x \in CommentText \cup Comments[d - 1]
    <3>1. CASE x \in CommentText
      BY <3>1
    <3>2. CASE x \in Sound
      <4>1. x \in Stretches /\ x \in Comments[x[2] - x[1]]
        BY <3>2 DEF Sound
      <4>2. x[1] \in 1 .. Len(src) + 1 /\ x[2] \in 1 .. Len(src) + 1 /\ x[1] < x[2]
        BY <4>1 DEF Stretches
      <4> DEFINE e == x[2] - x[1]
      <4>3. e \in 0 .. Len(src) /\ d - 1 \in e .. Len(src)
        BY <1>0, <1>1, <1>3, <2>1, <4>2
      <4> HIDE DEF e
      <4>4. Comments[e] \subseteq Comments[d - 1]
        BY <4>3, CommentsGrow
      <4> QED
        BY <4>1, <4>4 DEF e
    <3> QED
      BY <3>1, <3>2 DEF Inside
  <2>2. o + 2 \in Nat
    BY <1>0
  <2> QED
    BY <1>0, <2>1, <2>2, MadeOfMore
<1>7. p \in Around(Comments[d - 1])
  <2>1. p[1] + 4 <= p[2] /\ p[1] + 2 = o + 2 /\ p[2] - 2 = h
    BY <1>0, <1>2, <1>4
  <2>2. Starts(p[1], <<"/", "*">>) /\ Starts(p[2] - 2, <<"*", "/">>) /\ MadeOf(p[1] + 2, p[2] - 2, CommentText \cup Comments[d - 1])
    BY <1>4, <1>6, <2>1
  <2> QED
    BY <1>5, <2>1, <2>2 DEF Around
<1>8. p \in Comments[d]
  BY <1>3, <1>7, CommentsDef
<1>9. p[2] - p[1] = d
  BY <1>4 DEF d
<1>10. p \in Sound
  BY <1>5, <1>8, <1>9 DEF Sound
<1> QED
  BY <1>10 DEF p

\* What of a block comment has been read: opens are the places of the `/*'s
\* that wait for their end.
Open(f, h, c, opens) ==
  /\ opens[1] = f
  /\ \A k \in 1 .. c : Starts(opens[k], <<"/", "*">>) /\ MadeOf(opens[k] + 2, IF k = c THEN h ELSE opens[k + 1], Inside)
BlockOK(f, h, c) ==
  IF c = 0 THEN <<f, h>> \in Sound ELSE \E opens \in [1 .. c -> 1 .. Len(src)] : Open(f, h, c, opens)

LEMMA BlockBegins ==
  ASSUME IsText, NEW f \in 1 .. Len(src), Starts(f, <<"/", "*">>)
  PROVE  BlockOK(f, f + 2, 1)
<1> DEFINE opens == [k \in 1 .. 1 |-> f]
<1>1. opens \in [1 .. 1 -> 1 .. Len(src)] /\ opens[1] = f
  OBVIOUS
<1> HIDE DEF opens
<1>2. MadeOf(f + 2, f + 2, Inside)
  <2>1. f + 2 \in Nat
    BY TextFacts
  <2> QED
    BY <2>1, MadeOfNothing
<1>3. \A k \in 1 .. 1 : k = 1
  OBVIOUS
<1>4. Open(f, f + 2, 1, opens)
  BY <1>1, <1>2, <1>3 DEF Open
<1> QED
  BY <1>1, <1>4 DEF BlockOK

LEMMA BlockOpens ==
  ASSUME IsText, NEW f, NEW h \in 1 .. Len(src), NEW c \in Nat, c > 0, BlockOK(f, h, c), Starts(h, <<"/", "*">>)
  PROVE  BlockOK(f, h + 2, c + 1)
<1>0. Len(src) \in Nat /\ h \in Nat /\ h + 2 \in Nat /\ c + 1 # 0 /\ c # 0
  BY TextFacts
<1>1. PICK opens \in [1 .. c -> 1 .. Len(src)] : Open(f, h, c, opens)
  BY <1>0 DEF BlockOK
<1> DEFINE more == [k \in 1 .. c + 1 |-> IF k = c + 1 THEN h ELSE opens[k]]
<1>2. more \in [1 .. c + 1 -> 1 .. Len(src)] /\ more[c + 1] = h /\ \A k \in 1 .. c : more[k] = opens[k]
  <2>1. \A k \in 1 .. c + 1 : k # c + 1 => k \in 1 .. c
    OBVIOUS
  <2>2. \A k \in 1 .. c : k \in 1 .. c + 1 /\ k # c + 1
    OBVIOUS
  <2>3. c + 1 \in 1 .. c + 1
    OBVIOUS
  <2> QED
    BY <2>1, <2>2, <2>3
<1> HIDE DEF more
<1>3. MadeOf(h + 2, h + 2, Inside)
  BY <1>0, MadeOfNothing
<1>4. ASSUME NEW k \in 1 .. c + 1
      PROVE  /\ Starts(more[k], <<"/", "*">>)
             /\ MadeOf(more[k] + 2, IF k = c + 1 THEN h + 2 ELSE more[k + 1], Inside)
  <2>1. CASE k = c + 1
    BY <1>2, <1>3, <2>1
  <2>2. CASE k = c
    <3>1. k \in 1 .. c /\ k # c + 1
      BY <2>2
    <3>2. Starts(opens[k], <<"/", "*">>) /\ MadeOf(opens[k] + 2, h, Inside)
      BY <1>1, <2>2, <3>1 DEF Open
    <3> QED
      BY <1>2, <2>2, <3>1, <3>2
  <2>3. CASE k # c /\ k # c + 1
    <3>1. k \in 1 .. c /\ k + 1 \in 1 .. c
      BY <2>3
    <3>2. Starts(opens[k], <<"/", "*">>) /\ MadeOf(opens[k] + 2, opens[k + 1], Inside)
      BY <1>1, <2>3, <3>1 DEF Open
    <3> QED
      BY <1>2, <2>3, <3>1, <3>2
  <2> QED
    BY <2>1, <2>2, <2>3
<1>5. Open(f, h + 2, c + 1, more)
  <2>1. 1 \in 1 .. c
    BY <1>0
  <2> QED
    BY <1>1, <1>2, <1>4, <2>1 DEF Open
<1> QED
  BY <1>0, <1>2, <1>5 DEF BlockOK

LEMMA BlockCloses ==
  ASSUME IsText, NEW f, NEW h \in 1 .. Len(src), NEW c \in Nat, c > 0, BlockOK(f, h, c), Starts(h, <<"*", "/">>)
  PROVE  BlockOK(f, h + 2, c - 1)
<1>0. Len(src) \in Nat /\ h \in Nat /\ h + 2 \in Nat /\ c # 0 /\ c \in 1 .. c /\ 1 \in 1 .. c
  BY TextFacts
<1>1. PICK opens \in [1 .. c -> 1 .. Len(src)] : Open(f, h, c, opens)
  BY <1>0 DEF BlockOK
<1>2. opens[1] = f /\ opens[c] \in 1 .. Len(src) /\ Starts(opens[c], <<"/", "*">>) /\ MadeOf(opens[c] + 2, h, Inside)
  BY <1>0, <1>1 DEF Open
<1> DEFINE o == opens[c]
<1>3. <<o, h + 2>> \in Sound
  BY <1>2, CommentCloses
<1>4. CASE c = 1
  <2>1. c - 1 = 0 /\ o = f
    BY <1>2, <1>4
  <2> QED
    BY <1>3, <2>1 DEF BlockOK
<1>5. CASE c # 1
  <2>0. c - 1 \in Nat /\ c - 1 # 0 /\ c - 1 \in 1 .. c - 1 /\ 1 \in 1 .. c - 1 /\ c - 1 \in 1 .. c /\ (c - 1) + 1 = c
    BY <1>0, <1>5
  <2> DEFINE b == c - 1
             fewer == [k \in 1 .. b |-> opens[k]]
  <2>1. fewer \in [1 .. b -> 1 .. Len(src)] /\ \A k \in 1 .. b : fewer[k] = opens[k]
    <3>1. \A k \in 1 .. b : k \in 1 .. c
      BY <1>0
    <3> HIDE DEF b
    <3> QED
      BY <3>1
  <2> HIDE DEF fewer
  <2>2. MadeOf(opens[b] + 2, h + 2, Inside)
    <3>1. Starts(opens[b], <<"/", "*">>) /\ MadeOf(opens[b] + 2, o, Inside)
      <4>1. b \in 1 .. c /\ b # c /\ b + 1 = c
        BY <2>0
      <4> HIDE DEF b
      <4> QED
        BY <1>1, <4>1 DEF Open
    <3>2. opens[b] \in 1 .. Len(src)
      BY <2>0
    <3>3. opens[b] + 2 \in Nat /\ o \in Nat /\ o < h + 2
      <4>1. o + 2 <= h
        BY <1>2 DEF MadeOf
      <4> HIDE DEF b
      <4> QED
        BY <1>0, <1>2, <3>2, <4>1
    <3> HIDE DEF o, b
    <3>4. MadeOf(o, h + 2, Inside)
      <4>1. <<o, h + 2>> \in Inside
        BY <1>3 DEF Inside
      <4> QED
        BY <1>0, <3>3, <4>1, MadeOfOne
    <3> QED
      BY <1>0, <3>1, <3>3, <3>4, InsidePieces, MadeOfBoth
  <2>3. ASSUME NEW k \in 1 .. b
        PROVE  Starts(fewer[k], <<"/", "*">>) /\ MadeOf(fewer[k] + 2, IF k = b THEN h + 2 ELSE fewer[k + 1], Inside)
    <3>1. k \in 1 .. c /\ k # c
      BY <1>0
    <3>2. Starts(opens[k], <<"/", "*">>) /\ MadeOf(opens[k] + 2, opens[k + 1], Inside)
      BY <1>1, <3>1 DEF Open
    <3>3. CASE k = b
      <4> HIDE DEF b
      <4> QED
        BY <2>1, <2>2, <3>2, <3>3
    <3>4. CASE k # b
      <4>1. k + 1 \in 1 .. b
        BY <2>0, <3>4
      <4> HIDE DEF b
      <4> QED
        BY <2>1, <3>2, <3>4, <4>1
    <3> QED
      BY <3>3, <3>4
  <2>4. Open(f, h + 2, b, fewer)
    <3>1. fewer[1] = f
      BY <1>2, <2>0, <2>1
    <3> HIDE DEF b
    <3> QED
      BY <2>3, <3>1 DEF Open
  <2>5. b # 0
    BY <2>0
  <2> HIDE DEF b
  <2>6. BlockOK(f, h + 2, b)
    BY <2>1, <2>4, <2>5 DEF BlockOK
  <2> QED
    BY <2>6 DEF b
<1> QED
  BY <1>4, <1>5

LEMMA BlockPlain ==
  ASSUME IsText, NEW f, NEW h \in 1 .. Len(src), NEW c \in Nat, c > 0, BlockOK(f, h, c),
         ~Starts(h, <<"/", "*">>), ~Starts(h, <<"*", "/">>)
  PROVE  BlockOK(f, Behind(h), c)
<1>0. Len(src) \in Nat /\ h \in Nat /\ c # 0 /\ c \in 1 .. c
  BY TextFacts
<1>1. PICK opens \in [1 .. c -> 1 .. Len(src)] : Open(f, h, c, opens)
  BY <1>0 DEF BlockOK
<1> DEFINE b == Behind(h)
<1>2. b \in h + 1 .. Len(src) + 1 /\ (b = h + 1 \/ (b = h + 2 /\ Char(h + 1) = "lf")) /\ b \in Nat
  BY <1>0, ConsumePlace
<1> HIDE DEF b
<1>3. MadeOf(h, b, Inside)
  <2>1. ASSUME NEW k \in 1 .. Len(src), ~Starts(k, <<"/", "*">>), ~Starts(k, <<"*", "/">>) PROVE MadeOf(k, k + 1, Inside)
    <3> DEFINE p == <<k, k + 1>>
    <3>1. p \in Stretches /\ p[1] = k /\ p[2] = k + 1
      <4>1. k \in 1 .. Len(src) + 1 /\ k + 1 \in 1 .. Len(src) + 1 /\ k < k + 1
        BY <1>0
      <4> QED
        BY <4>1 DEF Stretches
    <3>2. p \in Inside
      BY <2>1, <3>1 DEF Inside, CommentText
    <3>3. k \in Nat /\ k + 1 \in Nat /\ k < k + 1
      BY <1>0
    <3> QED
      BY <3>2, <3>3, MadeOfOne
  <2>2. MadeOf(h, h + 1, Inside)
    BY <2>1
  <2>3. CASE b = h + 1
    BY <2>2, <2>3
  <2>4. CASE b = h + 2 /\ Char(h + 1) = "lf"
    <3>1. h + 1 \in 1 .. Len(src) /\ h + 1 \in Nat /\ (h + 1) + 1 = b
      BY <1>0, <1>2, <2>4
    <3>2. ~Starts(h + 1, <<"/", "*">>) /\ ~Starts(h + 1, <<"*", "/">>)
      BY <2>4, <3>1, StartsTwo
    <3>3. MadeOf(h + 1, b, Inside)
      BY <2>1, <3>1, <3>2
    <3> QED
      BY <1>0, <1>2, <2>2, <3>1, <3>3, InsidePieces, MadeOfBoth
  <2> QED
    BY <1>2, <2>3, <2>4
<1>4. MadeOf(opens[c] + 2, b, Inside)
  <2>1. MadeOf(opens[c] + 2, h, Inside) /\ opens[c] \in 1 .. Len(src)
    BY <1>0, <1>1 DEF Open
  <2>2. opens[c] + 2 \in Nat
    BY <1>0, <2>1
  <2> QED
    BY <1>0, <1>2, <1>3, <2>1, <2>2, InsidePieces, MadeOfBoth
<1>5. Open(f, b, c, opens)
  BY <1>1, <1>4 DEF Open
<1> QED
  <2>1. BlockOK(f, b, c)
    BY <1>0, <1>5 DEF BlockOK
  <2> QED
    BY <2>1 DEF b
-----------------------------------------------------------------------------
(* What lies between the tokens *)

LEMMA TriviaPieces ==
  ASSUME IsText
  PROVE  /\ \A p \in Trivia : p[1] \in Nat /\ p[2] \in Nat /\ p[1] < p[2]
         /\ Sound \subseteq Trivia
<1>0. Len(src) \in Nat
  BY TextFacts
<1>1. \A p \in Stretches : p[1] \in Nat /\ p[2] \in Nat /\ p[1] < p[2]
  BY <1>0 DEF Stretches
<1>2. Comments[Len(src)] \subseteq Stretches
  <2>1. Len(src) \in 0 .. Len(src)
    BY <1>0
  <2> QED
    BY <2>1, CommentsDef
<1>3. Trivia \subseteq Stretches
  BY <1>2 DEF Trivia
<1>4. Sound \subseteq Trivia
  BY InsidePieces DEF Trivia
<1> QED
  BY <1>1, <1>3, <1>4

\* One more piece.
LEMMA TriviaGoesOn ==
  ASSUME IsText, NEW i \in Nat, NEW j \in Nat, NEW k \in Nat, j < k, IsTrivia(i, j), <<j, k>> \in Trivia
  PROVE  IsTrivia(i, k)
<1>1. MadeOf(i, j, Trivia)
  BY DEF IsTrivia
<1>2. MadeOf(j, k, Trivia)
  BY MadeOfOne
<1>3. MadeOf(i, k, Trivia)
  BY <1>1, <1>2, TriviaPieces, MadeOfBoth
<1> QED
  BY <1>3 DEF IsTrivia

\* A blank; a CR LF is two of them.
LEMMA BlankIsTrivia ==
  ASSUME IsText, NEW i \in Nat, NEW h \in 1 .. Len(src), IsTrivia(i, h), Char(h) \in Blank
  PROVE  IsTrivia(i, Behind(h))
<1>0. Len(src) \in Nat
  BY TextFacts
<1>1. ASSUME NEW k \in 1 .. Len(src), Char(k) \in Blank, IsTrivia(i, k) PROVE IsTrivia(i, k + 1)
  <2> DEFINE p == <<k, k + 1>>
  <2>1. p[1] = k /\ p[2] = k + 1 /\ src[k] \in Blank
    BY <1>0, <1>1, TextFacts
  <2>2. p \in Stretches
    <3>1. k \in 1 .. Len(src) + 1 /\ k + 1 \in 1 .. Len(src) + 1 /\ k < k + 1
      BY <1>0
    <3> QED
      BY <3>1 DEF Stretches
  <2> HIDE DEF p
  <2>3. p \in Trivia
    BY <2>1, <2>2 DEF Trivia
  <2>4. k \in Nat /\ k + 1 \in Nat /\ k < k + 1
    BY <1>0
  <2>5. <<k, k + 1>> \in Trivia
    BY <2>3 DEF p
  <2> QED
    BY <1>1, <2>4, <2>5, TriviaGoesOn
<1>2. IsTrivia(i, h + 1)
  BY <1>1
<1>3. Behind(h) = h + 1 \/ (Behind(h) = h + 2 /\ Char(h + 1) = "lf" /\ h + 1 \in 1 .. Len(src))
  <2>1. /\ Behind(h) = IF Char(h) = "cr" /\ Char(h + 1) = "lf" THEN h + 2 ELSE h + 1
        /\ Behind(h) \in h + 1 .. Len(src) + 1
    BY ConsumePlace
  <2> QED
    BY <1>0, <2>1
<1>4. CASE Behind(h) = h + 1
  BY <1>2, <1>4
<1>5. CASE Behind(h) = h + 2 /\ Char(h + 1) = "lf" /\ h + 1 \in 1 .. Len(src)
  <2>1. Char(h + 1) \in Blank /\ (h + 1) + 1 = h + 2
    BY <1>5 DEF Blank
  <2>2. IsTrivia(i, (h + 1) + 1)
    BY <1>1, <1>2, <1>5, <2>1
  <2> QED
    BY <1>5, <2>1, <2>2
<1> QED
  BY <1>3, <1>4, <1>5

\* A line comment up to a line feed or the end of the text.
LEMMA LineIsTrivia ==
  ASSUME IsText, NEW f \in 1 .. Len(src), NEW h \in f .. Len(src) + 1,
         Starts(f, <<"/", "/">>), \A k \in f .. h - 1 : ~LineEnd(k), Char(h) \in {"lf", "end"}
  PROVE  <<f, h>> \in Trivia /\ f < h
<1>0. Len(src) \in Nat /\ f \in 1 .. Len(src) + 1
  BY TextFacts
<1>1. Char(f) = "/" /\ Char(f + 1) = "/"
  BY <1>0, OpenerIs
<1>2. h # f /\ h # f + 1
  BY <1>1
<1>3. h >= f + 2 /\ f < h /\ h \in 1 .. Len(src) + 1
  BY <1>0, <1>2
<1>4. IsLineComment(f, h)
  BY <1>3 DEF IsLineComment, LineEnd
<1> DEFINE p == <<f, h>>
<1>5. p \in Stretches /\ p[1] = f /\ p[2] = h
  BY <1>0, <1>3 DEF Stretches
<1> HIDE DEF p
<1>6. p \in Trivia
  BY <1>4, <1>5 DEF Trivia
<1> QED
  BY <1>3, <1>6 DEF p

\* In every text, a CR LF that follows `//' has a line feed between them.
LineCommentsEndInLF ==
  \A t \in Texts : \A a \in 1 .. Len(t) - 1 : \A b \in a + 2 .. Len(t) - 1 :
    t[a] = "/" /\ t[a + 1] = "/" /\ t[b] = "cr" /\ t[b + 1] = "lf" => \E k \in a .. b : t[k] = "lf"

\* So no CR LF is met inside a line comment.
LEMMA LineGoesOn ==
  ASSUME IsText, LineCommentsEndInLF, NEW f \in 1 .. Len(src), NEW h \in f .. Len(src),
         Starts(f, <<"/", "/">>), \A k \in f .. h - 1 : ~LineEnd(k), Char(h) # "lf"
  PROVE  ~LineEnd(h) /\ Behind(h) = h + 1
<1>0. Len(src) \in Nat /\ f \in 1 .. Len(src) + 1 /\ h \in 1 .. Len(src) /\ h \in Nat
  BY TextFacts
<1>1. Char(f) = "/" /\ Char(f + 1) = "/" /\ f + 1 \in 1 .. Len(src) /\ f \in 1 .. Len(src) - 1
  <2>1. Char(f) = "/" /\ Char(f + 1) = "/" /\ f + 1 \in 1 .. Len(src)
    BY <1>0, OpenerIs
  <2> QED
    BY <1>0, <2>1
<1>2. ~(Char(h) = "cr" /\ Char(h + 1) = "lf")
  <2> SUFFICES ASSUME Char(h) = "cr", Char(h + 1) = "lf" PROVE FALSE
    OBVIOUS
  <2>1. h + 1 \in 1 .. Len(src)
    <3>1. h + 1 \in 1 .. Len(src) + 1
      BY <1>0
    <3>2. Char(Len(src) + 1) = "end"
      BY <1>0, TextFacts
    <3>3. h + 1 # Len(src) + 1
      BY <3>2
    <3> QED
      BY <1>0, <3>1, <3>3
  <2>2. h # f /\ h # f + 1
    BY <1>1
  <2>3. h \in f + 2 .. Len(src) - 1
    BY <1>0, <2>1, <2>2
  <2>4. src[f] = "/" /\ src[f + 1] = "/" /\ src[h] = "cr" /\ src[h + 1] = "lf"
    BY <1>0, <1>1, <2>1, TextFacts
  <2>5. PICK k \in f .. h : src[k] = "lf"
    BY <1>1, <2>3, <2>4 DEF LineCommentsEndInLF, IsText
  <2>6. k \in f .. h - 1 /\ k \in 1 .. Len(src)
    <3>1. k # h
      BY <2>4, <2>5
    <3> QED
      BY <1>0, <2>5, <3>1
  <2>7. Char(k) = "lf"
    BY <2>5, <2>6, TextFacts
  <2>8. LineEnd(k)
    BY <2>7 DEF LineEnd
  <2> QED
    BY <2>6, <2>8
<1>3. Char(h) # "end"
  BY <1>0, TextFacts
<1>4. ~Starts(h, <<"cr", "lf">>)
  BY <1>0, <1>2, StartsTwo
<1> QED
  BY <1>3, <1>4 DEF LineEnd, Behind

-----------------------------------------------------------------------------
(* It is trivia at every step *)

\* The end of the last token.
LastEnd(ts) == IF ts = <<>> THEN 1 ELSE ts[Len(ts)].to.off

GapsOK(ts) == \A n \in 1 .. Len(ts) : IsTrivia(IF n = 1 THEN 1 ELSE ts[n - 1].to.off, ts[n].from.off)

\* The gaps so far, the one that may still grow, and the comment that is read.
TriviaOK(h, m, f, c, ts) ==
  /\ GapsOK(ts)
  /\ m \in {"start", "trivia"} => IsTrivia(LastEnd(ts), h.off)
  /\ m \in Inner => IsTrivia(LastEnd(ts), f.off)
  /\ m = "line" => Starts(f.off, <<"/", "/">>) /\ \A k \in f.off .. h.off - 1 : ~LineEnd(k)
  /\ m = "block" => BlockOK(f.off, h.off, c)

TriviaInv == lexErrors \in Seq(Position) /\ (lexErrors = <<>> => TriviaOK(here, mode, from, count, tokens))
TriviaNext == lexErrors' \in Seq(Position) /\ (lexErrors' = <<>> => TriviaOK(here', mode', from', count', tokens'))

LEMMA GapsAppend ==
  ASSUME NEW ts \in Seq(TokenSet), NEW t \in TokenSet, GapsOK(ts), IsTrivia(LastEnd(ts), t.from.off)
  PROVE  GapsOK(Append(ts, t)) /\ LastEnd(Append(ts, t)) = t.to.off
<1> DEFINE us == Append(ts, t)
<1>1. us \in Seq(TokenSet) /\ Len(us) = Len(ts) + 1 /\ us[Len(ts) + 1] = t /\ Len(ts) \in Nat
      /\ \A n \in 1 .. Len(ts) : us[n] = ts[n]
  OBVIOUS
<1>2. us # <<>>
  BY <1>1
<1> HIDE DEF us
<1>3. LastEnd(us) = t.to.off
  BY <1>1, <1>2 DEF LastEnd
<1>4. ASSUME NEW n \in 1 .. Len(us) PROVE IsTrivia(IF n = 1 THEN 1 ELSE us[n - 1].to.off, us[n].from.off)
  <2>1. CASE n \in 1 .. Len(ts)
    <3>1. n # 1 => n - 1 \in 1 .. Len(ts)
      BY <1>1, <2>1
    <3>2. IsTrivia(IF n = 1 THEN 1 ELSE ts[n - 1].to.off, ts[n].from.off)
      BY <2>1 DEF GapsOK
    <3>3. us[n] = ts[n] /\ (n # 1 => us[n - 1] = ts[n - 1])
      BY <1>1, <2>1, <3>1
    <3> QED
      BY <3>2, <3>3
  <2>2. CASE n = Len(ts) + 1
    <3>1. us[n] = t
      BY <1>1, <2>2
    <3>2. CASE ts = <<>>
      <4>1. n = 1 /\ LastEnd(ts) = 1
        BY <2>2, <3>2 DEF LastEnd
      <4> QED
        BY <3>1, <4>1
    <3>3. CASE ts # <<>>
      <4>1. n # 1 /\ n - 1 = Len(ts) /\ Len(ts) \in 1 .. Len(ts)
        BY <1>1, <2>2, <3>3
      <4>2. LastEnd(ts) = ts[Len(ts)].to.off /\ us[n - 1] = ts[Len(ts)]
        BY <1>1, <3>3, <4>1 DEF LastEnd
      <4> QED
        BY <3>1, <4>1, <4>2
    <3> QED
      BY <3>2, <3>3
  <2> QED
    BY <1>1, <2>1, <2>2
<1> QED
  <2>1. GapsOK(us)
    BY <1>4 DEF GapsOK
  <2> QED
    BY <1>3, <2>1 DEF us

LEMMA LastEndIs ==
  ASSUME NEW ts, NEW e, TokensOK(ts, e)
  PROVE  ts \in Seq(TokenSet) /\ LastEnd(ts) \in Nat
<1>1. ts \in Seq(TokenSet)
  BY DEF TokensOK
<1>2. CASE ts = <<>>
  BY <1>1, <1>2 DEF LastEnd
<1>3. CASE ts # <<>>
  <2>1. ts[Len(ts)] \in TokenSet
    BY <1>1, <1>3
  <2> QED
    BY <1>1, <1>3, <2>1 DEF LastEnd, TokenSet, Position
<1> QED
  BY <1>2, <1>3
\* What every step meets.
LEMMA TriviaFacts ==
  ASSUME LexInv, TriviaInv
  PROVE  /\ lexErrors \in Seq(Position) /\ here \in Position /\ from \in Position /\ IsText
         /\ (lexErrors = <<>> => TriviaOK(here, mode, from, count, tokens))
         /\ (mode \in {"start", "trivia"} => tokens \in Seq(TokenSet) /\ LastEnd(tokens) \in Nat)
         /\ (mode \in Inner => tokens \in Seq(TokenSet) /\ LastEnd(tokens) \in Nat)
<1>1. mode \in {"start", "trivia"} => TokensOK(tokens, here.off)
  BY LexFacts
<1>2. mode \in Inner => TokensOK(tokens, from.off)
  BY LexFacts
<1> QED
  BY <1>1, <1>2, LexFacts, LastEndIs DEF TriviaInv

\* After an error nothing is promised.
LEMMA TriviaError ==
  ASSUME LexInv, TriviaInv, NEW p \in Position, lexErrors' = Append(lexErrors, p)
  PROVE  TriviaNext
<1>1. lexErrors \in Seq(Position)
  BY TriviaFacts
<1>2. Append(lexErrors, p) \in Seq(Position) /\ Append(lexErrors, p) # <<>>
  BY <1>1
<1> QED
  BY <1>2 DEF TriviaNext

LEMMA TriviaStop == ASSUME LexInv, TriviaInv, Stop(from) PROVE TriviaNext
<1>1. lexErrors' = Append(lexErrors, from)
  BY DEF Stop
<1> QED
  BY <1>1, TriviaFacts, TriviaError

\* A token that begins here: the gap before it is closed, and none is open.
LEMMA TriviaEmitFrom ==
  ASSUME LexInv, TriviaInv, LexNext, Scanning, NEW kind, NEW q, EmitFrom(kind, q)
  PROVE  TriviaNext
<1> DEFINE t == Token(kind, here, q)
<1>1. /\ tokens' = Append(tokens, t) /\ here' = q /\ mode' = "trivia" /\ lexErrors' = lexErrors
      /\ mode = "trivia"
  BY DEF EmitFrom, Scanning
<1>2. q \in Position /\ q.off \in Nat /\ TokensOK(tokens', here'.off)
  BY <1>1 DEF LexNext, LexOK, Position
<1>3. t \in TokenSet
  <2>1. Append(tokens, t) \in Seq(TokenSet) /\ tokens \in Seq(TokenSet)
    BY <1>1, <1>2, TriviaFacts DEF TokensOK
  <2>2. Len(Append(tokens, t)) = Len(tokens) + 1 /\ Append(tokens, t)[Len(tokens) + 1] = t /\ Len(tokens) \in Nat
    BY <2>1
  <2> HIDE DEF t
  <2> QED
    BY <2>1, <2>2
<1>4. t.from = here /\ t.to = q
  BY DEF Token
<1> HIDE DEF t
<1>5. ASSUME lexErrors = <<>> PROVE TriviaOK(here', mode', from', count', tokens')
  <2>1. GapsOK(tokens) /\ IsTrivia(LastEnd(tokens), here.off) /\ tokens \in Seq(TokenSet)
    BY <1>1, <1>5, TriviaFacts DEF TriviaOK
  <2>2. GapsOK(tokens') /\ LastEnd(tokens') = here'.off
    BY <1>1, <1>3, <1>4, <2>1, GapsAppend
  <2>3. IsTrivia(LastEnd(tokens'), here'.off)
    <3>1. IsTrivia(q.off, q.off)
      BY <1>2, MadeOfNothing DEF IsTrivia
    <3> QED
      BY <1>1, <2>2, <3>1
  <2> QED
    BY <1>1, <2>2, <2>3 DEF TriviaOK, Inner
<1> QED
  BY <1>1, <1>5, TriviaFacts DEF TriviaNext

\* The end of a token that began earlier.
LEMMA TriviaEmit ==
  ASSUME LexInv, TriviaInv, LexNext, mode \in Inner, NEW kind, NEW q, Emit(kind, q)
  PROVE  TriviaNext
<1> DEFINE t == Token(kind, from, q)
<1>1. tokens' = Append(tokens, t) /\ here' = q /\ mode' = "trivia" /\ lexErrors' = lexErrors
  BY DEF Emit
<1>2. q \in Position /\ q.off \in Nat /\ TokensOK(tokens', here'.off)
  BY <1>1 DEF LexNext, LexOK, Position
<1>3. t \in TokenSet
  <2>1. Append(tokens, t) \in Seq(TokenSet) /\ tokens \in Seq(TokenSet)
    BY <1>1, <1>2, TriviaFacts DEF TokensOK
  <2>2. Len(Append(tokens, t)) = Len(tokens) + 1 /\ Append(tokens, t)[Len(tokens) + 1] = t /\ Len(tokens) \in Nat
    BY <2>1
  <2> HIDE DEF t
  <2> QED
    BY <2>1, <2>2
<1>4. t.from = from /\ t.to = q
  BY DEF Token
<1> HIDE DEF t
<1>5. ASSUME lexErrors = <<>> PROVE TriviaOK(here', mode', from', count', tokens')
  <2>1. GapsOK(tokens) /\ IsTrivia(LastEnd(tokens), from.off) /\ tokens \in Seq(TokenSet)
    BY <1>5, TriviaFacts DEF TriviaOK
  <2>2. GapsOK(tokens') /\ LastEnd(tokens') = here'.off
    BY <1>1, <1>3, <1>4, <2>1, GapsAppend
  <2>3. IsTrivia(LastEnd(tokens'), here'.off)
    <3>1. IsTrivia(q.off, q.off)
      BY <1>2, MadeOfNothing DEF IsTrivia
    <3> QED
      BY <1>1, <2>2, <3>1
  <2> QED
    BY <1>1, <2>2, <2>3 DEF TriviaOK, Inner
<1> QED
  BY <1>1, <1>5, TriviaFacts DEF TriviaNext

\* Into a string: the gap before it ends here.
LEMMA TriviaEnter ==
  ASSUME LexInv, TriviaInv, Scanning, NEW m \in {"raw", "string", "cstring"}, NEW q, NEW n, Enter(m, q, n)
  PROVE  TriviaNext
<1>1. mode' = m /\ from' = here /\ tokens' = tokens /\ lexErrors' = lexErrors /\ mode = "trivia"
  BY DEF Enter, Scanning
<1>2. ASSUME lexErrors = <<>> PROVE TriviaOK(here', mode', from', count', tokens')
  <2>1. GapsOK(tokens) /\ IsTrivia(LastEnd(tokens), here.off)
    BY <1>1, <1>2, TriviaFacts DEF TriviaOK
  <2>2. m \notin {"start", "trivia"} /\ m # "line" /\ m # "block"
    OBVIOUS
  <2>3. TriviaOK(here', m, here, count', tokens)
    BY <2>1, <2>2, Zenon DEF TriviaOK
  <2> QED
    BY <1>1, <2>3
<1> QED
  BY <1>1, <1>2, TriviaFacts DEF TriviaNext

LEMMA TriviaStay ==
  ASSUME LexInv, TriviaInv, mode \in {"raw", "string", "cstring"}, NEW q, NEW n, Stay(q, n)
  PROVE  TriviaNext
<1>1. mode' = mode /\ from' = from /\ tokens' = tokens /\ lexErrors' = lexErrors
  BY DEF Stay
<1>2. ASSUME lexErrors = <<>> PROVE TriviaOK(here', mode', from', count', tokens')
  <2>1. GapsOK(tokens) /\ IsTrivia(LastEnd(tokens), from.off)
    BY <1>2, TriviaFacts DEF TriviaOK, Inner
  <2>2. mode \notin {"start", "trivia"} /\ mode # "line" /\ mode # "block"
    OBVIOUS
  <2>3. TriviaOK(here', mode, from, count', tokens)
    BY <2>1, <2>2, Zenon DEF TriviaOK
  <2> QED
    BY <1>1, <2>3
<1> QED
  BY <1>1, <1>2, TriviaFacts DEF TriviaNext

LEMMA TriviaCheckBOM == ASSUME LexInv, TriviaInv, CheckBOM PROVE TriviaNext
<1>1. mode = "start" /\ mode' = "trivia" /\ UNCHANGED <<from, count, tokens>>
  BY DEF CheckBOM
<1>2. CASE Here = "bom"
  <2>1. lexErrors' = <<here>>
    BY <1>2 DEF CheckBOM
  <2>2. <<here>> \in Seq(Position) /\ <<here>> # <<>>
    BY TriviaFacts
  <2> QED
    BY <2>1, <2>2 DEF TriviaNext
<1>3. CASE Here # "bom"
  <2>1. lexErrors' = lexErrors /\ here' = here
    BY <1>3 DEF CheckBOM
  <2>2. TriviaOK(here, "start", from, count, tokens) => TriviaOK(here, "trivia", from, count, tokens)
    BY DEF TriviaOK, Inner
  <2> QED
    BY <1>1, <2>1, <2>2, TriviaFacts DEF TriviaNext
<1> QED
  BY <1>2, <1>3

LEMMA TriviaEmitEOF == ASSUME LexInv, TriviaInv, EmitEOF PROVE TriviaNext
<1> DEFINE t == Token("EOF", here, here)
<1>1. mode = "trivia" /\ mode' = "done" /\ tokens' = Append(tokens, t) /\ lexErrors' = lexErrors
  BY DEF EmitEOF
<1>2. t \in TokenSet /\ t.from = here
  BY TriviaFacts DEF TokenSet, Token
<1> HIDE DEF t
<1>3. ASSUME lexErrors = <<>> PROVE TriviaOK(here', mode', from', count', tokens')
  <2>1. GapsOK(tokens) /\ IsTrivia(LastEnd(tokens), here.off) /\ tokens \in Seq(TokenSet)
    BY <1>1, <1>3, TriviaFacts DEF TriviaOK
  <2>2. GapsOK(tokens')
    BY <1>1, <1>2, <2>1, GapsAppend
  <2> QED
    BY <1>1, <2>2 DEF TriviaOK, Inner
<1> QED
  BY <1>1, <1>3, TriviaFacts DEF TriviaNext

LEMMA TriviaSkip == ASSUME LexInv, TriviaInv, SkipTrivia PROVE TriviaNext
<1>1. Scanning /\ mode = "trivia"
  BY DEF SkipTrivia, Scanning
<1>2. /\ IsText /\ Len(src) \in Nat /\ here.off \in 1 .. Len(src) /\ Placed(here) /\ Here = Char(here.off)
      /\ here.off \in Nat
  BY <1>1, ScanFacts, LexFacts
<1>3. lexErrors' = lexErrors /\ tokens' = tokens
  BY DEF SkipTrivia, Stay, Enter
<1>4. lexErrors = <<>> => GapsOK(tokens) /\ IsTrivia(LastEnd(tokens), here.off) /\ LastEnd(tokens) \in Nat
  BY <1>1, TriviaFacts DEF TriviaOK
<1>5. CASE Here \in Blank /\ Stay(Consume(here), count)
  <2>1. mode' = "trivia" /\ here' = Consume(here) /\ Consume(here).off = Behind(here.off)
    BY <1>1, <1>2, <1>5, Onward DEF Stay
  <2>2. lexErrors = <<>> => IsTrivia(LastEnd(tokens), Behind(here.off))
    BY <1>2, <1>4, <1>5, BlankIsTrivia
  <2>3. lexErrors = <<>> => TriviaOK(here', mode', from', count', tokens')
    BY <1>3, <1>4, <2>1, <2>2 DEF TriviaOK, Inner
  <2> QED
    BY <1>3, <2>3, TriviaFacts DEF TriviaNext
<1>6. CASE LineComment /\ Enter("line", here, 0)
  <2>1. mode' = "line" /\ here' = here /\ from' = here
    BY <1>6 DEF Enter
  <2>2. \A k \in here.off .. here.off - 1 : ~LineEnd(k)
    <3>1. \A k \in here.off .. here.off - 1 : FALSE
      BY <1>2
    <3> QED
      BY <3>1
  <2>3. lexErrors = <<>> => TriviaOK(here', mode', from', count', tokens')
    BY <1>3, <1>4, <1>6, <2>1, <2>2 DEF TriviaOK, LineComment
  <2> QED
    BY <1>3, <2>3, TriviaFacts DEF TriviaNext
<1>7. CASE BlockComment /\ Enter("block", Consume(Consume(here)), 1)
  <2>1. mode' = "block" /\ here' = Consume(Consume(here)) /\ from' = here /\ count' = 1
    BY <1>7 DEF Enter
  <2>2. Char(here.off) = "/" /\ Char(here.off + 1) = "*" /\ here.off < Len(src)
    <3>1. here.off \in 1 .. Len(src) + 1 /\ "*" # "end"
      BY <1>2
    <3> QED
      BY <1>2, <1>7, <3>1, OpenerIs DEF BlockComment
  <2>3. Consume(Consume(here)).off = here.off + 2
    <3>1. Char(here.off) # "cr" /\ Char(here.off + 1) # "cr"
      BY <2>2
    <3>2. /\ Consume(Consume(here)).off = Behind(here.off + 1)
          /\ (Char(here.off + 1) # "cr" => Behind(here.off + 1) = here.off + 2)
      BY <1>2, <2>2, <3>1, OnwardTwice
    <3> QED
      BY <3>1, <3>2
  <2>4. BlockOK(here.off, here.off + 2, 1)
    BY <1>2, <1>7, BlockBegins DEF BlockComment
  <2>5. lexErrors = <<>> => TriviaOK(here', mode', from', count', tokens')
    BY <1>3, <1>4, <2>1, <2>3, <2>4 DEF TriviaOK
  <2> QED
    BY <1>3, <2>5, TriviaFacts DEF TriviaNext
<1> QED
  BY <1>5, <1>6, <1>7 DEF SkipTrivia

\* Back from a comment, which is one more piece of trivia.
LEMMA TriviaBack ==
  ASSUME LexInv, TriviaInv, mode \in Inner, Back, lexErrors = <<>> => <<from.off, here.off>> \in Trivia
  PROVE  TriviaNext
<1>1. mode' = "trivia" /\ here' = here /\ lexErrors' = lexErrors /\ tokens' = tokens
  BY DEF Back
<1>2. IsText /\ here.off \in Nat /\ from.off \in Nat
  BY LexFacts
<1>3. ASSUME lexErrors = <<>> PROVE TriviaOK(here', mode', from', count', tokens')
  <2>1. GapsOK(tokens) /\ IsTrivia(LastEnd(tokens), from.off) /\ LastEnd(tokens) \in Nat
    BY <1>3, TriviaFacts DEF TriviaOK
  <2> DEFINE p == <<from.off, here.off>>
  <2>2. p \in Trivia /\ p[1] = from.off /\ p[2] = here.off
    BY <1>3
  <2> HIDE DEF p
  <2>3. from.off < here.off
    BY <1>2, <2>2, TriviaPieces
  <2>4. IsTrivia(LastEnd(tokens), here.off)
    BY <1>2, <1>3, <2>1, <2>3, TriviaGoesOn
  <2> QED
    BY <1>1, <2>1, <2>4 DEF TriviaOK, Inner
<1> QED
  BY <1>1, <1>3, TriviaFacts DEF TriviaNext

LEMMA TriviaLine == ASSUME LineCommentsEndInLF, LexInv, TriviaInv, SkipLineComment PROVE TriviaNext
<1>1. mode = "line" /\ mode \in Inner
  BY DEF SkipLineComment, Inner
<1>2. /\ IsText /\ Len(src) \in Nat /\ Placed(here) /\ here.off \in 1 .. Len(src) + 1 /\ here.off \in Nat
      /\ from.off \in 1 .. Len(src) /\ from.off <= here.off /\ Here = Char(here.off)
      /\ (Ended => Char(here.off) = "end") /\ (~Ended => here.off \in 1 .. Len(src))
  BY <1>1, InnerFacts
<1> DEFINE f == from.off
           h == here.off
<1>3. lexErrors = <<>> =>
        Starts(f, <<"/", "/">>) /\ (\A k \in f .. h - 1 : ~LineEnd(k)) /\ GapsOK(tokens) /\ IsTrivia(LastEnd(tokens), f)
  BY <1>1, TriviaFacts DEF TriviaOK
<1>4. CASE Ended \/ Here = "lf"
  <2>1. Back
    BY <1>4 DEF SkipLineComment
  <2>2. Char(h) \in {"lf", "end"} /\ h \in f .. Len(src) + 1
    BY <1>2, <1>4
  <2>3. lexErrors = <<>> => <<f, h>> \in Trivia
    BY <1>2, <1>3, <2>2, LineIsTrivia
  <2> QED
    BY <1>1, <2>1, <2>3, TriviaBack
<1>5. CASE ~(Ended \/ Here = "lf")
  <2>1. Stay(Consume(here), count)
    BY <1>5 DEF SkipLineComment
  <2>2. here' = Consume(here) /\ mode' = "line" /\ from' = from /\ tokens' = tokens /\ lexErrors' = lexErrors
    BY <1>1, <2>1 DEF Stay
  <2>3. Consume(here).off = Behind(h)
    BY <1>2, <1>5, Onward
  <2>4. h \in f .. Len(src) /\ Char(h) # "lf"
    BY <1>2, <1>5
  <2>5. lexErrors = <<>> => ~LineEnd(h) /\ Behind(h) = h + 1
    BY <1>2, <1>3, <2>4, LineGoesOn
  <2>6. ASSUME lexErrors = <<>> PROVE TriviaOK(here', mode', from', count', tokens')
    <3>1. here'.off = h + 1
      BY <2>2, <2>3, <2>5, <2>6
    <3>2. \A k \in f .. here'.off - 1 : ~LineEnd(k)
      <4> TAKE k \in f .. here'.off - 1
      <4>1. k = h \/ k \in f .. h - 1
        BY <1>2, <3>1
      <4> QED
        BY <1>3, <2>5, <2>6, <4>1
    <3> QED
      BY <1>3, <2>2, <2>6, <3>2 DEF TriviaOK
  <2> QED
    BY <2>2, <2>6, TriviaFacts DEF TriviaNext
<1> QED
  BY <1>4, <1>5

LEMMA TriviaBlock == ASSUME LexInv, TriviaInv, SkipBlockComment PROVE TriviaNext
<1>1. mode = "block" /\ mode \in Inner
  BY DEF SkipBlockComment, Inner
<1>2. /\ IsText /\ Len(src) \in Nat /\ Placed(here) /\ here.off \in 1 .. Len(src) + 1 /\ here.off \in Nat
      /\ count \in Nat /\ (~Ended => here.off \in 1 .. Len(src))
  BY <1>1, InnerFacts
<1> DEFINE f == from.off
           h == here.off
<1>3. lexErrors = <<>> => BlockOK(f, h, count) /\ GapsOK(tokens) /\ IsTrivia(LastEnd(tokens), f)
  BY <1>1, TriviaFacts DEF TriviaOK
<1>4. CASE count = 0
  <2>1. Back
    BY <1>4, BlockCases
  <2>2. lexErrors = <<>> => <<f, h>> \in Trivia
    BY <1>2, <1>3, <1>4, TriviaPieces DEF BlockOK
  <2> QED
    BY <1>1, <2>1, <2>2, TriviaBack
<1>5. CASE count > 0 /\ Ended
  BY <1>5, BlockCases, TriviaStop
<1>6. ASSUME NEW q, NEW n, Stay(q, n), lexErrors = <<>> => BlockOK(f, q.off, n) PROVE TriviaNext
  <2>1. here' = q /\ count' = n /\ mode' = "block" /\ from' = from /\ tokens' = tokens /\ lexErrors' = lexErrors
    BY <1>1, <1>6 DEF Stay
  <2>2. lexErrors = <<>> => TriviaOK(here', mode', from', count', tokens')
    BY <1>3, <1>6, <2>1 DEF TriviaOK
  <2> QED
    BY <2>1, <2>2, TriviaFacts DEF TriviaNext
<1>7. CASE count > 0 /\ ~Ended
  <2>1. \/ BlockComment /\ Stay(Consume(Consume(here)), count + 1)
        \/ ~BlockComment /\ Starts(h, <<"*", "/">>) /\ Stay(Consume(Consume(here)), count - 1)
        \/ ~BlockComment /\ ~Starts(h, <<"*", "/">>) /\ Stay(Consume(here), count)
    BY <1>7, BlockCases
  <2>2. h \in 1 .. Len(src) /\ BlockComment = Starts(h, <<"/", "*">>)
    BY <1>2, <1>7 DEF BlockComment
  <2>3. ASSUME Starts(h, <<"/", "*">>) \/ Starts(h, <<"*", "/">>) PROVE Consume(Consume(here)).off = h + 2
    <3>1. Char(h) # "cr" /\ Char(h + 1) # "cr" /\ h < Len(src)
      BY <1>2, <2>3, OpenerIs
    <3>2. /\ Consume(Consume(here)).off = Behind(h + 1)
          /\ (Char(h + 1) # "cr" => Behind(h + 1) = h + 2)
      BY <1>2, <3>1, OnwardTwice
    <3> QED
      BY <3>1, <3>2
  <2>4. CASE BlockComment /\ Stay(Consume(Consume(here)), count + 1)
    <3>1. lexErrors = <<>> => BlockOK(f, h + 2, count + 1)
      BY <1>2, <1>3, <1>7, <2>2, <2>4, BlockOpens
    <3> QED
      BY <1>6, <2>2, <2>3, <2>4, <3>1
  <2>5. CASE ~BlockComment /\ Starts(h, <<"*", "/">>) /\ Stay(Consume(Consume(here)), count - 1)
    <3>1. lexErrors = <<>> => BlockOK(f, h + 2, count - 1)
      BY <1>2, <1>3, <1>7, <2>2, <2>5, BlockCloses
    <3> QED
      BY <1>6, <2>3, <2>5, <3>1
  <2>6. CASE ~BlockComment /\ ~Starts(h, <<"*", "/">>) /\ Stay(Consume(here), count)
    <3>1. lexErrors = <<>> => BlockOK(f, Behind(h), count)
      BY <1>2, <1>3, <1>7, <2>2, <2>6, BlockPlain
    <3>2. Consume(here).off = Behind(h)
      BY <1>2, <2>2, Onward
    <3> QED
      BY <1>6, <2>6, <3>1, <3>2
  <2> QED
    BY <2>1, <2>4, <2>5, <2>6
<1> QED
  BY <1>2, <1>4, <1>5, <1>7
\* The steps outside comments.
LEMMA TriviaTokenStep ==
  ASSUME LexInv, TriviaInv, LexNext,
         \/ ScanIdentOrKeyword \/ ScanRawString \/ ScanString \/ ConsumeStringBody
         \/ ScanChar \/ ScanNumber \/ ScanPunct \/ InvalidRune
  PROVE  TriviaNext
<1>1. CASE ScanIdentOrKeyword
  <2>1. Scanning
    BY <1>1 DEF ScanIdentOrKeyword
  <2>2. \/ \E q, n : Enter("raw", q, n)
        \/ \E q : Enter("cstring", q, 0)
        \/ \E q : EmitFrom("ident", q)
    <3>1. CASE RawOpener
      BY <1>1, <3>1, RawCase
    <3>2. CASE ~RawOpener /\ Here = "c" /\ Next1 = "quote"
      BY <1>1, <3>2 DEF ScanIdentOrKeyword
    <3>3. CASE ~RawOpener /\ ~(Here = "c" /\ Next1 = "quote")
      BY <1>1, <3>3, Zenon DEF ScanIdentOrKeyword
    <3> QED
      BY <3>1, <3>2, <3>3
  <2> QED
    BY <2>1, <2>2, TriviaEnter, TriviaEmitFrom
<1>2. CASE ScanRawString
  <2>1. mode = "raw" /\ mode \in Inner /\ mode \in {"raw", "string", "cstring"}
    BY <1>2 DEF ScanRawString, Inner
  <2>2. Stop(from) \/ (\E q : Emit("raw", q)) \/ (\E q, n : Stay(q, n))
    BY <1>2, Zenon DEF ScanRawString
  <2> QED
    BY <2>1, <2>2, TriviaStop, TriviaEmit, TriviaStay
<1>3. CASE ScanString
  BY <1>3, TriviaEnter DEF ScanString
<1>4. CASE ConsumeStringBody
  <2>1. mode \in Inner /\ mode \in {"raw", "string", "cstring"}
    BY <1>4 DEF ConsumeStringBody, Inner
  <2>2. Stop(from) \/ (\E q : Emit(mode, q)) \/ (\E q, n : Stay(q, n))
    <3>1. CASE Ended
      BY <1>4, <3>1, InnerFacts, <2>1 DEF ConsumeStringBody
    <3>2. CASE ~Ended /\ Here = "quote"
      BY <1>4, <3>2 DEF ConsumeStringBody
    <3>3. CASE ~Ended /\ Here = "bs"
      BY <1>4, <3>3 DEF ConsumeStringBody
    <3>4. CASE ~Ended /\ Here # "quote" /\ Here # "bs"
      BY <1>4, <3>4 DEF ConsumeStringBody
    <3> QED
      BY <3>1, <3>2, <3>3, <3>4
  <2> QED
    BY <2>1, <2>2, TriviaStop, TriviaEmit, TriviaStay
<1>5. CASE ScanChar
  <2>1. Scanning /\ ((\E q : EmitFrom("char", q)) \/ lexErrors' = Append(lexErrors, here))
    BY <1>5, Zenon DEF ScanChar
  <2> QED
    BY <2>1, TriviaEmitFrom, TriviaError, TriviaFacts
<1>6. CASE ScanNumber
  <2>1. Scanning /\ \E kind, q : EmitFrom(kind, q)
    BY <1>6, Zenon DEF ScanNumber
  <2> QED
    BY <2>1, TriviaEmitFrom
<1>7. CASE ScanPunct
  <2>1. Scanning /\ \E q : EmitFrom("punct", q)
    BY <1>7 DEF ScanPunct
  <2> QED
    BY <2>1, TriviaEmitFrom
<1>8. CASE InvalidRune
  <2>1. lexErrors' = Append(lexErrors, here)
    BY <1>8 DEF InvalidRune
  <2> QED
    BY <2>1, TriviaError, TriviaFacts
<1> QED
  BY <1>1, <1>2, <1>3, <1>4, <1>5, <1>6, <1>7, <1>8

LEMMA TriviaStepOK == ASSUME LineCommentsEndInLF, LexInv, TriviaInv, ScanStep PROVE TriviaNext
<1>1. LexNext
  BY ScanStepOK
<1> QED
  BY <1>1, TriviaCheckBOM, TriviaEmitEOF, TriviaSkip, TriviaLine, TriviaBlock, TriviaTokenStep DEF ScanStep

LEMMA SameTrivia ==
  ASSUME src' = src, NEW h, NEW m, NEW f, NEW c, NEW ts
  PROVE  TriviaOK(h, m, f, c, ts)' = TriviaOK(h, m, f, c, ts)
<1>1. ASSUME NEW i, NEW s PROVE Starts(i, s)' = Starts(i, s)
  BY SameStarts
<1>2. ASSUME NEW i PROVE LineEnd(i)' = LineEnd(i)
  BY DEF LineEnd, Starts, Char
<1>3. Stretches' = Stretches
  BY DEF Stretches
<1>4. CommentText' = CommentText
  BY DEF CommentText, Stretches, Starts, Char
<1>5. Comments' = Comments
  BY DEF Comments, CommentText, Stretches, Starts, Char
<1>6. Trivia' = Trivia
  BY <1>5 DEF Trivia, IsLineComment, LineEnd, Stretches, Starts, Char
<1>7. Inside' = Inside /\ Sound' = Sound
  BY <1>3, <1>4, <1>5 DEF Inside, Sound
<1>8. ASSUME NEW i, NEW j PROVE IsTrivia(i, j)' = IsTrivia(i, j)
  BY <1>6 DEF IsTrivia
<1>9. GapsOK(ts)' = GapsOK(ts)
  BY <1>8 DEF GapsOK
<1>10. BlockOK(f.off, h.off, c)' = BlockOK(f.off, h.off, c)
  <2>1. ASSUME NEW opens PROVE Open(f.off, h.off, c, opens)' = Open(f.off, h.off, c, opens)
    BY <1>1, <1>7 DEF Open
  <2> QED
    BY <1>7, <2>1 DEF BlockOK
<1> QED
  BY <1>1, <1>2, <1>8, <1>9, <1>10 DEF TriviaOK

LEMMA TriviaInit == ScanInit => TriviaInv
<1> HAVE ScanInit
<1>1. here = TextStart /\ from = TextStart /\ mode = "start" /\ tokens = <<>> /\ lexErrors = <<>> /\ TextStart.off = 1
  BY DEF ScanInit, TextStart
<1>2. lexErrors \in Seq(Position)
  BY <1>1
<1>3. GapsOK(<<>>) /\ LastEnd(<<>>) = 1
  BY DEF GapsOK, LastEnd
<1>4. IsTrivia(1, 1)
  BY MadeOfNothing DEF IsTrivia
<1>5. TriviaOK(here, mode, from, count, tokens)
  BY <1>1, <1>3, <1>4 DEF TriviaOK, Inner
<1> QED
  BY <1>2, <1>5 DEF TriviaInv

LEMMA TriviaStep ==
  ASSUME LineCommentsEndInLF
  PROVE  LexInv /\ TriviaInv /\ [ScanStep]_scanVars => TriviaInv'
<1> SUFFICES ASSUME LexInv, TriviaInv, [ScanStep]_scanVars PROVE TriviaInv'
  OBVIOUS
<1>1. TriviaNext /\ src' = src
  <2>1. CASE ScanStep
    BY <2>1, TriviaStepOK, SameSource
  <2>2. CASE UNCHANGED scanVars
    BY <2>2 DEF TriviaNext, TriviaInv, scanVars
  <2> QED
    BY <2>1, <2>2
<1>2. TriviaOK(here, mode, from, count, tokens)' = TriviaOK(here', mode', from', count', tokens')
  BY <1>1, SameTrivia
<1> QED
  BY <1>1, <1>2 DEF TriviaNext, TriviaInv

\* Of a text scanned to its end, all that TokensTileTheText promises.
LEMMA TheTextIsTiled == LexInv /\ TriviaInv => TokensTileTheText
<1> SUFFICES ASSUME LexInv, TriviaInv, mode = "done" PROVE TokensTileTheText
  BY DEF TokensTileTheText
<1>1. DoneOK(tokens)
  BY DEF LexInv, LexOK
<1>2. OnlyTriviaIsDropped
  <2> SUFFICES ASSUME lexErrors = <<>>, NEW n \in DOMAIN tokens PROVE IsTrivia(GapBefore(n)[1], GapBefore(n)[2])
    BY DEF OnlyTriviaIsDropped
  <2>1. n \in 1 .. Len(tokens)
    BY <1>1 DEF DoneOK
  <2>2. IsTrivia(IF n = 1 THEN 1 ELSE tokens[n - 1].to.off, tokens[n].from.off)
    BY <2>1 DEF TriviaInv, TriviaOK, GapsOK
  <2> QED
    BY <2>2 DEF GapBefore
<1>3. TokensAreLexemes
  BY LexInvTokens
<1> QED
  BY <1>2, <1>3 DEF TokensTileTheText, TokensAreLexemes

\* TokensTileTheText: of every text in whose line comments no CR LF is met, the
\* scanner's tokens tile it.  SkipTrivia leaves out only blanks and whole
\* comments, however deep they nest, and where it is in a comment the part read
\* so far is one that can still end.  The hypothesis is what the loop of
\* skipTrivia needs, which runs over the CR of a CR LF.
THEOREM ScannerTokensTileTheText ==
  ASSUME LineCommentsEndInLF
  PROVE  ScanSpec => []TokensTileTheText
<1>1. ScanInit => LexInv /\ TriviaInv
  BY LexInit, TriviaInit
<1>2. LexInv /\ TriviaInv /\ [ScanStep]_scanVars => LexInv' /\ TriviaInv'
  BY LexStep, TriviaStep
<1>3. LexInv /\ TriviaInv => TokensTileTheText
  BY TheTextIsTiled
<1> QED
  BY <1>1, <1>2, <1>3, PTL DEF ScanSpec
================================================================================
