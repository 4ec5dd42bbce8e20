------------------------------- MODULE LspProofs -------------------------------
(***************************************************************************)
(* The language server: positions and edits, for texts of any length, and  *)
(* the documents, markers and answers of a session of any length.          *)
(***************************************************************************)
EXTENDS LspServer, LspTextCheck, Induction, SequenceTheorems

(* Least and greatest elements *)

LEMMA MinIs ==
  ASSUME NEW S \in SUBSET Int, NEW x \in S, \A y \in S : x <= y
  PROVE  Sets!Min(S) = x
<1> DEFINE m == CHOOSE z \in S : \A y \in S : z <= y
<1>1. m \in S /\ \A y \in S : m <= y
  OBVIOUS
<1> HIDE DEF m
<1>2. m = x
  BY <1>1
<1> QED
  BY <1>2 DEF Sets!Min, m

LEMMA MaxIs ==
  ASSUME NEW S \in SUBSET Int, NEW x \in S, \A y \in S : x >= y
  PROVE  Sets!Max(S) = x
<1> DEFINE m == CHOOSE z \in S : \A y \in S : z >= y
<1>1. m \in S /\ \A y \in S : m >= y
  OBVIOUS
<1> HIDE DEF m
<1>2. m = x
  BY <1>1
<1> QED
  BY <1>2 DEF Sets!Max, m

LEMMA MinExists ==
  ASSUME NEW n \in Nat, NEW S \in SUBSET (0 .. n), S # {}
  PROVE  Sets!Min(S) \in S /\ \A y \in S : Sets!Min(S) <= y
<1> DEFINE T == {i \in 0 .. n : \A y \in 0 .. i : y \notin S}
<1> SUFFICES \E x \in S : \A y \in S : x <= y
  BY MinIs
<1> SUFFICES ASSUME \A x \in S : \E y \in S : y < x PROVE FALSE
  OBVIOUS
<1>1. 0 \in T
  OBVIOUS
<1>2. \A i \in 1 .. n : i - 1 \in T => i \in T
  OBVIOUS
<1>3. 0 .. n \subseteq T
  <2> HIDE DEF T
  <2> QED
    BY <1>1, <1>2, PrefixInduction
<1>4. PICK x \in S : x \in 0 .. n
  OBVIOUS
<1>5. x \in T
  BY <1>3
<1> QED
  BY <1>4, <1>5

-----------------------------------------------------------------------------
(* Widths *)

Text == Seq(Chars)

LEMMA TakeParts ==
  ASSUME NEW t \in Text, NEW i \in 0 .. Len(t)
  PROVE  Take(t, i) \in Text /\ Len(Take(t, i)) = i /\ \A k \in 1 .. i : Take(t, i)[k] = t[k]
BY SubSeqProperties DEF Text, Take

LEMMA SliceParts ==
  ASSUME NEW t \in Text, NEW i \in 0 .. Len(t), NEW j \in i .. Len(t)
  PROVE  /\ Slice(t, i, j) \in Text /\ Len(Slice(t, i, j)) = j - i
         /\ \A k \in 1 .. j - i : Slice(t, i, j)[k] = t[i + k]
BY SubSeqProperties DEF Text, Slice

\* The accumulators of the loop that Width is.
IsSum(f, w, t) == f[0] = 0 /\ \A i \in 1 .. Len(t) : f[i] = f[i - 1] + w[t[i]]

LEMMA WidthLoop ==
  ASSUME NEW w \in [Chars -> Nat], NEW t \in Text
  PROVE  \E f \in [0 .. Len(t) -> Nat] : IsSum(f, w, t) /\ Width(w, t) = f[Len(t)]
<1> USE DEF Text
<1> DEFINE n == Len(t)
           step == [i \in 1 .. n |-> [s \in Nat |-> s + w[t[i]]]]
           sum == CHOOSE f : f = [i \in 0 .. n |-> IF i = 0 THEN 0 ELSE f[i - 1] + w[t[i]]]
<1>1. n \in Nat /\ step \in [1 .. n -> [Nat -> Nat]]
  OBVIOUS
<1>2. PICK g \in [0 .. n -> Nat] : IsLoop(g, n, 0, step)
  <2> HIDE DEF step
  <2> QED
    BY <1>1, LoopExists
<1>3. g[0] = 0 /\ \A i \in 1 .. n : g[i] = g[i - 1] + w[t[i]]
  <2>1. \A i \in 1 .. n : i - 1 \in 0 .. n
    BY <1>1
  <2>2. \A i \in 1 .. n : g[i - 1] \in Nat
    <3> HIDE DEF n
    <3> QED
      BY <1>2, <2>1
  <2> QED
    BY <1>2, <2>2 DEF IsLoop
<1>4. g = [i \in 0 .. n |-> IF i = 0 THEN 0 ELSE g[i - 1] + w[t[i]]]
  <2>1. \A i \in 0 .. n : g[i] = IF i = 0 THEN 0 ELSE g[i - 1] + w[t[i]]
    BY <1>1, <1>3
  <2> QED
    BY <2>1
<1>5. sum = [i \in 0 .. n |-> IF i = 0 THEN 0 ELSE sum[i - 1] + w[t[i]]]
  BY <1>4
<1>6. Width(w, t) = sum[n]
  BY DEF Width
<1>7. sum[0] = 0 /\ \A i \in 1 .. n : sum[i] = sum[i - 1] + w[t[i]]
  <2>1. 0 \in 0 .. n /\ \A i \in 1 .. n : i \in 0 .. n /\ i # 0
    BY <1>1
  <2> HIDE DEF sum, n, step
  <2>2. \A i \in 0 .. n : sum[i] = IF i = 0 THEN 0 ELSE sum[i - 1] + w[t[i]]
    BY <1>5
  <2> QED
    BY <2>1, <2>2
<1> HIDE DEF sum
<1> DEFINE S == {i \in 0 .. n : sum[i] = g[i]}
<1>8. 0 .. n \subseteq S
  <2>1. 0 \in S
    BY <1>3, <1>7
  <2>2. \A i \in 1 .. n : i - 1 \in S => i \in S
    BY <1>3, <1>7
  <2> HIDE DEF S
  <2> QED
    BY <1>1, <2>1, <2>2, PrefixInduction
<1>9. Width(w, t) = g[n] /\ IsSum(g, w, t)
  BY <1>1, <1>3, <1>6, <1>8 DEF IsSum
<1> QED
  BY <1>9

LEMMA WidthSteps ==
  ASSUME NEW w \in [Chars -> Nat], NEW t \in Text
  PROVE  /\ \A i \in 0 .. Len(t) : Width(w, Take(t, i)) \in Nat
         /\ Width(w, Take(t, 0)) = 0
         /\ \A i \in 1 .. Len(t) : Width(w, Take(t, i)) = Width(w, Take(t, i - 1)) + w[t[i]]
<1>1. PICK f \in [0 .. Len(t) -> Nat] : IsSum(f, w, t)
  BY WidthLoop
<1>0. Len(t) \in Nat
  BY DEF Text
<1>2. ASSUME NEW m \in 0 .. Len(t) PROVE Width(w, Take(t, m)) = f[m]
  <2>0. m \in Nat
    BY <1>0
  <2>1. PICK u \in Text : u = Take(t, m) /\ Len(u) = m /\ \A k \in 1 .. m : u[k] = t[k]
    BY <1>2, TakeParts
  <2>2. PICK g \in [0 .. m -> Nat] : IsSum(g, w, u) /\ Width(w, u) = g[m]
    BY <2>1, WidthLoop
  <2> DEFINE S == {i \in 0 .. m : f[i] = g[i]}
  <2>3. 0 \in S
    BY <1>1, <2>2 DEF IsSum
  <2>4. \A i \in 1 .. m : i - 1 \in S => i \in S
    <3> SUFFICES ASSUME NEW i \in 1 .. m, f[i - 1] = g[i - 1] PROVE f[i] = g[i]
      OBVIOUS
    <3>1. i \in 1 .. Len(t) /\ u[i] = t[i]
      BY <1>0, <2>1
    <3>2. f[i] = f[i - 1] + w[t[i]] /\ g[i] = g[i - 1] + w[u[i]]
      BY <1>1, <2>1, <2>2, <3>1 DEF IsSum
    <3> QED
      BY <3>1, <3>2
  <2>5. 0 .. m \subseteq S
    <3> HIDE DEF S
    <3> QED
      BY <2>0, <2>3, <2>4, PrefixInduction
  <2> QED
    BY <2>1, <2>2, <2>5
<1>3. ASSUME NEW i \in 1 .. Len(t)
      PROVE  Width(w, Take(t, i)) = Width(w, Take(t, i - 1)) + w[t[i]]
  <2>1. i \in 0 .. Len(t) /\ i - 1 \in 0 .. Len(t)
    BY <1>0
  <2>2. f[i] = f[i - 1] + w[t[i]]
    BY <1>1 DEF IsSum
  <2> QED
    BY <1>2, <2>1, <2>2
<1>4. Width(w, Take(t, 0)) = 0
  BY <1>1, <1>2, <1>0 DEF IsSum
<1> QED
  BY <1>2, <1>3, <1>4

LEMMA WidthGrows ==
  ASSUME NEW w \in [Chars -> Nat], NEW t \in Text, NEW i \in 0 .. Len(t), NEW j \in i .. Len(t)
  PROVE  Width(w, Take(t, i)) <= Width(w, Take(t, j))
<1> DEFINE W(k) == Width(w, Take(t, k))
           S == {k \in 0 .. Len(t) : i <= k => W(i) <= W(k)}
<1>0. Len(t) \in Nat /\ \A k \in 1 .. Len(t) : w[t[k]] \in Nat
  BY DEF Text
<1>1. /\ \A k \in 0 .. Len(t) : W(k) \in Nat
      /\ \A k \in 1 .. Len(t) : W(k) = W(k - 1) + w[t[k]]
  BY WidthSteps
<1> HIDE DEF W
<1>2. 0 \in S
  BY <1>0, <1>1
<1>3. ASSUME NEW k \in 1 .. Len(t), k - 1 \in S PROVE k \in S
  <2>1. W(k) = W(k - 1) + w[t[k]] /\ W(k - 1) \in Nat /\ W(k) \in Nat /\ w[t[k]] \in Nat
    BY <1>0, <1>1
  <2> QED
    BY <1>0, <1>1, <1>3, <2>1
<1>4. 0 .. Len(t) \subseteq S
  <2> HIDE DEF S
  <2> QED
    BY <1>0, <1>2, <1>3, PrefixInduction
<1> QED
  BY <1>0, <1>4 DEF W

\* Width of a part, and what a character in between contributes.
LEMMA WidthBetween ==
  ASSUME NEW w \in [Chars -> Nat], NEW t \in Text, NEW i \in 0 .. Len(t), NEW j \in i .. Len(t)
  PROVE  /\ Width(w, Slice(t, i, j)) = Width(w, Take(t, j)) - Width(w, Take(t, i))
         /\ \A k \in i + 1 .. j : Width(w, Take(t, i)) + w[t[k]] <= Width(w, Take(t, j))
<1> DEFINE W(k) == Width(w, Take(t, k))
<1>0. Len(t) \in Nat /\ \A k \in 1 .. Len(t) : w[t[k]] \in Nat
  BY DEF Text
<1>1. /\ \A k \in 0 .. Len(t) : W(k) \in Nat
      /\ \A k \in 1 .. Len(t) : W(k) = W(k - 1) + w[t[k]]
  BY WidthSteps
<1>2. ASSUME NEW k \in i + 1 .. j PROVE W(i) + w[t[k]] <= W(j)
  <2>1. k \in 1 .. Len(t) /\ k - 1 \in i .. Len(t) /\ j \in k .. Len(t) /\ k \in 0 .. Len(t)
        /\ k - 1 \in 0 .. Len(t)
    BY <1>0
  <2>2. W(i) <= W(k - 1) /\ W(k) <= W(j)
    BY <2>1, WidthGrows
  <2>3. W(k) = W(k - 1) + w[t[k]] /\ w[t[k]] \in Nat
    BY <1>0, <1>1, <2>1
  <2>4. W(i) \in Nat /\ W(k) \in Nat /\ W(k - 1) \in Nat /\ W(j) \in Nat
    BY <1>0, <1>1, <2>1
  <2> HIDE DEF W
  <2> QED
    BY <2>2, <2>3, <2>4
<1> DEFINE V(k) == Width(w, Slice(t, i, i + k))
           n == j - i
           S == {k \in 0 .. n : V(k) = W(i + k) - W(i)}
<1>3. V(0) = 0 /\ \A k \in 1 .. n : V(k) = V(k - 1) + w[t[i + k]]
  <2>1. PICK u \in Text : u = Slice(t, i, j) /\ Len(u) = n /\ \A k \in 1 .. n : u[k] = t[i + k]
    BY SliceParts
  <2>2. \A k \in 0 .. n : Take(u, k) = Slice(t, i, i + k)
    <3> SUFFICES ASSUME NEW k \in 0 .. n PROVE Take(u, k) = Slice(t, i, i + k)
      OBVIOUS
    <3>0. k \in 0 .. Len(u) /\ i + k \in i .. Len(t) /\ (i + k) - i = k
      BY <1>0, <2>1
    <3>1. Take(u, k) \in Text /\ Len(Take(u, k)) = k /\ \A m \in 1 .. k : Take(u, k)[m] = u[m]
      BY <2>1, <3>0, TakeParts
    <3>2. /\ Slice(t, i, i + k) \in Text /\ Len(Slice(t, i, i + k)) = k
          /\ \A m \in 1 .. k : Slice(t, i, i + k)[m] = t[i + m]
      <4>1. PICK q \in i .. Len(t) : q = i + k
        BY <3>0
      <4> QED
        BY <3>0, <4>1, SliceParts
    <3>3. PICK x \in Text, y \in Text : x = Take(u, k) /\ y = Slice(t, i, i + k)
      BY <3>1, <3>2
    <3>4. Len(x) = Len(y) /\ \A m \in 1 .. Len(x) : x[m] = y[m]
      BY <1>0, <2>1, <3>0, <3>1, <3>2, <3>3
    <3> QED
      BY <3>3, <3>4, SeqEqual DEF Text
  <2>3. Width(w, Take(u, 0)) = 0 /\ \A k \in 1 .. n : Width(w, Take(u, k)) = Width(w, Take(u, k - 1)) + w[u[k]]
    BY <2>1, WidthSteps
  <2>4. 0 \in 0 .. n /\ \A k \in 1 .. n : k \in 0 .. n /\ k - 1 \in 0 .. n
    BY <1>0
  <2> HIDE DEF n
  <2> QED
    BY <2>1, <2>2, <2>3, <2>4
<1>4. n \in Nat /\ \A k \in 0 .. n : i + k \in 0 .. Len(t)
  BY <1>0
<1> HIDE DEF V, W, n
<1>5. 0 \in S
  BY <1>0, <1>1, <1>3, <1>4
<1>6. ASSUME NEW k \in 1 .. n, k - 1 \in S PROVE k \in S
  <2>1. i + k \in 1 .. Len(t) /\ i + (k - 1) = (i + k) - 1 /\ (i + k) - 1 \in 0 .. Len(t)
    BY <1>0, <1>4
  <2>2. W(i + k) = W((i + k) - 1) + w[t[i + k]] /\ w[t[i + k]] \in Nat
        /\ W((i + k) - 1) \in Nat /\ W(i) \in Nat
    BY <1>0, <1>1, <2>1
  <2>3. V(k) = V(k - 1) + w[t[i + k]] /\ V(k - 1) = W((i + k) - 1) - W(i)
    BY <1>3, <1>6, <2>1
  <2> QED
    BY <1>4, <2>2, <2>3
<1>7. 0 .. n \subseteq S
  <2> HIDE DEF S
  <2> QED
    BY <1>4, <1>5, <1>6, PrefixInduction
<1>8. V(n) = W(j) - W(i) /\ i + n = j
  BY <1>0, <1>4, <1>7 DEF n
<1> QED
  BY <1>2, <1>8 DEF V, W

-----------------------------------------------------------------------------
(* Offsets, columns and lines of character boundaries *)

Offset(t, i) == ByteLen(Take(t, i))
Column(t, i) == UnitLen(Take(t, i))
Line(t, i) == Newlines(Take(t, i))

LEMMA Weights ==
  /\ Bytes \in [Chars -> Nat] /\ Units \in [Chars -> Nat] /\ LineEnds \in [Chars -> Nat]
  /\ \A c \in Chars : Bytes[c] > 0 /\ Units[c] > 0 /\ LineEnds[c] = IF c = "nl" THEN 1 ELSE 0
BY DEF Bytes, Units, LineEnds

LEMMA Whole ==
  ASSUME NEW t \in Text
  PROVE  ByteLen(t) = Offset(t, Len(t)) /\ Newlines(t) = Line(t, Len(t))
<1>1. Take(t, Len(t)) = t
  BY SubSeqFull DEF Take, Text
<1> QED
  BY <1>1 DEF Offset, Line

LEMMA Boundary ==
  ASSUME NEW t \in Text
  PROVE  /\ \A i \in 0 .. Len(t) : Offset(t, i) \in Nat /\ Column(t, i) \in Nat /\ Line(t, i) \in Nat
         /\ Line(t, 0) = 0
         /\ \A i \in 1 .. Len(t) : Line(t, i) = Line(t, i - 1) + (IF t[i] = "nl" THEN 1 ELSE 0)
<1>1. \A i \in 1 .. Len(t) : t[i] \in Chars
  BY DEF Text
<1>2. \A i \in 1 .. Len(t) : Line(t, i) = Line(t, i - 1) + LineEnds[t[i]]
  BY Weights, WidthSteps DEF Line, Newlines
<1>3. \A i \in 0 .. Len(t) : Offset(t, i) \in Nat /\ Column(t, i) \in Nat /\ Line(t, i) \in Nat
  BY Weights, WidthSteps DEF Line, Newlines, Offset, Column, ByteLen, UnitLen
<1>4. Line(t, 0) = 0
  BY Weights, WidthSteps DEF Line, Newlines
<1> QED
  BY <1>1, <1>2, <1>3, <1>4, Weights

LEMMA Distance ==
  ASSUME NEW t \in Text, NEW i \in 0 .. Len(t), NEW j \in i .. Len(t)
  PROVE  /\ Offset(t, i) <= Offset(t, j) /\ Column(t, i) <= Column(t, j) /\ Line(t, i) <= Line(t, j)
         /\ i < j => Offset(t, i) < Offset(t, j) /\ Column(t, i) < Column(t, j)
         /\ Line(t, i) = Line(t, j) => \A k \in i + 1 .. j : t[k] # "nl"
         /\ Newlines(Slice(t, i, j)) = Line(t, j) - Line(t, i)
         /\ UnitsBetween(t, i, j) = Column(t, j) - Column(t, i)
<1>0. Len(t) \in Nat /\ \A k \in i + 1 .. j : t[k] \in Chars
  BY DEF Text
<1>1. Offset(t, i) <= Offset(t, j) /\ Column(t, i) <= Column(t, j) /\ Line(t, i) <= Line(t, j)
  BY Weights, WidthGrows DEF Offset, Column, Line, ByteLen, UnitLen, Newlines
<1>2. Newlines(Slice(t, i, j)) = Line(t, j) - Line(t, i)
  BY Weights, WidthBetween DEF Line, Newlines
<1>3. UnitsBetween(t, i, j) = Column(t, j) - Column(t, i)
  BY Weights, WidthBetween DEF Column, UnitLen, UnitsBetween
<1>4. ASSUME NEW k \in i + 1 .. j
      PROVE  /\ Offset(t, i) + Bytes[t[k]] <= Offset(t, j)
             /\ Column(t, i) + Units[t[k]] <= Column(t, j)
             /\ Line(t, i) + LineEnds[t[k]] <= Line(t, j)
  BY <1>4, Weights, WidthBetween DEF Offset, Column, Line, ByteLen, UnitLen, Newlines
<1>5. /\ Offset(t, i) \in Nat /\ Column(t, i) \in Nat /\ Line(t, i) \in Nat
      /\ Offset(t, j) \in Nat /\ Column(t, j) \in Nat /\ Line(t, j) \in Nat
  BY <1>0, Boundary
<1>6. \A k \in i + 1 .. j : Bytes[t[k]] \in Nat /\ Units[t[k]] \in Nat /\ Bytes[t[k]] > 0 /\ Units[t[k]] > 0
                            /\ LineEnds[t[k]] = IF t[k] = "nl" THEN 1 ELSE 0
  BY <1>0, Weights
<1>7. Line(t, i) = Line(t, j) => \A k \in i + 1 .. j : t[k] # "nl"
  BY <1>4, <1>5, <1>6
<1>8. i < j => Offset(t, i) < Offset(t, j) /\ Column(t, i) < Column(t, j)
  <2> SUFFICES ASSUME i < j PROVE Offset(t, i) < Offset(t, j) /\ Column(t, i) < Column(t, j)
    OBVIOUS
  <2>1. j \in i + 1 .. j
    BY <1>0
  <2> QED
    BY <1>4, <1>5, <1>6, <2>1
<1> QED
  BY <1>1, <1>2, <1>3, <1>7, <1>8

\* The start of a line is where the line begins for the client too.
LEMMA StartOfLine ==
  ASSUME NEW t \in Text, NEW i \in 0 .. Len(t)
  PROVE  /\ LineStart(t, Line(t, i)) \in 0 .. i
         /\ Line(t, LineStart(t, Line(t, i))) = Line(t, i)
         /\ LineStart(t, Line(t, i)) = Sets!Max({0} \cup {j \in 1 .. i : t[j] = "nl"})
<1> DEFINE S == {k \in 0 .. Len(t) : Line(t, k) = Line(t, i)}
<1>0. Len(t) \in Nat
  BY DEF Text
<1>1. S \in SUBSET (0 .. Len(t)) /\ S # {}
  OBVIOUS
<1>2. LineStart(t, Line(t, i)) = Sets!Min(S)
  BY DEF LineStart, Line
<1>3. PICK s : s = Sets!Min(S)
  OBVIOUS
<1>4. s \in S /\ \A y \in S : s <= y
  <2> HIDE DEF S
  <2> QED
    BY <1>0, <1>1, <1>3, MinExists
<1>5. s \in 0 .. i /\ Line(t, s) = Line(t, i)
  BY <1>0, <1>4
<1>6. s = 0 \/ t[s] = "nl"
  <2> SUFFICES ASSUME s # 0, t[s] # "nl" PROVE FALSE
    OBVIOUS
  <2>1. s \in 1 .. Len(t) /\ s - 1 \in 0 .. Len(t)
    BY <1>0, <1>5
  <2>2. Line(t, s) = Line(t, s - 1) /\ Line(t, s - 1) \in Nat
    BY <2>1, Boundary
  <2>3. s - 1 \in S
    BY <1>5, <2>1, <2>2
  <2> QED
    BY <1>4, <2>1, <2>3
<1>7. \A k \in s + 1 .. i : t[k] # "nl"
  <2>1. s \in 0 .. Len(t) /\ i \in s .. Len(t)
    BY <1>0, <1>5
  <2> QED
    BY <1>5, <2>1, Distance
<1> DEFINE E == {0} \cup {j \in 1 .. i : t[j] = "nl"}
<1>8. E \in SUBSET Int /\ s \in E /\ \A y \in E : s >= y
  BY <1>0, <1>5, <1>6, <1>7
<1>9. Sets!Max(E) = s
  <2> HIDE DEF E
  <2> QED
    BY <1>8, MaxIs
<1> QED
  BY <1>2, <1>3, <1>5, <1>9

-----------------------------------------------------------------------------
(* Positions *)

LEMMA ClientColumn ==
  ASSUME NEW t \in Text, NEW i \in 0 .. Len(t)
  PROVE  \E s \in 0 .. i :
           /\ s = LineStart(t, Line(t, i)) /\ Line(t, s) = Line(t, i)
           /\ EditorPos(t, i) = Pos(Line(t, i), Column(t, i) - Column(t, s))
<1>1. PICK s \in 0 .. i : s = LineStart(t, Line(t, i)) /\ Line(t, s) = Line(t, i)
                         /\ s = Sets!Max({0} \cup {j \in 1 .. i : t[j] = "nl"})
  BY StartOfLine
<1>2. EditorPos(t, i) = Pos(Line(t, i), UnitsBetween(t, s, i))
  BY <1>1 DEF EditorPos, Line, UnitsBetween, Slice
<1>3. Len(t) \in Nat
  BY DEF Text
<1>4. UnitsBetween(t, s, i) = Column(t, i) - Column(t, s)
  BY <1>3, Distance
<1> QED
  BY <1>1, <1>2, <1>4

\* positionToByteOffset finds the boundary that the client means.
LEMMA ClientOffset ==
  ASSUME NEW t \in Text, NEW i \in 0 .. Len(t)
  PROVE  positionToByteOffset(t, EditorPos(t, i)) = Offset(t, i)
<1>0. Len(t) \in Nat
  BY DEF Text
<1>1. PICK s \in 0 .. i : s = LineStart(t, Line(t, i)) /\ Line(t, s) = Line(t, i)
                         /\ EditorPos(t, i) = Pos(Line(t, i), Column(t, i) - Column(t, s))
  BY ClientColumn
<1> DEFINE here == {k \in s .. Len(t) :
                      /\ Newlines(Slice(t, s, k)) = 0
                      /\ UnitsBetween(t, s, k) = Column(t, i) - Column(t, s)}
<1>2. Newlines(t) \in Nat /\ Line(t, i) \in Nat /\ Line(t, i) <= Newlines(t)
  <2>1. Len(t) \in i .. Len(t) /\ Len(t) \in 0 .. Len(t)
    BY <1>0
  <2> QED
    BY <2>1, Whole, Boundary, Distance
<1>3. positionToByteOffset(t, EditorPos(t, i))
        = IF here = {} THEN -1 ELSE ByteLen(Take(t, Sets!Min(here)))
  <2>1. EditorPos(t, i).line = Line(t, i) /\ EditorPos(t, i).character = Column(t, i) - Column(t, s)
    BY <1>1 DEF Pos
  <2>2. ~(Newlines(t) < Line(t, i))
    BY <1>2
  <2>3. ~(Line(t, i) < 0 \/ Column(t, i) - Column(t, s) < 0)
    <3>1. Column(t, s) <= Column(t, i) /\ Column(t, s) \in Nat /\ Column(t, i) \in Nat
      <4>1. s \in 0 .. Len(t) /\ i \in s .. Len(t)
        BY <1>0
      <4> QED
        BY <4>1, Boundary, Distance
    <3> QED
      BY <1>2, <3>1
  <2> QED
    BY <1>1, <2>1, <2>2, <2>3 DEF positionToByteOffset
<1>4. i \in here
  <2>1. s \in 0 .. Len(t) /\ i \in s .. Len(t)
    BY <1>0
  <2>2. Newlines(Slice(t, s, i)) = Line(t, i) - Line(t, s)
        /\ UnitsBetween(t, s, i) = Column(t, i) - Column(t, s)
    BY <2>1, Distance
  <2> QED
    BY <1>1, <1>2, <2>1, <2>2
<1>5. \A k \in here : i <= k
  <2> SUFFICES ASSUME NEW k \in here, k < i PROVE FALSE
    BY <1>0
  <2>1. k \in 0 .. Len(t) /\ i \in k .. Len(t) /\ s \in 0 .. Len(t) /\ k \in s .. Len(t)
    BY <1>0
  <2>2. Column(t, k) < Column(t, i)
    BY <2>1, Distance
  <2>3. UnitsBetween(t, s, k) = Column(t, k) - Column(t, s)
    BY <2>1, Distance
  <2>4. Column(t, k) \in Nat /\ Column(t, i) \in Nat /\ Column(t, s) \in Nat
    BY <2>1, Boundary
  <2>5. Column(t, k) - Column(t, s) = Column(t, i) - Column(t, s)
    BY <2>3
  <2> QED
    BY <2>2, <2>4, <2>5
<1>6. Sets!Min(here) = i
  <2>1. here \in SUBSET Int
    BY <1>0
  <2> HIDE DEF here
  <2> QED
    BY <1>4, <1>5, <2>1, MinIs
<1> HIDE DEF here
<1> QED
  BY <1>3, <1>4, <1>6 DEF Offset

\* byteOffsetToPosition gives the client's position back.
LEMMA OffsetBack ==
  ASSUME NEW t \in Text, NEW i \in 0 .. Len(t)
  PROVE  byteOffsetToPosition(t, Offset(t, i)) = EditorPos(t, i)
<1>0. Len(t) \in Nat /\ Offset(t, i) \in Nat
  BY Boundary DEF Text
<1> DEFINE S == {Len(t)} \cup {j \in 0 .. Len(t) : ByteLen(Take(t, j)) >= Offset(t, i)}
<1>1. i \in S
  BY <1>0 DEF Offset
<1>2. \A j \in S : i <= j
  <2> SUFFICES ASSUME NEW j \in S, j < i PROVE FALSE
    BY <1>0
  <2>1. j \in 0 .. Len(t) /\ i \in j .. Len(t) /\ Offset(t, j) >= Offset(t, i)
    BY <1>0 DEF Offset
  <2>2. Offset(t, j) < Offset(t, i)
    BY <2>1, Distance
  <2>3. Offset(t, j) \in Nat
    BY <2>1, Boundary
  <2> QED
    BY <1>0, <2>1, <2>2, <2>3
<1>3. Sets!Min(S) = i
  <2>1. S \in SUBSET Int
    BY <1>0
  <2> HIDE DEF S
  <2> QED
    BY <1>1, <1>2, <2>1, MinIs
<1>4. PICK s \in 0 .. i : s = LineStart(t, Line(t, i)) /\ EditorPos(t, i) = Pos(Line(t, i), Column(t, i) - Column(t, s))
  BY ClientColumn
<1>5. UnitsBetween(t, s, i) = Column(t, i) - Column(t, s)
  <2>1. s \in 0 .. Len(t) /\ i \in s .. Len(t)
    BY <1>0
  <2> QED
    BY <2>1, Distance
<1>6. ~(Offset(t, i) < 0)
  BY <1>0
<1>7. byteOffsetToPosition(t, Offset(t, i)) = Pos(Line(t, i), UnitsBetween(t, s, i))
  BY <1>3, <1>4, <1>6 DEF byteOffsetToPosition, Line
<1> QED
  BY <1>4, <1>5, <1>7

\* A position that is not refused is one of the client's, but for the start of
\* the line after a final line end.
LEMMA NothingRounded ==
  ASSUME NEW t \in Text, NEW l \in Nat, NEW c \in Nat, positionToByteOffset(t, Pos(l, c)) >= 0
  PROVE  (\E i \in 0 .. Len(t) : EditorPos(t, i) = Pos(l, c)) \/ (l = Newlines(t) + 1 /\ c = 0)
<1>0. Len(t) \in Nat /\ Newlines(t) = Line(t, Len(t)) /\ Newlines(t) \in Nat
  BY Whole, Boundary DEF Text
<1>1. CASE Newlines(t) < l
  BY <1>1 DEF positionToByteOffset, Pos
<1>2. CASE l <= Newlines(t)
  <2> DEFINE L == {k \in 0 .. Len(t) : Line(t, k) = l}
             s == LineStart(t, l)
             here == {k \in s .. Len(t) :
                        /\ Newlines(Slice(t, s, k)) = 0
                        /\ UnitsBetween(t, s, k) = c}
  <2>1. L # {}
    <3> SUFFICES ASSUME L = {} PROVE FALSE
      OBVIOUS
    <3> DEFINE S == {k \in 0 .. Len(t) : Line(t, k) < l}
    <3>1. 0 \in S
      BY <1>0, Boundary
    <3>2. ASSUME NEW k \in 1 .. Len(t), k - 1 \in S PROVE k \in S
      <4>1. Line(t, k) = Line(t, k - 1) + (IF t[k] = "nl" THEN 1 ELSE 0) /\ Line(t, k - 1) \in Nat
        BY <1>0, <3>2, Boundary
      <4>2. Line(t, k - 1) < l /\ k \in 0 .. Len(t)
        BY <1>0, <3>2
      <4>3. Line(t, k) # l
        BY <4>2
      <4> QED
        BY <4>1, <4>2, <4>3
    <3>3. 0 .. Len(t) \subseteq S
      <4> HIDE DEF S
      <4> QED
        BY <1>0, <3>1, <3>2, PrefixInduction
    <3>4. Len(t) \in S
      BY <1>0, <3>3
    <3> QED
      BY <1>0, <1>2, <3>4
  <2>2. s = Sets!Min(L)
    BY DEF LineStart, Line
  <2>3. s \in L
    <3>1. L \in SUBSET (0 .. Len(t))
      OBVIOUS
    <3> HIDE DEF L, s
    <3> QED
      BY <1>0, <2>1, <2>2, <3>1, MinExists
  <2> HIDE DEF s
  <2>4. here # {}
    <3>1. ~(Newlines(t) < l)
      BY <1>0, <1>2
    <3>2. positionToByteOffset(t, Pos(l, c)) = IF here = {} THEN -1 ELSE ByteLen(Take(t, Sets!Min(here)))
      BY <3>1 DEF positionToByteOffset, Pos, s
    <3> HIDE DEF here
    <3> QED
      BY <3>2
  <2>5. PICK i \in here : TRUE
    BY <2>4
  <2>6. s \in 0 .. Len(t) /\ Line(t, s) = l /\ i \in s .. Len(t) /\ i \in 0 .. Len(t)
    BY <1>0, <2>3
  <2>7. Line(t, i) = l
    <3>1. Newlines(Slice(t, s, i)) = Line(t, i) - Line(t, s) /\ Newlines(Slice(t, s, i)) = 0
      BY <2>6, Distance
    <3>2. Line(t, i) \in Nat
      BY <2>6, Boundary
    <3> QED
      BY <2>6, <3>1, <3>2
  <2>8. UnitsBetween(t, s, i) = c /\ UnitsBetween(t, s, i) = Column(t, i) - Column(t, s)
    BY <2>6, Distance
  <2>9. EditorPos(t, i) = Pos(Line(t, i), Column(t, i) - Column(t, LineStart(t, Line(t, i))))
    BY <2>6, ClientColumn
  <2> QED
    BY <2>6, <2>7, <2>8, <2>9 DEF s
<1> QED
  BY <1>0, <1>1, <1>2

-----------------------------------------------------------------------------
(* Edits *)

LEMMA CharAtOffset ==
  ASSUME NEW t \in Text, NEW i \in 0 .. Len(t)
  PROVE  CharAt(t, Offset(t, i)) = i
<1> DEFINE P(k) == k \in 0 .. Len(t) /\ ByteLen(Take(t, k)) = Offset(t, i)
           k == CharAt(t, Offset(t, i))
<1>0. Len(t) \in Nat
  BY DEF Text
<1>1. P(i)
  BY DEF Offset
<1>2. P(k)
  BY <1>1 DEF CharAt
<1>3. \A x, y \in 0 .. Len(t) : x < y => Offset(t, x) # Offset(t, y)
  <2> SUFFICES ASSUME NEW x \in 0 .. Len(t), NEW y \in 0 .. Len(t), x < y
               PROVE  Offset(t, x) # Offset(t, y)
    OBVIOUS
  <2>1. y \in x .. Len(t)
    BY <1>0
  <2> QED
    BY <2>1, Distance, Boundary
<1> HIDE DEF k
<1>4. k = i
  BY <1>0, <1>2, <1>3 DEF Offset
<1> QED
  BY <1>4 DEF k

\* applyRangeEdit replaces the characters i + 1 .. j that the client selected.
LEMMA EditReplaces ==
  ASSUME NEW t \in Text, NEW i \in 0 .. Len(t), NEW j \in i .. Len(t), NEW new
  PROVE  applyRangeEdit(t, [start |-> EditorPos(t, i), end |-> EditorPos(t, j)], new)
           = Take(t, i) \o new \o Slice(t, j, Len(t))
<1>0. Len(t) \in Nat /\ j \in 0 .. Len(t)
  BY DEF Text
<1>1. /\ positionToByteOffset(t, EditorPos(t, i)) = Offset(t, i)
      /\ positionToByteOffset(t, EditorPos(t, j)) = Offset(t, j)
  BY <1>0, ClientOffset
<1>2. ~(Offset(t, i) < 0 \/ Offset(t, j) < 0 \/ Offset(t, i) > Offset(t, j))
  <2>1. Offset(t, i) \in Nat /\ Offset(t, j) \in Nat
    BY <1>0, Boundary
  <2>2. Offset(t, i) <= Offset(t, j)
    BY Distance
  <2> QED
    BY <2>1, <2>2
<1>3. Before(t, Offset(t, i)) = Take(t, i) /\ After(t, Offset(t, j)) = Slice(t, j, Len(t))
  BY <1>0, CharAtOffset DEF Before, After
<1> QED
  BY <1>1, <1>2, <1>3 DEF applyRangeEdit

-----------------------------------------------------------------------------
(* identifierAt *)

LEMMA MaxExists ==
  ASSUME NEW n \in Nat, NEW S \in SUBSET (0 .. n), S # {}
  PROVE  Sets!Max(S) \in S /\ \A y \in S : Sets!Max(S) >= y
<1> DEFINE M == {n - x : x \in S}
<1>1. M \in SUBSET (0 .. n) /\ M # {}
  OBVIOUS
<1>2. Sets!Min(M) \in M /\ \A y \in M : Sets!Min(M) <= y
  <2> HIDE DEF M
  <2> QED
    BY <1>1, MinExists
<1>3. PICK x \in S : Sets!Min(M) = n - x
  BY <1>2
<1>4. \A y \in S : n - x <= n - y
  BY <1>2, <1>3
<1>5. \A y \in S : x >= y
  BY <1>4
<1>6. S \in SUBSET Int
  OBVIOUS
<1>7. Sets!Max(S) = x
  BY <1>5, <1>6, MaxIs
<1> QED
  BY <1>5, <1>7

\* The run of identifier characters around a boundary.
LEMMA IdentRun ==
  ASSUME NEW t \in Text, NEW i \in 0 .. Len(t)
  PROVE  /\ IdentStart(t, i) \in 0 .. i /\ IdentEnd(t, i) \in i .. Len(t)
         /\ \A k \in IdentStart(t, i) + 1 .. IdentEnd(t, i) : isIdent(t[k])
         /\ IdentStart(t, i) = 0 \/ ~isIdent(t[IdentStart(t, i)])
         /\ IdentEnd(t, i) = Len(t) \/ ~isIdent(t[IdentEnd(t, i) + 1])
<1>0. Len(t) \in Nat
  BY DEF Text
<1> DEFINE L == {j \in 0 .. i : \A k \in j + 1 .. i : isIdent(t[k])}
           R == {j \in i .. Len(t) : \A k \in i + 1 .. j : isIdent(t[k])}
<1>1. i \in L /\ i \in R /\ L \in SUBSET (0 .. Len(t)) /\ R \in SUBSET (0 .. Len(t))
  BY <1>0
<1>2. PICK l, r : l = IdentStart(t, i) /\ r = IdentEnd(t, i)
  OBVIOUS
<1>3. l = Sets!Min(L) /\ r = Sets!Max(R)
  BY <1>2 DEF IdentStart, IdentEnd
<1>4. l \in L /\ \A y \in L : l <= y
  <2> HIDE DEF L
  <2> QED
    BY <1>0, <1>1, <1>3, MinExists
<1>5. r \in R /\ \A y \in R : r >= y
  <2> HIDE DEF R
  <2> QED
    BY <1>0, <1>1, <1>3, MaxExists
<1>6. l = 0 \/ ~isIdent(t[l])
  <2> SUFFICES ASSUME l # 0, isIdent(t[l]) PROVE FALSE
    OBVIOUS
  <2>1. l - 1 \in L
    BY <1>0, <1>4
  <2> QED
    BY <1>0, <1>4, <2>1
<1>7. r = Len(t) \/ ~isIdent(t[r + 1])
  <2> SUFFICES ASSUME r # Len(t), isIdent(t[r + 1]) PROVE FALSE
    OBVIOUS
  <2>1. r + 1 \in R
    BY <1>0, <1>5
  <2> QED
    BY <1>0, <1>5, <2>1
<1>8. \A k \in l + 1 .. r : isIdent(t[k])
  BY <1>0, <1>4, <1>5
<1> QED
  BY <1>2, <1>4, <1>5, <1>6, <1>7, <1>8

-----------------------------------------------------------------------------
(* The properties of LspTextCheck, for texts of any length *)

LEMMA ClientIsEditor == \A i : ClientPos(i) = EditorPos(text, i)
BY DEF ClientPos, EditorPos

\* The conversions of docstore.go, on every text.
LEMMA PositionsOf == text \in Text => PositionsAgree
<1> SUFFICES ASSUME text \in Text PROVE PositionsAgree
  OBVIOUS
<1>1. \A i \in Boundaries : byteOffsetToPosition(text, OffsetOf(i)) = ClientPos(i)
  BY OffsetBack, ClientIsEditor DEF Boundaries, OffsetOf, Offset
<1>2. \A i \in Boundaries : positionToByteOffset(text, ClientPos(i)) = OffsetOf(i)
  BY ClientOffset, ClientIsEditor DEF Boundaries, OffsetOf, Offset
<1>3. ASSUME NEW l \in 0 .. Len(text), NEW c \in 0 .. 2 * Len(text) + 1,
             positionToByteOffset(text, Pos(l, c)) >= 0
      PROVE  \/ \E i \in Boundaries : ClientPos(i) = Pos(l, c)
             \/ l = Newlines(text) + 1 /\ c = 0
  <2>1. l \in Nat /\ c \in Nat
    BY DEF Text
  <2> QED
    BY <1>3, <2>1, NothingRounded, ClientIsEditor DEF Boundaries
<1> QED
  BY <1>1, <1>2, <1>3 DEF PositionsAgree

LEMMA EditsOf == text \in Text => EditsReplaceTheSelection
BY EditReplaces, ClientIsEditor DEF EditsReplaceTheSelection, Boundaries

LEMMA IdentifierOf == text \in Text => IdentifierUnderCursor
<1> SUFFICES ASSUME text \in Text, NEW i \in 0 .. Len(text), NEW w,
                    w = identifierAt(text, ClientPos(i))
             PROVE  /\ w.ok <=> \/ i > 0 /\ isIdent(text[i])
                                \/ i < Len(text) /\ isIdent(text[i + 1])
                    /\ w.ok =>
                         /\ w.from <= i /\ i <= w.to
                         /\ \A k \in w.from + 1 .. w.to : isIdent(text[k])
                         /\ w.from = 0 \/ ~isIdent(text[w.from])
                         /\ w.to = Len(text) \/ ~isIdent(text[w.to + 1])
                         /\ w.start = ClientPos(w.from) /\ w.end = ClientPos(w.to)
  BY DEF IdentifierUnderCursor, Boundaries
<1>0. Len(text) \in Nat
  BY DEF Text
<1>1. PICK l \in 0 .. i, r \in i .. Len(text) : l = IdentStart(text, i) /\ r = IdentEnd(text, i)
  BY IdentRun
<1>2. w = Word(text, l, r)
  <2>1. positionToByteOffset(text, ClientPos(i)) = Offset(text, i) /\ Offset(text, i) \in Nat
    BY ClientOffset, ClientIsEditor, Boundary
  <2>2. CharAt(text, Offset(text, i)) = i
    BY CharAtOffset
  <2>3. ~(Offset(text, i) < 0)
    BY <2>1
  <2> QED
    BY <1>1, <2>1, <2>2, <2>3 DEF identifierAt, IdentAround
<1>3. /\ \A k \in l + 1 .. r : isIdent(text[k])
      /\ l = 0 \/ ~isIdent(text[l])
      /\ r = Len(text) \/ ~isIdent(text[r + 1])
  BY <1>1, IdentRun
<1>4. CASE l = r
  <2>1. w.ok = FALSE
    BY <1>2, <1>4 DEF Word
  <2>2. l = i /\ r = i
    BY <1>0, <1>4
  <2> QED
    BY <1>0, <1>3, <2>1, <2>2
<1>5. CASE l # r
  <2>1. /\ w.ok = TRUE /\ w.from = l /\ w.to = r
        /\ w.start = byteOffsetToPosition(text, Offset(text, l))
        /\ w.end = byteOffsetToPosition(text, Offset(text, r))
    BY <1>2, <1>5 DEF Word, Offset
  <2>2. w.start = ClientPos(l) /\ w.end = ClientPos(r)
    <3>1. l \in 0 .. Len(text) /\ r \in 0 .. Len(text)
      BY <1>0
    <3> QED
      BY <2>1, <3>1, OffsetBack, ClientIsEditor
  <2>3. (i > 0 /\ i \in l + 1 .. r) \/ (i < Len(text) /\ i + 1 \in l + 1 .. r)
    BY <1>0, <1>5
  <2>4. (i > 0 /\ isIdent(text[i])) \/ (i < Len(text) /\ isIdent(text[i + 1]))
    BY <1>3, <2>3
  <2> QED
    BY <1>0, <1>3, <2>1, <2>2, <2>4
<1> QED
  BY <1>4, <1>5

LEMMA TextTyped == TextSpec => [](text \in Text)
<1>1. TextInit => text \in Text
  BY DEF TextInit, Text
<1>2. text \in Text /\ [TypeText]_text => (text \in Text)'
  BY DEF TypeText, Text
<1> QED
  BY <1>1, <1>2, PTL DEF TextSpec

\* positionToByteOffset and byteOffsetToPosition agree with the client, invert
\* each other and round nothing, on texts of any length.
THEOREM PositionsAreExact == TextSpec => []PositionsAgree
BY TextTyped, PositionsOf, PTL

\* applyRangeEdit replaces exactly the selected characters, on texts of any
\* length.
THEOREM EditsAreExact == TextSpec => []EditsReplaceTheSelection
BY TextTyped, EditsOf, PTL

\* identifierAt finds the whole identifier, on texts of any length.
THEOREM IdentifiersAreWhole == TextSpec => []IdentifierUnderCursor
BY TextTyped, IdentifierOf, PTL

-----------------------------------------------------------------------------
(* Messages and documents *)

EditRange == [start : [line : Int, character : Int], end : [line : Int, character : Int]]

\* Messages that carry nothing: notifications without effect, and garbage.
Garbage == {"badjson", "anonymous", "badOpen", "badChange", "badClose", "badframe"}
Bare == {"ignored", "exit", "eof"} \cup Garbage

Outcomes == {"result", "empty", "nil", "error"}

ToServer ==
  [is : {"didOpen"}, uri : Uris, text : Text]
  \cup [is : {"didChange"}, uri : Uris, full : {FALSE}, range : EditRange, text : Text]
  \cup [is : {"didChange"}, uri : Uris, full : {TRUE}, text : Text]
  \cup [is : {"didClose"}, uri : Uris]
  \cup [is : Requests, id : 1 .. MaxSent, on : Uris \cup {"bad"}]
  \cup [is : Bare]

Diags == {NoMarkers} \cup {Markers(t) : t \in Text}

ToEditor ==
  [is : {"publish"}, uri : Uris, diags : Diags, list : BOOLEAN]
  \cup [is : {"response"}, id : 0 .. MaxSent, outcome : Outcomes]

Document == {Closed} \cup {Open(t) : t \in Text}

LspTypes ==
  /\ editor \in [Uris -> Document] /\ docs \in [Uris -> Document]
  /\ shown \in [Uris -> Diags]
  /\ toServer \in Seq(ToServer) /\ toEditor \in Seq(ToEditor)
  /\ sent \in 0 .. MaxSent /\ asked \subseteq 1 .. sent
  /\ replies \in [1 .. MaxSent -> Nat]

LEMMA OpenTyped ==
  ASSUME NEW t
  PROVE  /\ t \in Text <=> Open(t) \in Document
         /\ Open(t).text = t /\ Open(t).open = TRUE /\ Closed \in Document
<1>1. Open(t) # Closed
  BY DEF Open, Closed
<1>2. \A x : Open(x) = Open(t) => x = t
  <2>1. \A x : Open(x).text = x
    BY DEF Open
  <2> QED
    BY <2>1
<1>3. Open(t).text = t /\ Open(t).open = TRUE
  BY DEF Open
<1> QED
  BY <1>1, <1>2, <1>3 DEF Document

LEMMA OpenDocument ==
  ASSUME NEW d \in Document, d.open
  PROVE  d.text \in Text /\ d = Open(d.text)
BY DEF Document, Closed, Open

\* What a message does to the documents of the server that handles it.
Effect(m, d) ==
  CASE m.is = "didOpen" -> [d EXCEPT ![m.uri] = Open(m.text)]
    [] m.is = "didChange" ->
         IF ~d[m.uri].open THEN d
         ELSE [d EXCEPT ![m.uri] = Open(IF m.full THEN m.text
                                        ELSE applyRangeEdit(d[m.uri].text, m.range, m.text))]
    [] m.is = "didClose" -> [d EXCEPT ![m.uri] = Closed]
    [] OTHER -> d

-----------------------------------------------------------------------------
(* What the editor's steps do *)

\* The editor posts a message that has the effect of its own step on its own
\* buffers.
Posted(m) ==
  /\ m \in ToServer /\ Posts(m)
  /\ editor' \in [Uris -> Document] /\ editor' = Effect(m, editor)
  /\ \/ m.is \notin Requests /\ asked' = asked
     \/ m.is \in Requests /\ m.id = sent + 1 /\ asked' = asked \cup {sent + 1}

LEMMA EditorTextsAreTexts == EditorTexts \subseteq Text
BY LspServerAssumption DEF EditorTexts, Text

LEMMA PositionTyped ==
  ASSUME NEW t \in Text, NEW i \in 0 .. Len(t)
  PROVE  EditorPos(t, i) \in [line : Int, character : Int]
<1>1. PICK k \in 0 .. i : EditorPos(t, i) = Pos(Line(t, i), Column(t, i) - Column(t, k))
  BY ClientColumn
<1>2. Line(t, i) \in Nat /\ Column(t, i) \in Nat /\ Column(t, k) \in Nat
  <2>1. k \in 0 .. Len(t)
    BY DEF Text
  <2> QED
    BY <2>1, Boundary
<1> QED
  BY <1>1, <1>2 DEF Pos

LEMMA OpensPost ==
  ASSUME LspTypes, NEW u \in Uris, EditorOpens(u)
  PROVE  \E m : Posted(m)
<1>1. PICK t \in Text : Posts([is |-> "didOpen", uri |-> u, text |-> t])
                        /\ editor' = [editor EXCEPT ![u] = Open(t)] /\ asked' = asked
  BY EditorTextsAreTexts DEF EditorOpens
<1>2. PICK m : m = [is |-> "didOpen", uri |-> u, text |-> t]
  OBVIOUS
<1>3. m \in ToServer /\ m.is \notin Requests
  BY <1>2 DEF ToServer, Requests
<1>4. editor' = Effect(m, editor)
  BY <1>1, <1>2 DEF Effect
<1>5. editor' \in [Uris -> Document]
  BY <1>1 DEF LspTypes, Document
<1> QED
  BY <1>1, <1>2, <1>3, <1>4, <1>5 DEF Posted

LEMMA TypesPost ==
  ASSUME LspTypes, NEW u \in Uris, EditorTypes(u)
  PROVE  \E m : Posted(m)
<1>1. PICK t : t = editor[u].text
  OBVIOUS
<1>2. editor[u] \in Document /\ editor[u].open /\ t \in Text
  BY <1>1, OpenDocument DEF EditorTypes, LspTypes
<1>3. PICK i \in 0 .. Len(t) : \E j \in i .. Len(t) :
        \E new \in {<<>>} \cup {<<c>> : c \in Letters} :
          LET result == Take(t, i) \o new \o Slice(t, j, Len(t))
              range == [start |-> EditorPos(t, i), end |-> EditorPos(t, j)]
          IN  /\ editor' = [editor EXCEPT ![u] = Open(result)]
              /\ \/ Posts([is |-> "didChange", uri |-> u, full |-> FALSE,
                          range |-> range, text |-> new])
                 \/ Posts([is |-> "didChange", uri |-> u, full |-> TRUE, text |-> result])
  BY <1>1 DEF EditorTypes
<1>4. PICK j \in i .. Len(t) :
        \E new \in {<<>>} \cup {<<c>> : c \in Letters} :
          LET result == Take(t, i) \o new \o Slice(t, j, Len(t))
              range == [start |-> EditorPos(t, i), end |-> EditorPos(t, j)]
          IN  /\ editor' = [editor EXCEPT ![u] = Open(result)]
              /\ \/ Posts([is |-> "didChange", uri |-> u, full |-> FALSE,
                          range |-> range, text |-> new])
                 \/ Posts([is |-> "didChange", uri |-> u, full |-> TRUE, text |-> result])
  BY <1>3
<1>5. PICK new \in {<<>>} \cup {<<c>> : c \in Letters} :
          LET result == Take(t, i) \o new \o Slice(t, j, Len(t))
              range == [start |-> EditorPos(t, i), end |-> EditorPos(t, j)]
          IN  /\ editor' = [editor EXCEPT ![u] = Open(result)]
              /\ \/ Posts([is |-> "didChange", uri |-> u, full |-> FALSE,
                          range |-> range, text |-> new])
                 \/ Posts([is |-> "didChange", uri |-> u, full |-> TRUE, text |-> result])
  BY <1>4
<1>6. Len(t) \in Nat /\ j \in 0 .. Len(t) /\ Len(t) \in j .. Len(t) /\ new \in Text
  <2>1. Len(t) \in Nat
    BY <1>2 DEF Text
  <2>2. new \in Text
    <3>1. \A c \in Letters : c \in Chars
      BY LspServerAssumption
    <3>2. \A c \in Chars : <<c>> \in Seq(Chars)
      OBVIOUS
    <3>3. new = <<>> \/ \E c \in Letters : new = <<c>>
      OBVIOUS
    <3>4. <<>> \in Seq(Chars)
      OBVIOUS
    <3> QED
      BY <3>1, <3>2, <3>3, <3>4 DEF Text
  <2> QED
    BY <2>1, <2>2
<1>7. PICK result : result = Take(t, i) \o new \o Slice(t, j, Len(t))
  OBVIOUS
<1>8. PICK range : range = [start |-> EditorPos(t, i), end |-> EditorPos(t, j)]
  OBVIOUS
<1>9. result \in Text /\ range \in EditRange
  <2>1. Take(t, i) \in Text /\ Slice(t, j, Len(t)) \in Text
    BY <1>2, <1>6, TakeParts, SliceParts
  <2>2. EditorPos(t, i) \in [line : Int, character : Int] /\ EditorPos(t, j) \in [line : Int, character : Int]
    BY <1>2, <1>6, PositionTyped
  <2> QED
    BY <1>6, <1>7, <1>8, <2>1, <2>2 DEF Text, EditRange
<1>10. editor' = [editor EXCEPT ![u] = Open(result)] /\ asked' = asked
  BY <1>5, <1>7 DEF EditorTypes
<1>11. editor' \in [Uris -> Document]
  BY <1>9, <1>10 DEF LspTypes, Document
<1>12. ASSUME NEW m, m = [is |-> "didChange", uri |-> u, full |-> FALSE, range |-> range, text |-> new]
       PROVE  m \in ToServer /\ m.is \notin Requests /\ editor' = Effect(m, editor)
  <2>1. m \in ToServer /\ m.is \notin Requests
    BY <1>6, <1>9, <1>12 DEF ToServer, Requests
  <2>2. applyRangeEdit(t, range, new) = result
    BY <1>2, <1>6, <1>7, <1>8, EditReplaces
  <2> QED
    BY <1>1, <1>2, <1>10, <1>12, <2>1, <2>2 DEF Effect
<1>13. ASSUME NEW m, m = [is |-> "didChange", uri |-> u, full |-> TRUE, text |-> result]
       PROVE  m \in ToServer /\ m.is \notin Requests /\ editor' = Effect(m, editor)
  <2>1. m \in ToServer /\ m.is \notin Requests
    BY <1>9, <1>13 DEF ToServer, Requests
  <2> QED
    BY <1>2, <1>10, <1>13, <2>1 DEF Effect
<1>14. CASE Posts([is |-> "didChange", uri |-> u, full |-> FALSE, range |-> range, text |-> new])
  BY <1>10, <1>11, <1>12, <1>14 DEF Posted
<1>15. CASE Posts([is |-> "didChange", uri |-> u, full |-> TRUE, text |-> result])
  BY <1>10, <1>11, <1>13, <1>15 DEF Posted
<1> QED
  BY <1>5, <1>7, <1>8, <1>14, <1>15

LEMMA ClosesPost ==
  ASSUME LspTypes, NEW u \in Uris, EditorCloses(u)
  PROVE  \E m : Posted(m)
<1>1. PICK m : m = [is |-> "didClose", uri |-> u]
  OBVIOUS
<1>2. m \in ToServer /\ m.is \notin Requests
  BY <1>1 DEF ToServer, Requests
<1>3. editor' = Effect(m, editor) /\ editor' \in [Uris -> Document]
  BY <1>1 DEF EditorCloses, Effect, LspTypes, Document
<1> QED
  BY <1>1, <1>2, <1>3 DEF Posted, EditorCloses

LEMMA AsksPost ==
  ASSUME LspTypes, EditorAsks
  PROVE  \E m : Posted(m)
<1>1. PICK what \in Requests, d \in Uris \cup {"bad"} :
             Posts([is |-> what, id |-> sent + 1, on |-> d])
  BY DEF EditorAsks
<1>2. PICK m : m = [is |-> what, id |-> sent + 1, on |-> d]
  OBVIOUS
<1>3. m \in ToServer /\ m.is \in Requests /\ m.id = sent + 1
  <2>1. sent + 1 \in 1 .. MaxSent
    BY <1>1, LspServerAssumption DEF LspTypes, Posts
  <2>2. m \in [is : Requests, id : 1 .. MaxSent, on : Uris \cup {"bad"}]
    BY <1>2, <2>1
  <2> QED
    BY <1>2, <2>2 DEF ToServer
<1>4. editor' = Effect(m, editor)
  BY <1>2 DEF EditorAsks, Effect, Requests
<1> QED
  BY <1>1, <1>2, <1>3, <1>4 DEF Posted, EditorAsks, LspTypes

LEMMA OthersPost ==
  ASSUME LspTypes, EditorNotifies \/ EditorSendsGarbage \/ EditorHangsUp
  PROVE  \E m : Posted(m)
<1>1. PICK what \in Bare : Posts([is |-> what])
  BY DEF EditorNotifies, EditorSendsGarbage, EditorHangsUp, Bare, Garbage
<1>2. PICK m : m = [is |-> what]
  OBVIOUS
<1>3. m \in ToServer /\ m.is \notin Requests
  BY <1>2 DEF ToServer, Requests, Bare, Garbage
<1>4. editor' = Effect(m, editor) /\ asked' = asked /\ editor' = editor
  BY <1>2 DEF EditorNotifies, EditorSendsGarbage, EditorHangsUp, Effect, Bare, Garbage
<1> QED
  BY <1>1, <1>2, <1>3, <1>4 DEF Posted, LspTypes

LEMMA SendsPost == LspTypes /\ EditorSends => \E m : Posted(m)
BY OpensPost, TypesPost, ClosesPost, AsksPost, OthersPost DEF EditorSends

-----------------------------------------------------------------------------
(* What the server's steps do *)

\* There is a history of the documents along the pipe, from the server's to the
\* editor's: each message has, on the documents the server will have when it
\* takes it, the effect that it had in the editor.
History(h) ==
  /\ h \in [0 .. Len(toServer) -> [Uris -> Document]]
  /\ h[0] = docs /\ h[Len(toServer)] = editor
  /\ \A k \in 1 .. Len(toServer) : h[k] = Effect(toServer[k], h[k - 1])

InSync == state = "running" => \E h : History(h)

\* What the server may answer to m.
Answers(m, a) ==
  \/ /\ a.is = "publish" /\ m.is \notin Requests
     /\ a.list => a.diags = Markers(docs'[a.uri].text)
  \/ a.is = "response" /\ a.id = IF m.is \in Requests THEN m.id ELSE 0

\* The server takes the next message m and writes at most one answer.  A text
\* that changes is published.
Served(m) ==
  /\ state = "running" /\ toServer # <<>> /\ m = Head(toServer)
  /\ toServer' = Tail(toServer)
  /\ docs' \in [Uris -> Document]
  /\ state' = "running" => docs' = Effect(m, docs)
  /\ \/ toEditor' = toEditor /\ m.is \notin Requests /\ docs' = docs
     \/ \E a \in ToEditor :
          /\ toEditor' = Append(toEditor, a) /\ Answers(m, a)
          /\ \A u \in Uris : \/ docs'[u] = docs[u] \/ ~docs'[u].open
                             \/ a.is = "publish" /\ a.list /\ a.uri = u
  /\ UNCHANGED client

LEMMA NextMessage ==
  ASSUME LspTypes, toServer # <<>>
  PROVE  \E m \in ToServer :
           /\ m = Head(toServer) /\ m = toServer[1] /\ Len(toServer) >= 1
           /\ m.is \in {"didOpen", "didChange", "didClose"} => m.uri \in Uris
           /\ m.is \in {"didOpen", "didChange"} => m.text \in Text
           /\ m.is \in Requests => m.id \in 1 .. MaxSent
           /\ m.is = "didChange" => m.full \in BOOLEAN
           /\ m.is \in Requests => m.on \in Uris \cup {"bad"}
<1>1. PICK m \in ToServer : m = Head(toServer) /\ m = toServer[1] /\ Len(toServer) >= 1
  BY DEF LspTypes
<1> QED
  BY <1>1 DEF ToServer, Requests, Bare, Garbage

LEMMA NextEffect ==
  ASSUME LspTypes, InSync, state = "running", toServer # <<>>
  PROVE  Effect(Head(toServer), docs) \in [Uris -> Document]
<1>1. PICK h : History(h)
  BY DEF InSync
<1>2. Head(toServer) = toServer[1] /\ Len(toServer) \in Nat /\ Len(toServer) >= 1
  BY DEF LspTypes
<1>3. h[1] = Effect(toServer[1], h[0]) /\ h[1] \in [Uris -> Document]
  <2>1. 1 \in 1 .. Len(toServer) /\ 1 \in 0 .. Len(toServer) /\ 1 - 1 = 0
    BY <1>2
  <2> QED
    BY <1>1, <2>1 DEF History
<1> QED
  BY <1>1, <1>2, <1>3 DEF History

LEMMA PublishTyped ==
  ASSUME NEW u \in Uris, NEW d \in Diags, NEW l \in BOOLEAN
  PROVE  \E a \in ToEditor :
           /\ a = Publish(u, d, l) /\ a.is = "publish" /\ a.uri = u
           /\ a.diags = d /\ a.list = l
<1>1. PICK a : a = Publish(u, d, l)
  OBVIOUS
<1>2. a.is = "publish" /\ a.uri = u /\ a.diags = d /\ a.list = l
  BY <1>1 DEF Publish
<1>3. a \in [is : {"publish"}, uri : Uris, diags : Diags, list : BOOLEAN]
  BY <1>1 DEF Publish
<1> QED
  BY <1>1, <1>2, <1>3 DEF ToEditor

LEMMA ResponseTyped ==
  ASSUME NEW i \in 0 .. MaxSent, NEW o \in Outcomes
  PROVE  /\ Response(i, o) \in ToEditor
         /\ Response(i, o).is = "response" /\ Response(i, o).id = i
<1>1. Response(i, o) \in [is : {"response"}, id : 0 .. MaxSent, outcome : Outcomes]
  BY DEF Response
<1> QED
  BY <1>1 DEF ToEditor, Response

\* A publication of the text of a document that was opened or changed.
LEMMA Published ==
  ASSUME LspTypes, InSync, NEW m, Takes({"didOpen", "didChange"}), m = Head(toServer),
         UNCHANGED <<client, state, shutdown>>,
         NEW t \in Text, docs' = [docs EXCEPT ![m.uri] = Open(t)], docs' = Effect(m, docs),
         Writes(Publish(m.uri, Markers(t), TRUE))
  PROVE  Served(m)
<1>1. m.uri \in Uris /\ m.is \notin Requests /\ state = "running" /\ toServer # <<>>
      /\ toServer' = Tail(toServer)
  BY NextMessage DEF Takes, Requests
<1>2. PICK a \in ToEditor : a = Publish(m.uri, Markers(t), TRUE) /\ a.is = "publish" /\ a.uri = m.uri
                            /\ a.diags = Markers(t) /\ a.list = TRUE
  <2>1. Markers(t) \in Diags /\ TRUE \in BOOLEAN
    BY DEF Diags
  <2> QED
    BY <1>1, <2>1, PublishTyped
<1>3. docs' \in [Uris -> Document] /\ docs'[m.uri].text = t
  <2>1. Open(t) \in Document /\ Open(t).text = t /\ docs \in [Uris -> Document]
    BY OpenTyped DEF LspTypes
  <2> QED
    BY <1>1, <2>1
<1>4. \A u \in Uris : docs'[u] = docs[u] \/ a.uri = u
  BY <1>2 DEF LspTypes
<1>5. Answers(m, a)
  BY <1>1, <1>2, <1>3 DEF Answers
<1>6. toEditor' = Append(toEditor, a)
  BY <1>2 DEF Writes
<1>7. \A u \in Uris : docs'[u] = docs[u] \/ ~docs'[u].open
                        \/ (a.is = "publish" /\ a.list /\ a.uri = u)
  BY <1>2, <1>4
<1> QED
  BY <1>1, <1>3, <1>5, <1>6, <1>7 DEF Served

\* A response, to a request or to a malformed message.
LEMMA ReplyServed ==
  ASSUME LspTypes, NEW m, m = Head(toServer), NEW kinds, Takes(kinds),
         NEW i, i = IF m.is \in Requests THEN m.id ELSE 0,
         m.is \in Requests \cup Garbage, NEW o \in Outcomes, Reply(i, o)
  PROVE  Served(m)
<1>1. i \in 0 .. MaxSent
  BY NextMessage, LspServerAssumption DEF Takes
<1>2. PICK a \in ToEditor : a = Response(i, o) /\ a.is = "response" /\ a.id = i
  BY <1>1, ResponseTyped
<1>3. toEditor' = Append(toEditor, a) /\ Answers(m, a)
  BY <1>2 DEF Reply, Writes, Answers
<1>4. docs' = Effect(m, docs) /\ docs' = docs
  BY DEF Effect, Reply, Requests, Garbage
<1> QED
  BY <1>2, <1>3, <1>4 DEF Served, Takes, Reply, LspTypes

\* One under the null id.
LEMMA RefusalServed ==
  ASSUME LspTypes, NEW kind \in Garbage, Takes({kind}), Reply(0, "error")
  PROVE  Served(Head(toServer))
<1>1. PICK m : m = Head(toServer)
  OBVIOUS
<1>2. m.is \in Garbage /\ m.is \notin Requests /\ 0 = IF m.is \in Requests THEN m.id ELSE 0
  BY <1>1 DEF Takes, Garbage, Requests
<1>3. "error" \in Outcomes
  BY DEF Outcomes
<1> QED
  BY <1>1, <1>2, <1>3, ReplyServed

LEMMA DidOpenServed ==
  ASSUME LspTypes, InSync, HandleDidOpen, Takes({"didOpen"})
  PROVE  Served(Head(toServer))
<1>1. PICK m : m = Head(toServer)
  OBVIOUS
<1>2. m.is = "didOpen" /\ m.text \in Text /\ Takes({"didOpen", "didChange"})
  BY <1>1, NextMessage DEF HandleDidOpen, Takes
<1>3. docs' = [docs EXCEPT ![m.uri] = Open(m.text)] /\ docs' = Effect(m, docs)
      /\ Writes(Publish(m.uri, Markers(m.text), TRUE)) /\ UNCHANGED <<client, state, shutdown>>
  BY <1>1, <1>2 DEF HandleDidOpen, Effect, Takes
<1> QED
  BY <1>1, <1>2, <1>3, Published

LEMMA DidChangeServed ==
  ASSUME LspTypes, InSync, HandleDidChange, Takes({"didChange"})
  PROVE  Served(Head(toServer))
<1>1. PICK m : m = Head(toServer)
  OBVIOUS
<1>2. m.is = "didChange" /\ m.uri \in Uris /\ Takes({"didOpen", "didChange"})
  BY <1>1, NextMessage DEF HandleDidChange, Takes
<1>3. state = "running" /\ toServer # <<>> /\ toServer' = Tail(toServer)
      /\ UNCHANGED <<client, state, shutdown>>
  BY DEF HandleDidChange, Takes
<1>4. CASE ~docs[m.uri].open
  <2>1. docs' = docs /\ toEditor' = toEditor
    BY <1>1, <1>4 DEF HandleDidChange, Takes
  <2>2. docs' = Effect(m, docs)
    BY <1>2, <1>4, <2>1 DEF Effect
  <2> QED
    BY <1>1, <1>2, <1>3, <2>1, <2>2 DEF Served, Requests, LspTypes
<1>5. CASE docs[m.uri].open
  <2>1. PICK t : t = IF m.full THEN m.text ELSE applyRangeEdit(docs[m.uri].text, m.range, m.text)
    OBVIOUS
  <2>2. docs' = [docs EXCEPT ![m.uri] = Open(t)] /\ Writes(Publish(m.uri, Markers(t), TRUE))
    BY <1>1, <1>5, <2>1 DEF HandleDidChange, Takes
  <2>3. docs' = Effect(m, docs)
    BY <1>2, <1>5, <2>1, <2>2 DEF Effect
  <2>4. t \in Text
    <3>1. docs' \in [Uris -> Document]
      BY <1>1, <1>3, <2>3, NextEffect
    <3>2. docs'[m.uri] = Open(t) /\ docs'[m.uri] \in Document
      BY <1>2, <2>2, <3>1 DEF LspTypes
    <3> QED
      BY <3>2, OpenTyped
  <2> QED
    BY <1>1, <1>2, <1>3, <2>2, <2>3, <2>4, Published
<1> QED
  BY <1>4, <1>5

LEMMA DidCloseServed ==
  ASSUME LspTypes, InSync, HandleDidClose, Takes({"didClose"})
  PROVE  Served(Head(toServer))
<1>1. PICK m : m = Head(toServer)
  OBVIOUS
<1>2. m.is = "didClose" /\ m.uri \in Uris /\ m.is \notin Requests
  BY <1>1, NextMessage DEF HandleDidClose, Takes, Requests
<1>3. PICK a \in ToEditor : a = Publish(m.uri, NoMarkers, FALSE) /\ a.is = "publish" /\ a.list = FALSE
  <2>1. NoMarkers \in Diags
    BY DEF Diags
  <2>2. PICK l \in BOOLEAN : l = FALSE
    OBVIOUS
  <2>3. PICK a \in ToEditor : a = Publish(m.uri, NoMarkers, l) /\ a.is = "publish" /\ a.list = l
    BY <1>2, <2>1, PublishTyped
  <2> QED
    BY <2>2, <2>3
<1>4. docs' = [docs EXCEPT ![m.uri] = Closed] /\ toEditor' = Append(toEditor, a)
  BY <1>1, <1>3 DEF HandleDidClose, Writes, Takes
<1>5. docs' \in [Uris -> Document] /\ docs' = Effect(m, docs)
  BY <1>2, <1>4 DEF Effect, LspTypes, Document
<1>6. \A u \in Uris : docs'[u] = docs[u] \/ ~docs'[u].open
  BY <1>2, <1>4 DEF LspTypes, Closed
<1>7. Answers(m, a)
  BY <1>2, <1>3 DEF Answers
<1> QED
  BY <1>1, <1>2, <1>3, <1>4, <1>5, <1>6, <1>7 DEF Served, HandleDidClose, Takes

\* The handlers of requests, one step each: every way through one replies once.
LEMMA RequestServed ==
  ASSUME LspTypes,
         \/ HandleInitialize \/ HandleHover \/ HandleDefinition \/ HandleDocumentRequest
         \/ HandleWorkspaceRequest \/ HandleUnknown
  PROVE  Served(Head(toServer))
<1>1. PICK m : m = Head(toServer)
  OBVIOUS
<1>2. ASSUME NEW kind \in Requests, Takes({kind}), NEW o \in Outcomes, Reply(m.id, o)
      PROVE  Served(m)
  <2>1. m.is \in Requests /\ m.id = IF m.is \in Requests THEN m.id ELSE 0
    BY <1>1, <1>2 DEF Takes
  <2> QED
    BY <1>1, <1>2, <2>1, ReplyServed
<1>3. CASE HandleInitialize \/ HandleUnknown
  BY <1>1, <1>2, <1>3 DEF HandleInitialize, HandleUnknown, Requests, Outcomes
<1>4. CASE HandleHover
  <2>1. Takes({"hover"}) /\ \E o \in Outcomes : Reply(m.id, o)
    BY <1>1, <1>4 DEF HandleHover, Outcomes
  <2> QED
    BY <1>1, <1>2, <2>1 DEF Requests
<1>5. CASE HandleDefinition
  <2>1. Takes({"definition"}) /\ \E o \in Outcomes : Reply(m.id, o)
    BY <1>1, <1>5 DEF HandleDefinition, Outcomes
  <2> QED
    BY <1>1, <1>2, <2>1 DEF Requests
<1>6. CASE HandleDocumentRequest
  <2>1. Takes({"document"}) /\ \E o \in Outcomes : Reply(m.id, o)
    BY <1>1, <1>6 DEF HandleDocumentRequest, Outcomes
  <2> QED
    BY <1>1, <1>2, <2>1 DEF Requests
<1>7. CASE HandleWorkspaceRequest
  <2>1. Takes({"workspace"}) /\ \E o \in Outcomes : Reply(m.id, o)
    BY <1>1, <1>7 DEF HandleWorkspaceRequest, Outcomes
  <2> QED
    BY <1>1, <1>2, <2>1 DEF Requests
<1> QED
  BY <1>1, <1>3, <1>4, <1>5, <1>6, <1>7

\* shutdown changes a flag that nothing here depends on.
LEMMA ShutdownServed ==
  ASSUME LspTypes, HandleShutdown
  PROVE  Served(Head(toServer))
<1>1. PICK m : m = Head(toServer)
  OBVIOUS
<1>2. m.is = "shutdown" /\ m.is \in Requests /\ m.id \in 0 .. MaxSent
  <2>1. m.is = "shutdown" /\ m.is \in Requests
    BY <1>1 DEF HandleShutdown, Takes, Requests
  <2> QED
    BY <1>1, <2>1, NextMessage, LspServerAssumption DEF HandleShutdown, Takes
<1>3. PICK a \in ToEditor : a = Response(m.id, "nil") /\ a.is = "response" /\ a.id = m.id
  BY <1>2, ResponseTyped DEF Outcomes
<1>4. toEditor' = Append(toEditor, a) /\ Answers(m, a)
  BY <1>1, <1>2, <1>3 DEF HandleShutdown, Writes, Answers
<1>5. docs' = Effect(m, docs) /\ docs' = docs
  BY <1>2 DEF Effect, HandleShutdown
<1> QED
  BY <1>1, <1>3, <1>4, <1>5 DEF Served, HandleShutdown, Takes, LspTypes

LEMMA MalformedServed ==
  ASSUME LspTypes, HandleMalformed
  PROVE  Served(Head(toServer))
<1>1. PICK m : m = Head(toServer)
  OBVIOUS
<1>2. CASE Takes({"badjson", "anonymous"}) /\ Reply(0, "error")
  <2>1. Takes({m.is}) /\ m.is \in Garbage
    BY <1>1, <1>2 DEF Takes, Garbage
  <2> QED
    BY <1>1, <1>2, <2>1, RefusalServed
<1>3. CASE Takes({"nomethod"}) /\ Reply(m.id, "error")
  <2>1. m.is \in Requests /\ m.id = IF m.is \in Requests THEN m.id ELSE 0
    BY <1>1, <1>3 DEF Takes, Requests
  <2> QED
    BY <1>1, <1>3, <2>1, ReplyServed DEF Outcomes
<1> QED
  BY <1>1, <1>2, <1>3 DEF HandleMalformed

LEMMA SilentServed ==
  ASSUME LspTypes, HandleIgnored \/ RunEnds
  PROVE  Served(Head(toServer))
<1>1. PICK m : m = Head(toServer)
  OBVIOUS
<1>2. m.is \in {"ignored", "exit", "eof", "badframe"} /\ state = "running" /\ toServer # <<>>
      /\ toServer' = Tail(toServer) /\ docs' = docs /\ toEditor' = toEditor /\ UNCHANGED client
  BY <1>1 DEF HandleIgnored, RunEnds, Takes
<1>3. docs' = Effect(m, docs) /\ m.is \notin Requests
  BY <1>2 DEF Effect, Requests
<1> QED
  BY <1>1, <1>2, <1>3 DEF Served, LspTypes

\* A notification whose params cannot be decoded is refused under the null id.
LEMMA NoticeServed ==
  ASSUME LspTypes, InSync, HandleDidOpen \/ HandleDidChange \/ HandleDidClose
  PROVE  Served(Head(toServer))
<1>1. CASE HandleDidOpen
  BY <1>1, DidOpenServed, RefusalServed DEF HandleDidOpen, Garbage
<1>2. CASE HandleDidChange
  BY <1>2, DidChangeServed, RefusalServed DEF HandleDidChange, Garbage
<1>3. CASE HandleDidClose
  BY <1>3, DidCloseServed, RefusalServed DEF HandleDidClose, Garbage
<1> QED
  BY <1>1, <1>2, <1>3

LEMMA ServeServes == LspTypes /\ InSync /\ Serve => Served(Head(toServer))
BY NoticeServed, RequestServed, ShutdownServed, MalformedServed, SilentServed DEF Serve

-----------------------------------------------------------------------------
(* Every step keeps the types and the history *)

LEMMA ReadTyped ==
  ASSUME LspTypes, EditorReads
  PROVE  LspTypes'
<1>1. PICK m \in ToEditor : m = Head(toEditor)
  BY DEF LspTypes, EditorReads
<1>2. m.is = "publish" => m.uri \in Uris /\ m.diags \in Diags
  BY <1>1 DEF ToEditor
<1>3. m.is = "response" /\ m.id # 0 => m.id \in 1 .. MaxSent
  BY <1>1, LspServerAssumption DEF ToEditor
<1>4. shown' \in [Uris -> Diags]
  BY <1>1, <1>2 DEF EditorReads, LspTypes
<1>5. replies' \in [1 .. MaxSent -> Nat]
  BY <1>1, <1>3 DEF EditorReads, LspTypes
<1>6. toEditor' \in Seq(ToEditor)
  BY DEF EditorReads, LspTypes
<1> QED
  BY <1>4, <1>5, <1>6 DEF EditorReads, LspTypes

LEMMA PostedTyped ==
  ASSUME LspTypes, NEW m, Posted(m)
  PROVE  LspTypes'
<1>1. toServer' \in Seq(ToServer)
  BY DEF Posted, Posts, LspTypes
<1>2. sent' \in 0 .. MaxSent /\ asked' \subseteq 1 .. sent'
  <2>1. sent \in Nat /\ sent < MaxSent /\ sent' = sent + 1 /\ asked \subseteq 1 .. sent
    BY LspServerAssumption DEF Posted, Posts, LspTypes
  <2>2. asked' \subseteq asked \cup {sent + 1}
    BY DEF Posted
  <2> QED
    BY <2>1, <2>2, LspServerAssumption
<1> QED
  BY <1>1, <1>2 DEF Posted, Posts, LspTypes

LEMMA ServedTyped ==
  ASSUME LspTypes, NEW m, Served(m)
  PROVE  LspTypes'
<1>1. toServer' \in Seq(ToServer) /\ toEditor' \in Seq(ToEditor)
  <2>1. toServer \in Seq(ToServer) /\ toServer # <<>> /\ toServer' = Tail(toServer)
        /\ toEditor \in Seq(ToEditor)
    BY DEF Served, LspTypes
  <2>2. toEditor' = toEditor \/ \E a \in ToEditor : toEditor' = Append(toEditor, a)
    BY DEF Served
  <2> QED
    BY <2>1, <2>2
<1> QED
  BY <1>1 DEF Served, LspTypes, client

\* The history grows with the pipe,
LEMMA PostedInSync ==
  ASSUME LspTypes, InSync, NEW m, Posted(m)
  PROVE  InSync'
<1> SUFFICES ASSUME state = "running" PROVE \E g : History(g)'
  BY DEF InSync, Posted, Posts
<1>1. PICK h : History(h)
  BY DEF InSync
<1>2. PICK n \in Nat : n = Len(toServer)
  BY DEF LspTypes
<1>3. PICK q : q = toServer'
  OBVIOUS
<1>4. Len(q) = n + 1 /\ q[n + 1] = m /\ \A k \in 1 .. n : q[k] = toServer[k]
  BY <1>2, <1>3 DEF Posted, Posts, LspTypes
<1>5. PICK e \in [Uris -> Document] : e = editor' /\ e = Effect(m, editor)
  BY DEF Posted
<1> DEFINE g == [k \in 0 .. n + 1 |-> IF k = n + 1 THEN e ELSE h[k]]
<1>6. h \in [0 .. n -> [Uris -> Document]] /\ h[0] = docs /\ h[n] = editor
      /\ \A k \in 1 .. n : h[k] = Effect(toServer[k], h[k - 1])
  BY <1>1, <1>2 DEF History
<1>7. g \in [0 .. n + 1 -> [Uris -> Document]]
  BY <1>6
<1>8. g[n + 1] = e /\ \A k \in 0 .. n : g[k] = h[k]
  OBVIOUS
<1> HIDE DEF g
<1>9. \A k \in 1 .. n + 1 : g[k] = Effect(q[k], g[k - 1])
  <2> SUFFICES ASSUME NEW k \in 1 .. n + 1 PROVE g[k] = Effect(q[k], g[k - 1])
    OBVIOUS
  <2>1. CASE k = n + 1
    <3>1. k - 1 = n /\ n \in 0 .. n
      BY <2>1
    <3> QED
      BY <1>4, <1>5, <1>6, <1>8, <2>1, <3>1
  <2>2. CASE k \in 1 .. n
    <3>1. k \in 0 .. n /\ k - 1 \in 0 .. n
      BY <2>2
    <3> QED
      BY <1>4, <1>6, <1>8, <2>2, <3>1
  <2> QED
    BY <2>1, <2>2
<1>10. g[0] = docs'
  BY <1>6, <1>8 DEF Posted, Posts
<1>11. History(g)'
  BY <1>3, <1>4, <1>5, <1>7, <1>8, <1>9, <1>10 DEF History
<1> QED
  BY <1>11

\* and shrinks with it.
LEMMA ServedInSync ==
  ASSUME LspTypes, InSync, NEW m, Served(m)
  PROVE  InSync'
<1> SUFFICES ASSUME state' = "running" PROVE \E g : History(g)'
  BY DEF InSync
<1>1. PICK h : History(h)
  BY DEF InSync, Served
<1>2. PICK n \in Nat : n = Len(toServer)
  BY DEF LspTypes
<1>3. PICK q : q = toServer'
  OBVIOUS
<1>4. n >= 1 /\ Len(q) = n - 1 /\ m = toServer[1] /\ \A k \in 1 .. n - 1 : q[k] = toServer[k + 1]
  BY <1>2, <1>3 DEF Served, LspTypes
<1> DEFINE g == [k \in 0 .. n - 1 |-> h[k + 1]]
<1>5. h \in [0 .. n -> [Uris -> Document]] /\ h[0] = docs /\ h[n] = editor
      /\ \A k \in 1 .. n : h[k] = Effect(toServer[k], h[k - 1])
  BY <1>1, <1>2 DEF History
<1>6. g \in [0 .. n - 1 -> [Uris -> Document]]
  BY <1>4, <1>5
<1>7. \A k \in 0 .. n - 1 : g[k] = h[k + 1]
  OBVIOUS
<1> HIDE DEF g
<1>8. g[0] = docs'
  <2>1. g[0] = h[1] /\ h[1] = Effect(toServer[1], h[1 - 1]) /\ 1 - 1 = 0
    BY <1>4, <1>5, <1>7
  <2> QED
    BY <1>4, <1>5, <2>1 DEF Served
<1>9. g[n - 1] = editor'
  <2>1. n - 1 \in 0 .. n - 1 /\ (n - 1) + 1 = n
    BY <1>4
  <2> QED
    BY <1>5, <1>7, <2>1 DEF Served, client
<1>10. \A k \in 1 .. n - 1 : g[k] = Effect(q[k], g[k - 1])
  <2> SUFFICES ASSUME NEW k \in 1 .. n - 1 PROVE g[k] = Effect(q[k], g[k - 1])
    OBVIOUS
  <2>1. k \in 0 .. n - 1 /\ k - 1 \in 0 .. n - 1 /\ (k - 1) + 1 = k /\ k + 1 \in 1 .. n /\ (k + 1) - 1 = k
    BY <1>4
  <2> QED
    BY <1>4, <1>5, <1>7, <2>1
<1>11. History(g)'
  BY <1>3, <1>4, <1>6, <1>8, <1>9, <1>10 DEF History
<1> QED
  BY <1>11

LEMMA ReadInSync ==
  ASSUME InSync, EditorReads
  PROVE  InSync'
BY DEF InSync, History, EditorReads

SyncInv == LspTypes /\ InSync

LEMMA SyncInit == LspInit => SyncInv
<1> SUFFICES ASSUME LspInit PROVE SyncInv
  OBVIOUS
<1>1. LspTypes
  <2>1. Closed \in Document /\ NoMarkers \in Diags
    BY OpenTyped DEF Diags
  <2>2. toServer \in Seq(ToServer) /\ toEditor \in Seq(ToEditor)
    BY DEF LspInit
  <2> QED
    BY <2>1, <2>2, LspServerAssumption DEF LspInit, LspTypes
<1> DEFINE h == [k \in 0 .. 0 |-> docs]
<1>2. h[0] = docs /\ h \in [0 .. 0 -> [Uris -> Document]]
  BY <1>1 DEF LspTypes
<1> HIDE DEF h
<1>3. Len(toServer) = 0 /\ editor = docs
  BY DEF LspInit
<1>4. History(h)
  BY <1>2, <1>3 DEF History
<1> QED
  BY <1>1, <1>4 DEF SyncInv, InSync

LEMMA SyncStep == SyncInv /\ [LspNext]_lspVars => SyncInv'
<1> SUFFICES ASSUME SyncInv, [LspNext]_lspVars PROVE SyncInv'
  OBVIOUS
<1> USE DEF SyncInv
<1>1. CASE UNCHANGED lspVars
  BY <1>1 DEF lspVars, LspTypes, InSync, History
<1>2. CASE EditorSends
  BY <1>2, SendsPost, PostedTyped, PostedInSync
<1>3. CASE EditorReads
  BY <1>3, ReadTyped, ReadInSync
<1>4. CASE Serve
  BY <1>4, ServeServes, ServedTyped, ServedInSync
<1> QED
  BY <1>1, <1>2, <1>3, <1>4 DEF LspNext

LEMMA SyncInvariant == LspSpec => []SyncInv
BY SyncInit, SyncStep, PTL DEF LspSpec

\* DocStore: with any number of documents, messages and characters, a server
\* that has caught up has exactly the editor's texts.
THEOREM DocumentsStayInSync == LspSpec => []DocumentsInSync
<1>1. SyncInv => DocumentsInSync
  <2> SUFFICES ASSUME SyncInv, Drained PROVE docs = editor
    BY DEF DocumentsInSync
  <2>1. PICK h : History(h)
    BY DEF SyncInv, InSync, Drained
  <2>2. Len(toServer) = 0
    BY DEF Drained
  <2> QED
    BY <2>1, <2>2 DEF History
<1> QED
  BY <1>1, SyncInvariant, PTL

-----------------------------------------------------------------------------
(* Markers *)

\* m replaces the markers of u.
Marks(m, u) == m.is = "publish" /\ m.list /\ m.uri = u

\* The last markers of u on their way to the editor, or the ones it displays
\* when none are, are those of the text that the server has.
FreshMarkers ==
  \A u \in Uris : docs[u].open =>
    \/ /\ shown[u] = Markers(docs[u].text)
       /\ \A k \in 1 .. Len(toEditor) : ~Marks(toEditor[k], u)
    \/ \E k \in 1 .. Len(toEditor) :
         /\ Marks(toEditor[k], u) /\ toEditor[k].diags = Markers(docs[u].text)
         /\ \A q \in k + 1 .. Len(toEditor) : ~Marks(toEditor[q], u)

LEMMA ServedFresh ==
  ASSUME LspTypes, FreshMarkers, NEW m, Served(m)
  PROVE  FreshMarkers'
<1> SUFFICES ASSUME NEW u \in Uris, docs'[u].open
             PROVE  \/ /\ shown'[u] = Markers(docs'[u].text)
                       /\ \A k \in 1 .. Len(toEditor') : ~Marks(toEditor'[k], u)
                    \/ \E k \in 1 .. Len(toEditor') :
                         /\ Marks(toEditor'[k], u) /\ toEditor'[k].diags = Markers(docs'[u].text)
                         /\ \A q \in k + 1 .. Len(toEditor') : ~Marks(toEditor'[q], u)
  BY DEF FreshMarkers, Marks
<1>0. shown' = shown
  BY DEF Served, client
<1>1. CASE toEditor' = toEditor /\ docs' = docs
  BY <1>0, <1>1 DEF FreshMarkers
<1>2. ASSUME NEW a \in ToEditor, toEditor' = Append(toEditor, a), Answers(m, a),
             \A v \in Uris : docs'[v] = docs[v] \/ ~docs'[v].open
                             \/ (a.is = "publish" /\ a.list /\ a.uri = v)
      PROVE  \/ /\ shown'[u] = Markers(docs'[u].text)
                /\ \A k \in 1 .. Len(toEditor') : ~Marks(toEditor'[k], u)
             \/ \E k \in 1 .. Len(toEditor') :
                  /\ Marks(toEditor'[k], u) /\ toEditor'[k].diags = Markers(docs'[u].text)
                  /\ \A q \in k + 1 .. Len(toEditor') : ~Marks(toEditor'[q], u)
  <2>1. PICK n \in Nat : n = Len(toEditor)
    BY DEF LspTypes
  <2>2. Len(toEditor') = n + 1 /\ toEditor'[n + 1] = a
        /\ \A k \in 1 .. n : toEditor'[k] = toEditor[k]
    BY <1>2, <2>1 DEF LspTypes
  <2>3. CASE Marks(a, u)
    <3>1. a.diags = Markers(docs'[u].text)
      BY <1>2, <2>3 DEF Marks, Answers
    <3>2. n + 1 \in 1 .. n + 1 /\ \A q \in (n + 1) + 1 .. n + 1 : FALSE
      OBVIOUS
    <3> QED
      BY <2>2, <2>3, <3>1, <3>2
  <2>4. CASE ~Marks(a, u)
    <3>1. docs'[u] = docs[u]
      BY <1>2, <2>4 DEF Marks
    <3>2. CASE /\ shown[u] = Markers(docs[u].text)
               /\ \A k \in 1 .. n : ~Marks(toEditor[k], u)
      <4>1. \A k \in 1 .. n + 1 : k \in 1 .. n \/ k = n + 1
        OBVIOUS
      <4> QED
        BY <1>0, <2>2, <2>4, <3>1, <3>2, <4>1
    <3>3. ASSUME NEW k \in 1 .. n, Marks(toEditor[k], u),
                 toEditor[k].diags = Markers(docs[u].text),
                 \A q \in k + 1 .. n : ~Marks(toEditor[q], u)
          PROVE  /\ k \in 1 .. Len(toEditor') /\ Marks(toEditor'[k], u)
                 /\ toEditor'[k].diags = Markers(docs'[u].text)
                 /\ \A q \in k + 1 .. Len(toEditor') : ~Marks(toEditor'[q], u)
      <4>1. \A q \in k + 1 .. n + 1 : (q \in k + 1 .. n /\ q \in 1 .. n) \/ q = n + 1
        OBVIOUS
      <4>2. k \in 1 .. n + 1
        OBVIOUS
      <4> QED
        BY <2>2, <2>4, <3>1, <3>3, <4>1, <4>2
    <3>4. docs[u].open
      BY <3>1
    <3> QED
      BY <2>1, <3>2, <3>3, <3>4 DEF FreshMarkers
  <2> QED
    BY <2>3, <2>4
<1> QED
  BY <1>1, <1>2 DEF Served

LEMMA ReadFresh ==
  ASSUME LspTypes, FreshMarkers, EditorReads
  PROVE  FreshMarkers'
<1>0. docs' = docs
  BY DEF EditorReads
<1> SUFFICES ASSUME NEW u \in Uris, docs[u].open
             PROVE  \/ /\ shown'[u] = Markers(docs[u].text)
                       /\ \A k \in 1 .. Len(toEditor') : ~Marks(toEditor'[k], u)
                    \/ \E k \in 1 .. Len(toEditor') :
                         /\ Marks(toEditor'[k], u) /\ toEditor'[k].diags = Markers(docs[u].text)
                         /\ \A q \in k + 1 .. Len(toEditor') : ~Marks(toEditor'[q], u)
  BY <1>0 DEF FreshMarkers, Marks
<1>1. PICK n \in Nat : n = Len(toEditor)
  BY DEF LspTypes
<1>2. n >= 1 /\ Len(toEditor') = n - 1 /\ Head(toEditor) = toEditor[1]
      /\ \A k \in 1 .. n - 1 : toEditor'[k] = toEditor[k + 1]
  BY <1>1 DEF EditorReads, LspTypes
<1>3. PICK m : m = toEditor[1]
  OBVIOUS
<1>4. /\ Marks(m, u) => shown'[u] = m.diags
      /\ ~Marks(m, u) => shown'[u] = shown[u]
  <2>1. shown' = IF m.is = "publish" /\ m.list THEN [shown EXCEPT ![m.uri] = m.diags] ELSE shown
    BY <1>2, <1>3 DEF EditorReads
  <2>2. shown \in [Uris -> Diags]
    BY DEF LspTypes
  <2>3. CASE m.is = "publish" /\ m.list
    BY <2>1, <2>2, <2>3 DEF Marks
  <2>4. CASE ~(m.is = "publish" /\ m.list)
    BY <2>1, <2>4 DEF Marks
  <2> QED
    BY <2>3, <2>4
<1>5. \A k \in 1 .. n - 1 : k + 1 \in 1 .. n
  OBVIOUS
<1>6. CASE shown[u] = Markers(docs[u].text) /\ \A k \in 1 .. n : ~Marks(toEditor[k], u)
  <2>1. ~Marks(m, u)
    BY <1>2, <1>3, <1>6
  <2> QED
    BY <1>2, <1>4, <1>5, <1>6, <2>1
<1>7. ASSUME NEW k \in 1 .. n, Marks(toEditor[k], u),
             toEditor[k].diags = Markers(docs[u].text),
             \A q \in k + 1 .. n : ~Marks(toEditor[q], u)
      PROVE  \/ /\ shown'[u] = Markers(docs[u].text)
                /\ \A q \in 1 .. Len(toEditor') : ~Marks(toEditor'[q], u)
             \/ \E j \in 1 .. Len(toEditor') :
                  /\ Marks(toEditor'[j], u) /\ toEditor'[j].diags = Markers(docs[u].text)
                  /\ \A q \in j + 1 .. Len(toEditor') : ~Marks(toEditor'[q], u)
  <2>1. CASE k = 1
    <3>1. \A q \in 1 .. n - 1 : q + 1 \in k + 1 .. n
      BY <2>1
    <3> QED
      BY <1>2, <1>3, <1>4, <1>7, <2>1, <3>1
  <2>2. CASE k # 1
    <3>1. k - 1 \in 1 .. n - 1 /\ (k - 1) + 1 = k
          /\ \A q \in (k - 1) + 1 .. n - 1 : q \in 1 .. n - 1 /\ q + 1 \in k + 1 .. n
      BY <2>2
    <3> QED
      BY <1>2, <1>7, <3>1
  <2> QED
    BY <2>1, <2>2
<1> QED
  BY <1>1, <1>6, <1>7 DEF FreshMarkers

LEMMA FreshStep == SyncInv /\ FreshMarkers /\ [LspNext]_lspVars => FreshMarkers'
<1> SUFFICES ASSUME SyncInv, FreshMarkers, [LspNext]_lspVars PROVE FreshMarkers'
  OBVIOUS
<1> USE DEF SyncInv
<1>1. CASE UNCHANGED lspVars
  BY <1>1 DEF lspVars, FreshMarkers, Marks
<1>2. CASE EditorSends
  <2>1. UNCHANGED <<docs, shown, toEditor>>
    BY <1>2, SendsPost DEF Posted, Posts
  <2> QED
    BY <2>1 DEF FreshMarkers, Marks
<1>3. CASE EditorReads
  BY <1>3, ReadFresh
<1>4. CASE Serve
  BY <1>4, ServeServes, ServedFresh
<1> QED
  BY <1>1, <1>2, <1>3, <1>4 DEF LspNext

\* Diagnostics: once both pipes are empty the editor displays those of the text
\* on the screen, with any number of documents, messages and characters.
THEOREM MarkersStayCurrent == LspSpec => []MarkersAreCurrent
<1>1. LspInit => FreshMarkers
  BY DEF LspInit, FreshMarkers, Closed
<1>2. FreshMarkers /\ DocumentsInSync => MarkersAreCurrent
  BY DEF FreshMarkers, DocumentsInSync, MarkersAreCurrent
<1> QED
  BY <1>1, <1>2, FreshStep, SyncInvariant, DocumentsStayInSync, PTL DEF LspSpec

-----------------------------------------------------------------------------
(* Answers *)

\* m is request i or the answer to it.
About(m, i) == m.is \in Requests \cup {"response"} /\ m.id = i

None(q, i) == \A k \in 1 .. Len(q) : ~About(q[k], i)
One(q, i) == \E k \in 1 .. Len(q) : About(q[k], i) /\ \A j \in 1 .. Len(q) : About(q[j], i) => j = k

LEMMA OneAppended ==
  ASSUME NEW S, NEW q \in Seq(S), NEW m \in S, NEW i
  PROVE  /\ ~About(m, i) /\ None(q, i) => None(Append(q, m), i)
         /\ ~About(m, i) /\ One(q, i) => One(Append(q, m), i)
         /\ About(m, i) /\ None(q, i) => One(Append(q, m), i)
<1>1. PICK n \in Nat : n = Len(q)
  OBVIOUS
<1>2. PICK r : r = Append(q, m)
  OBVIOUS
<1>3. Len(r) = n + 1 /\ r[n + 1] = m /\ \A k \in 1 .. n : r[k] = q[k]
  BY <1>1, <1>2
<1>4. \A k \in 1 .. n + 1 : k \in 1 .. n \/ k = n + 1
  OBVIOUS
<1>5. n + 1 \in 1 .. n + 1 /\ \A k \in 1 .. n : k \in 1 .. n + 1
  OBVIOUS
<1>6. ~About(m, i) /\ None(q, i) => None(r, i)
  BY <1>1, <1>3, <1>4 DEF None
<1>7. ~About(m, i) /\ One(q, i) => One(r, i)
  BY <1>1, <1>3, <1>4, <1>5 DEF One
<1>8. About(m, i) /\ None(q, i) => One(r, i)
  BY <1>1, <1>3, <1>4, <1>5 DEF One, None
<1> QED
  BY <1>2, <1>6, <1>7, <1>8

LEMMA OneTaken ==
  ASSUME NEW S, NEW q \in Seq(S), q # <<>>, NEW i
  PROVE  /\ None(q, i) => ~About(Head(q), i) /\ None(Tail(q), i)
         /\ ~About(Head(q), i) /\ One(q, i) => One(Tail(q), i)
         /\ About(Head(q), i) /\ One(q, i) => None(Tail(q), i)
<1>1. PICK n \in Nat : n = Len(q)
  OBVIOUS
<1>2. PICK r : r = Tail(q)
  OBVIOUS
<1>3. n >= 1 /\ Len(r) = n - 1 /\ Head(q) = q[1] /\ \A k \in 1 .. n - 1 : r[k] = q[k + 1]
  BY <1>1, <1>2
<1>4. 1 \in 1 .. n /\ \A k \in 1 .. n - 1 : k + 1 \in 1 .. n /\ k + 1 # 1
  BY <1>3
<1>5. None(q, i) => ~About(q[1], i) /\ None(r, i)
  BY <1>1, <1>3, <1>4 DEF None
<1>6. ASSUME ~About(q[1], i), One(q, i) PROVE One(r, i)
  <2>1. PICK k \in 1 .. n : About(q[k], i) /\ \A j \in 1 .. n : About(q[j], i) => j = k
    BY <1>1, <1>6 DEF One
  <2>2. k # 1
    BY <1>6, <2>1
  <2>3. k - 1 \in 1 .. n - 1 /\ (k - 1) + 1 = k
    BY <2>2
  <2>4. About(r[k - 1], i)
    BY <1>3, <2>1, <2>3
  <2>5. \A j \in 1 .. n - 1 : About(r[j], i) => j = k - 1
    <3> SUFFICES ASSUME NEW j \in 1 .. n - 1, About(r[j], i) PROVE j = k - 1
      OBVIOUS
    <3>1. j + 1 = k
      BY <1>3, <1>4, <2>1
    <3> QED
      BY <3>1
  <2> QED
    BY <1>3, <2>3, <2>4, <2>5 DEF One
<1>7. ASSUME About(q[1], i), One(q, i) PROVE None(r, i)
  <2>1. PICK k \in 1 .. n : \A j \in 1 .. n : About(q[j], i) => j = k
    BY <1>1, <1>7 DEF One
  <2>2. k = 1
    BY <1>4, <1>7, <2>1
  <2> QED
    BY <1>3, <1>4, <2>1, <2>2 DEF None
<1> QED
  BY <1>2, <1>3, <1>5, <1>6, <1>7

\* Request i is where exactly one of: it waits, its answer is on the way, its
\* answer was read.
Accounted(i) ==
  IF i \notin asked
  THEN None(toServer, i) /\ None(toEditor, i) /\ replies[i] = 0
  ELSE \/ One(toServer, i) /\ None(toEditor, i) /\ replies[i] = 0
       \/ None(toServer, i) /\ One(toEditor, i) /\ replies[i] = 0
       \/ None(toServer, i) /\ None(toEditor, i) /\ replies[i] = 1

AllAccounted == \A i \in 1 .. MaxSent : Accounted(i)

LEMMA PostedAccounted ==
  ASSUME LspTypes, AllAccounted, NEW m, Posted(m)
  PROVE  AllAccounted'
<1> SUFFICES ASSUME NEW i \in 1 .. MaxSent, Accounted(i) PROVE Accounted(i)'
  BY DEF AllAccounted
<1>1. m \in ToServer /\ toServer \in Seq(ToServer) /\ toServer' = Append(toServer, m)
      /\ replies' = replies /\ toEditor' = toEditor
  BY DEF Posted, Posts, LspTypes
<1>2. PICK q : q = toServer'
  OBVIOUS
<1>3. /\ ~About(m, i) /\ None(toServer, i) => None(q, i)
      /\ ~About(m, i) /\ One(toServer, i) => One(q, i)
      /\ About(m, i) /\ None(toServer, i) => One(q, i)
  BY <1>1, <1>2, OneAppended
<1>4. m.is # "response"
  BY <1>1 DEF ToServer, Requests, Bare, Garbage
<1>5. sent + 1 \notin asked
  BY DEF LspTypes
<1>6. CASE m.is \in Requests /\ m.id = i
  <2>1. i = sent + 1 /\ i \notin asked /\ i \in asked' /\ About(m, i)
    BY <1>5, <1>6 DEF Posted, About
  <2>2. One(q, i) /\ None(toEditor, i) /\ replies[i] = 0
    BY <1>3, <2>1 DEF Accounted
  <2>3. One(toServer, i)' /\ None(toEditor, i)' /\ replies'[i] = 0
    BY <1>1, <1>2, <2>2 DEF One, None, About
  <2> QED
    BY <2>1, <2>3 DEF Accounted
<1>7. CASE ~(m.is \in Requests /\ m.id = i)
  <2>1. ~About(m, i) /\ (i \in asked' <=> i \in asked)
    BY <1>4, <1>7 DEF Posted, About
  <2>2. /\ None(toServer, i) => None(toServer, i)'
        /\ One(toServer, i) => One(toServer, i)'
    BY <1>2, <1>3, <2>1 DEF One, None, About
  <2>3. None(toEditor, i) = None(toEditor, i)' /\ One(toEditor, i) = One(toEditor, i)'
    BY <1>1 DEF One, None, About
  <2> QED
    BY <1>1, <2>1, <2>2, <2>3 DEF Accounted
<1> QED
  BY <1>6, <1>7

LEMMA ServedAccounted ==
  ASSUME LspTypes, AllAccounted, NEW m, Served(m)
  PROVE  AllAccounted'
<1> SUFFICES ASSUME NEW i \in 1 .. MaxSent, Accounted(i) PROVE Accounted(i)'
  BY DEF AllAccounted
<1>1. toServer \in Seq(ToServer) /\ toServer # <<>> /\ m = Head(toServer) /\ m \in ToServer
      /\ toServer' = Tail(toServer) /\ toEditor \in Seq(ToEditor)
      /\ replies' = replies /\ asked' = asked
  BY DEF Served, LspTypes, client
<1>2. PICK q, r : q = toServer' /\ r = toEditor'
  OBVIOUS
<1>3. /\ None(toServer, i) => ~About(m, i) /\ None(q, i)
      /\ ~About(m, i) /\ One(toServer, i) => One(q, i)
      /\ About(m, i) /\ One(toServer, i) => None(q, i)
  BY <1>1, <1>2, OneTaken
<1>4. m.is # "response"
  BY <1>1 DEF ToServer, Requests, Bare, Garbage
<1>5. \/ r = toEditor /\ ~About(m, i)
      \/ \E a \in ToEditor : r = Append(toEditor, a) /\ (About(a, i) <=> About(m, i))
  <2>1. CASE toEditor' = toEditor /\ m.is \notin Requests
    BY <1>2, <1>4, <2>1 DEF About
  <2>2. ASSUME NEW a \in ToEditor, Answers(m, a) PROVE About(a, i) <=> About(m, i)
    <3>1. CASE a.is = "publish" /\ m.is \notin Requests
      BY <1>4, <3>1 DEF About, Requests
    <3>2. CASE a.is = "response" /\ a.id = IF m.is \in Requests THEN m.id ELSE 0
      BY <1>4, <3>2, LspServerAssumption DEF About, Requests
    <3> QED
      BY <2>2, <3>1, <3>2 DEF Answers
  <2> QED
    BY <1>2, <2>1, <2>2 DEF Served
<1>6. /\ ~About(m, i) /\ None(toEditor, i) => None(r, i)
      /\ ~About(m, i) /\ One(toEditor, i) => One(r, i)
      /\ About(m, i) /\ None(toEditor, i) => One(r, i)
  <2>1. ASSUME NEW a \in ToEditor
        PROVE  /\ ~About(a, i) /\ None(toEditor, i) => None(Append(toEditor, a), i)
               /\ ~About(a, i) /\ One(toEditor, i) => One(Append(toEditor, a), i)
               /\ About(a, i) /\ None(toEditor, i) => One(Append(toEditor, a), i)
    BY <1>1, OneAppended
  <2> QED
    BY <1>5, <2>1
<1>7. /\ None(q, i) = None(toServer, i)' /\ One(q, i) = One(toServer, i)'
      /\ None(r, i) = None(toEditor, i)' /\ One(r, i) = One(toEditor, i)'
  BY <1>2 DEF None, One, About
<1>8. CASE About(m, i)
  BY <1>1, <1>3, <1>6, <1>7, <1>8 DEF Accounted
<1>9. CASE ~About(m, i)
  BY <1>1, <1>3, <1>6, <1>7, <1>9 DEF Accounted
<1> QED
  BY <1>8, <1>9

LEMMA ReadAccounted ==
  ASSUME LspTypes, AllAccounted, EditorReads
  PROVE  AllAccounted'
<1> SUFFICES ASSUME NEW i \in 1 .. MaxSent, Accounted(i) PROVE Accounted(i)'
  BY DEF AllAccounted
<1>1. PICK m : m = Head(toEditor)
  OBVIOUS
<1>2. toEditor \in Seq(ToEditor) /\ toEditor # <<>> /\ m \in ToEditor
      /\ toEditor' = Tail(toEditor) /\ toServer' = toServer /\ asked' = asked
  BY <1>1 DEF EditorReads, LspTypes
<1>3. PICK r : r = toEditor'
  OBVIOUS
<1>4. /\ None(toEditor, i) => ~About(m, i) /\ None(r, i)
      /\ ~About(m, i) /\ One(toEditor, i) => One(r, i)
      /\ About(m, i) /\ One(toEditor, i) => None(r, i)
  BY <1>1, <1>2, <1>3, OneTaken
<1>5. m.is \in {"publish", "response"} /\ m.is \notin Requests
  BY <1>2 DEF ToEditor, Requests
<1>6. replies'[i] = IF About(m, i) THEN replies[i] + 1 ELSE replies[i]
  <2>1. replies' = IF m.is = "response" /\ m.id # 0 THEN [replies EXCEPT ![m.id] = @ + 1] ELSE replies
    BY <1>1 DEF EditorReads
  <2>2. replies \in [1 .. MaxSent -> Nat]
    BY DEF LspTypes
  <2>3. i # 0
    BY LspServerAssumption
  <2> QED
    BY <1>5, <2>1, <2>2, <2>3 DEF About
<1>7. /\ None(r, i) = None(toEditor, i)' /\ One(r, i) = One(toEditor, i)'
      /\ None(toServer, i) = None(toServer, i)' /\ One(toServer, i) = One(toServer, i)'
  BY <1>2, <1>3 DEF None, One, About
<1>8. CASE About(m, i)
  BY <1>2, <1>4, <1>6, <1>7, <1>8 DEF Accounted
<1>9. CASE ~About(m, i)
  BY <1>2, <1>4, <1>6, <1>7, <1>9 DEF Accounted
<1> QED
  BY <1>8, <1>9

LEMMA AccountedStep == SyncInv /\ AllAccounted /\ [LspNext]_lspVars => AllAccounted'
<1> SUFFICES ASSUME SyncInv, AllAccounted, [LspNext]_lspVars PROVE AllAccounted'
  OBVIOUS
<1> USE DEF SyncInv
<1>1. CASE UNCHANGED lspVars
  BY <1>1 DEF lspVars, AllAccounted, Accounted, None, One, About
<1>2. CASE EditorSends
  BY <1>2, SendsPost, PostedAccounted
<1>3. CASE EditorReads
  BY <1>3, ReadAccounted
<1>4. CASE Serve
  BY <1>4, ServeServes, ServedAccounted
<1> QED
  BY <1>1, <1>2, <1>3, <1>4 DEF LspNext

\* Every handler answers its request exactly once, with any number of requests,
\* documents and malformed messages.
THEOREM RequestsAreAnsweredOnce == LspSpec => []AnsweredOnce
<1>1. LspInit => AllAccounted
  BY DEF LspInit, AllAccounted, Accounted, None
<1>2. SyncInv /\ AllAccounted => AnsweredOnce
  <2> SUFFICES ASSUME SyncInv, AllAccounted PROVE AnsweredOnce
    OBVIOUS
  <2>1. \A i \in 1 .. MaxSent : replies[i] <= IF i \in asked THEN 1 ELSE 0
    BY DEF AllAccounted, Accounted
  <2>2. ASSUME Drained, toEditor = <<>>, NEW i \in asked PROVE replies[i] = 1
    <3>1. i \in 1 .. MaxSent
      BY <2>2, LspServerAssumption DEF SyncInv, LspTypes
    <3>2. Len(toServer) = 0 /\ Len(toEditor) = 0
      BY <2>2 DEF Drained
    <3>3. ~One(toServer, i) /\ ~One(toEditor, i)
      BY <3>2 DEF One
    <3> QED
      BY <2>2, <3>1, <3>3 DEF AllAccounted, Accounted
  <2> QED
    BY <2>1, <2>2 DEF AnsweredOnce
<1> QED
  BY <1>1, <1>2, AccountedStep, SyncInvariant, PTL DEF LspSpec
=============================================================================
