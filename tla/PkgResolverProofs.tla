--------------------------- MODULE PkgResolverProofs ---------------------------
(***************************************************************************)
(* Ranges, their intersection and the choice of a version, for all         *)
(* versions; then Resolver.Resolve, for every registry, every manifest and *)
(* every order of the walks.                                               *)
(***************************************************************************)
EXTENDS PkgResolver, SemverCheck, Induction, SequenceTheorems

-----------------------------------------------------------------------------
(* Versions and ranges *)

\* LessThan is the lexicographic order on the three components.
LEMMA LessThanIsLexicographic ==
  ASSUME NEW v \in Version, NEW w \in Version
  PROVE  /\ LessThan(v, w) <=>
              \/ v.major < w.major
              \/ v.major = w.major /\ v.minor < w.minor
              \/ v.major = w.major /\ v.minor = w.minor /\ v.patch < w.patch
         /\ Compare(v, w) > 0 <=> LessThan(w, v)
         /\ Compare(v, w) < 0 <=> LessThan(v, w)
BY DEF LessThan, Compare, Version

\* It is a strict linear order.
LEMMA LessThanIsLinear ==
  ASSUME NEW u \in Version, NEW v \in Version, NEW w \in Version
  PROVE  /\ ~LessThan(v, v)
         /\ LessThan(u, v) /\ LessThan(v, w) => LessThan(u, w)
         /\ LessThan(v, w) \/ LessThan(w, v) \/ v = w
         /\ ~(LessThan(v, w) /\ LessThan(w, v))
         /\ ~LessThan(v, u) /\ ~LessThan(w, v) => ~LessThan(w, u)
<1>1. /\ ~LessThan(v, v)
      /\ LessThan(u, v) /\ LessThan(v, w) => LessThan(u, w)
      /\ ~(LessThan(v, w) /\ LessThan(w, v))
  BY LessThanIsLexicographic DEF Version
<1>2. LessThan(v, w) \/ LessThan(w, v) \/ v = w
  BY LessThanIsLexicographic DEF Version
<1>3. ~LessThan(v, u) /\ ~LessThan(w, v) => ~LessThan(w, u)
  BY LessThanIsLexicographic DEF Version
<1> QED
  BY <1>1, <1>2, <1>3

\* Range.Intersect is exactly conjunction: a version is in the result iff it is
\* in both ranges, ok = false means no version whatever is in both, and
\* ok = true that some version is.
THEOREM IntersectIsExact ==
  ASSUME NEW r \in VersionRange, NEW s \in VersionRange, NEW v \in Version
  PROVE  /\ Intersect(r, s).ok =>
              (Contains(Intersect(r, s).range, v) <=> Contains(r, v) /\ Contains(s, v))
         /\ ~Intersect(r, s).ok => ~(Contains(r, v) /\ Contains(s, v))
         /\ Intersect(r, s).ok =>
              \E w \in {r.lower, s.lower} : Contains(r, w) /\ Contains(s, w)
<1> DEFINE lo == IF Compare(s.lower, r.lower) > 0 THEN s.lower ELSE r.lower
           up == IF r.unbounded THEN s.upper
                 ELSE IF ~s.unbounded /\ Compare(s.upper, r.upper) < 0
                      THEN s.upper ELSE r.upper
<1>0. /\ r.lower \in Version /\ r.upper \in Version /\ r.unbounded \in BOOLEAN
      /\ s.lower \in Version /\ s.upper \in Version /\ s.unbounded \in BOOLEAN
  BY DEF VersionRange
<1>1. lo \in Version /\ up \in Version /\ lo \in {r.lower, s.lower}
  BY <1>0
<1>2. ASSUME NEW x \in Version
      PROVE  ~LessThan(x, lo) <=> ~LessThan(x, r.lower) /\ ~LessThan(x, s.lower)
  <2>1. CASE Compare(s.lower, r.lower) > 0
    BY <1>0, <2>1, LessThanIsLexicographic, LessThanIsLinear
  <2>2. CASE ~(Compare(s.lower, r.lower) > 0)
    BY <1>0, <2>2, LessThanIsLexicographic, LessThanIsLinear
  <2> QED
    BY <2>1, <2>2
<1>3. ASSUME NEW x \in Version, ~(r.unbounded /\ s.unbounded)
      PROVE  LessThan(x, up) <=> /\ r.unbounded \/ LessThan(x, r.upper)
                                 /\ s.unbounded \/ LessThan(x, s.upper)
  BY <1>0, <1>3, LessThanIsLexicographic, LessThanIsLinear
<1>4. CASE r.unbounded /\ s.unbounded
  <2>1. Intersect(r, s) = [ok |-> TRUE, range |-> From(lo)]
    BY <1>4 DEF Intersect
  <2>2. ASSUME NEW x \in Version
        PROVE  /\ Contains(From(lo), x) <=> Contains(r, x) /\ Contains(s, x)
               /\ Contains(From(lo), lo)
    BY <1>1, <1>2, <1>4, LessThanIsLinear DEF Contains, From
  <2> HIDE DEF lo
  <2> QED
    BY <1>1, <2>1, <2>2
<1>5. CASE ~(r.unbounded /\ s.unbounded)
  <2>1. Intersect(r, s) = [ok |-> LessThan(lo, up), range |-> Between(lo, up)]
    BY <1>5 DEF Intersect
  <2>2. ASSUME NEW x \in Version
        PROVE  Contains(Between(lo, up), x) <=> Contains(r, x) /\ Contains(s, x)
    BY <1>2, <1>3, <1>5 DEF Contains, Between
  <2>3. ~LessThan(lo, up) => ~Contains(Between(lo, up), v)
    BY <1>1, LessThanIsLinear DEF Contains, Between
  <2>4. LessThan(lo, up) => Contains(Between(lo, up), lo)
    BY <1>1, LessThanIsLinear DEF Contains, Between
  <2> HIDE DEF lo, up
  <2> QED
    BY <1>1, <2>1, <2>2, <2>3, <2>4
<1> QED
  BY <1>4, <1>5

-----------------------------------------------------------------------------
(* The choice of a version *)

\* Of the candidates from[1] .. from[i], got is the one to choose.
Chosen(got, r, from, i) ==
  \/ /\ got = <<>>
     /\ \A j \in 1 .. i : ~Contains(r, from[j])
  \/ \E k \in 1 .. i :
       /\ got = <<from[k]>>
       /\ Contains(r, from[k])
       /\ \A j \in 1 .. i : Contains(r, from[j]) => ~LessThan(from[k], from[j])

\* One turn of the loop of SelectLatest.
LEMMA ChosenStep ==
  ASSUME NEW r \in VersionRange, NEW from \in Seq(Version),
         NEW i \in 1 .. Len(from), NEW got, Chosen(got, r, from, i - 1)
  PROVE  Chosen(IF Contains(r, from[i]) /\ (got = <<>> \/ LessThan(got[1], from[i]))
                  THEN <<from[i]>> ELSE got, r, from, i)
<1> DEFINE c == from[i]
<1>0. \A j \in 1 .. i : from[j] \in Version
  OBVIOUS
<1>1. \A j \in 1 .. i : j \in 1 .. i - 1 \/ j = i
  OBVIOUS
<1>2. CASE got = <<>> /\ \A j \in 1 .. i - 1 : ~Contains(r, from[j])
  <2>1. CASE Contains(r, c)
    <3>1. ~LessThan(c, c)
      BY <1>0, LessThanIsLinear
    <3>2. \A j \in 1 .. i : Contains(r, from[j]) => j = i
      BY <1>1, <1>2
    <3> QED
      BY <1>2, <2>1, <3>1, <3>2 DEF Chosen
  <2>2. CASE ~Contains(r, c)
    BY <1>1, <1>2, <2>2 DEF Chosen
  <2> QED
    BY <2>1, <2>2
<1>3. ASSUME NEW k \in 1 .. i - 1, got = <<from[k]>>, Contains(r, from[k]),
             \A j \in 1 .. i - 1 : Contains(r, from[j]) => ~LessThan(from[k], from[j])
      PROVE  Chosen(IF Contains(r, c) /\ LessThan(from[k], c) THEN <<c>> ELSE got, r, from, i)
  <2>1. CASE Contains(r, c) /\ LessThan(from[k], c)
    <3>1. \A j \in 1 .. i : Contains(r, from[j]) => ~LessThan(c, from[j])
      BY <1>0, <1>1, <1>3, <2>1, LessThanIsLinear
    <3> QED
      BY <2>1, <3>1 DEF Chosen
  <2>2. CASE ~(Contains(r, c) /\ LessThan(from[k], c))
    <3>1. \A j \in 1 .. i : Contains(r, from[j]) => ~LessThan(from[k], from[j])
      BY <1>1, <1>3, <2>2
    <3>2. k \in 1 .. i
      OBVIOUS
    <3> QED
      BY <1>3, <2>2, <3>1, <3>2 DEF Chosen
  <2> QED
    BY <2>1, <2>2
<1>4. ASSUME NEW k \in 1 .. i - 1, got = <<from[k]>>
      PROVE  got # <<>> /\ got[1] = from[k]
  BY <1>4
<1> QED
  BY <1>2, <1>3, <1>4 DEF Chosen

\* Range.SelectLatest: for every range and every list, in whatever order, the
\* result is a listed version in the range that none in the range exceeds, and
\* is empty only when no listed version is in the range.
THEOREM SelectLatestIsExact ==
  ASSUME NEW r \in VersionRange, NEW candidates \in Seq(Version)
  PROVE  Chosen(SelectLatest(r, candidates), r, candidates, Len(candidates))
<1> DEFINE n == Len(candidates)
           V == {<<>>} \cup {<<v>> : v \in Version}
           turn(got, c) == IF Contains(r, c) /\ (got = <<>> \/ LessThan(got[1], c))
                             THEN <<c>> ELSE got
           step == [i \in 1 .. n |-> [got \in V |-> turn(got, candidates[i])]]
           best == CHOOSE g : g = [i \in 0 .. n |->
                     IF i = 0 THEN <<>>
                     ELSE IF Contains(r, candidates[i])
                             /\ (g[i - 1] = <<>> \/ LessThan(g[i - 1][1], candidates[i]))
                       THEN <<candidates[i]>> ELSE g[i - 1]]
<1>1. n \in Nat /\ <<>> \in V /\ step \in [1 .. n -> [V -> V]]
  OBVIOUS
<1>2. PICK g \in [0 .. n -> V] : IsLoop(g, n, <<>>, step)
  <2> HIDE DEF step, V
  <2> QED
    BY <1>1, LoopExists
<1>3. g[0] = <<>> /\ \A i \in 1 .. n : g[i] = turn(g[i - 1], candidates[i])
  <2>1. \A i \in 1 .. n : g[i - 1] \in V
    BY <1>2
  <2> QED
    BY <1>2, <2>1 DEF IsLoop
<1>4. g = [i \in 0 .. n |-> IF i = 0 THEN <<>> ELSE turn(g[i - 1], candidates[i])]
  <2> HIDE DEF turn, V
  <2>1. \A i \in 0 .. n : g[i] = IF i = 0 THEN <<>> ELSE turn(g[i - 1], candidates[i])
    BY <1>1, <1>3
  <2> QED
    BY <2>1
<1>5. best = [i \in 0 .. n |-> IF i = 0 THEN <<>> ELSE turn(best[i - 1], candidates[i])]
  BY <1>4
<1>6. SelectLatest(r, candidates) = best[n]
  BY DEF SelectLatest
<1>7. best[0] = <<>> /\ \A i \in 1 .. n : best[i] = turn(best[i - 1], candidates[i])
  <2> HIDE DEF best
  <2> QED
    BY <1>1, <1>5
<1> HIDE DEF best
<1> DEFINE S == {i \in 0 .. n : Chosen(best[i], r, candidates, i)}
<1>8. 0 \in S
  BY <1>7 DEF Chosen
<1>9. \A i \in 1 .. n : i - 1 \in S => i \in S
  BY <1>7, ChosenStep
<1>10. 0 .. n \subseteq S
  <2> HIDE DEF S
  <2> QED
    BY <1>1, <1>8, <1>9, PrefixInduction
<1> QED
  BY <1>1, <1>6, <1>10

-----------------------------------------------------------------------------
(* Ranges mean what their documentation says *)

\* A version as a number orders like its components: two digits, then three.
LEMMA DigitOrder ==
  ASSUME NEW b \in Nat, NEW x \in Nat, NEW y \in Nat, NEW c \in 0 .. b - 1, NEW d \in 0 .. b - 1
  PROVE  x * b + c < y * b + d <=> x < y \/ (x = y /\ c < d)
<1>1. ASSUME NEW u \in Nat, NEW v \in Nat, u < v PROVE u * b + b <= v * b
  <2>1. PICK k \in Nat : v = u + 1 + k
    <3>1. v - u - 1 \in Nat /\ v = u + 1 + (v - u - 1)
      BY <1>1
    <3> QED
      BY <3>1
  <2>2. (u + 1 + k) * b = u * b + b + k * b
    OBVIOUS
  <2>3. k * b \in Nat /\ u * b \in Nat
    OBVIOUS
  <2> QED
    BY <2>1, <2>2, <2>3
<1>2. x * b \in Nat /\ y * b \in Nat
  OBVIOUS
<1>3. CASE x < y
  <2>1. x * b + b <= y * b
    BY <1>1, <1>3
  <2> QED
    BY <1>2, <1>3, <2>1
<1>4. CASE y < x
  <2>1. y * b + b <= x * b
    BY <1>1, <1>4
  <2> QED
    BY <1>2, <1>4, <2>1
<1>5. CASE x = y
  BY <1>2, <1>5
<1> QED
  BY <1>3, <1>4, <1>5

\* Versions whose components are digits.
Ranked == {v \in Version : v.major < B /\ v.minor < B /\ v.patch < B}

LEMMA RankOrder ==
  ASSUME NEW v \in Ranked, NEW w \in Ranked
  PROVE  Rank(v) \in Nat /\ (Rank(v) < Rank(w) <=> LessThan(v, w))
<1>0. B \in Nat /\ v \in Version /\ w \in Version
  BY TopAssumption DEF B, Ranked
<1>1. PICK a \in Nat, b \in 0 .. B - 1, c \in 0 .. B - 1 : a = v.major /\ b = v.minor /\ c = v.patch
  BY <1>0 DEF Ranked, Version
<1>2. PICK d \in Nat, e \in 0 .. B - 1, f \in 0 .. B - 1 : d = w.major /\ e = w.minor /\ f = w.patch
  BY <1>0 DEF Ranked, Version
<1>3. a * B + b \in Nat /\ d * B + e \in Nat
  BY <1>0
<1>4. (a * B + b) * B + c < (d * B + e) * B + f
        <=> (a * B + b < d * B + e) \/ (a * B + b = d * B + e /\ c < f)
  BY <1>0, <1>3, DigitOrder
<1>5. /\ a * B + b < d * B + e <=> a < d \/ (a = d /\ b < e)
      /\ d * B + e < a * B + b <=> d < a \/ (d = a /\ e < b)
  BY <1>0, DigitOrder
<1>6. a * B + b = d * B + e <=> a = d /\ b = e
  BY <1>3, <1>5
<1>7. Rank(v) = (a * B + b) * B + c /\ Rank(w) = (d * B + e) * B + f
  BY <1>1, <1>2 DEF Rank
<1>8. Rank(v) \in Nat
  BY <1>0, <1>3, <1>7
<1> QED
  BY <1>0, <1>1, <1>2, <1>4, <1>5, <1>6, <1>7, <1>8, LessThanIsLexicographic

\* The bounds of the prefix forms admit what their documentation says.
LEMMA ExactMeans ==
  ASSUME NEW w \in Version, NEW v \in Version
  PROVE  Contains(Between(w, ExactUpper(w)), v) <=> v = w
<1>1. ExactUpper(w) \in Version
  BY DEF ExactUpper, Ver, Version
<1>2. LessThan(v, ExactUpper(w)) <=>
        \/ v.major < w.major
        \/ v.major = w.major /\ v.minor < w.minor
        \/ v.major = w.major /\ v.minor = w.minor /\ v.patch < w.patch + 1
  BY <1>1, LessThanIsLexicographic DEF ExactUpper, Ver
<1>3. Contains(Between(w, ExactUpper(w)), v) <=>
        v.major = w.major /\ v.minor = w.minor /\ v.patch = w.patch
  BY <1>2, LessThanIsLexicographic DEF Contains, Between, Version
<1> QED
  BY <1>3 DEF Version

LEMMA TildeMeans ==
  ASSUME NEW w \in Version, NEW v \in Version
  PROVE  Contains(Between(w, TildeUpper(w)), v) <=>
           v.major = w.major /\ v.minor = w.minor /\ v.patch >= w.patch
<1>1. TildeUpper(w) \in Version
  BY DEF TildeUpper, Ver, Version
<1>2. LessThan(v, TildeUpper(w)) <=>
        v.major < w.major \/ (v.major = w.major /\ v.minor < w.minor + 1)
  BY <1>1, LessThanIsLexicographic DEF TildeUpper, Ver, Version
<1> QED
  BY <1>2, LessThanIsLexicographic DEF Contains, Between, Version

LEMMA CaretMeans ==
  ASSUME NEW w \in Version, NEW v \in Version
  PROVE  Contains(Between(w, CaretUpper(w)), v) <=>
           /\ ~LessThan(v, w)
           /\ v.major = w.major
           /\ w.major = 0 => v.minor = w.minor
           /\ w.major = 0 /\ w.minor = 0 => v.patch = w.patch
<1>1. CaretUpper(w) \in Version
  BY DEF CaretUpper, Ver, Version
<1>2. CASE w.major # 0
  <2>1. LessThan(v, CaretUpper(w)) <=> v.major < w.major + 1
    BY <1>1, <1>2, LessThanIsLexicographic DEF CaretUpper, Ver, Version
  <2> QED
    BY <1>2, <2>1, LessThanIsLexicographic DEF Contains, Between, Version
<1>3. CASE w.major = 0 /\ w.minor # 0
  <2>1. LessThan(v, CaretUpper(w)) <=> v.major = 0 /\ v.minor < w.minor + 1
    BY <1>1, <1>3, LessThanIsLexicographic DEF CaretUpper, Ver, Version
  <2> QED
    BY <1>3, <2>1, LessThanIsLexicographic DEF Contains, Between, Version
<1>4. CASE w.major = 0 /\ w.minor = 0
  <2>1. LessThan(v, CaretUpper(w)) <=> v.major = 0 /\ v.minor = 0 /\ v.patch < w.patch + 1
    BY <1>1, <1>4, LessThanIsLexicographic DEF CaretUpper, Ver, Version
  <2> QED
    BY <1>4, <2>1, LessThanIsLexicographic DEF Contains, Between, Version
<1> QED
  BY <1>2, <1>3, <1>4

\* A clause of a compound range.
Clause == [op : {">=", "<", "="}, base : Version]

\* Applying a clause keeps a range a range.
LEMMA ApplyClauseTyped ==
  ASSUME NEW r \in VersionRange, NEW c \in Clause
  PROVE  ApplyClause(r, c) \in VersionRange
<1>0. /\ r.lower \in Version /\ r.upper \in Version /\ r.unbounded \in BOOLEAN
      /\ c.base \in Version
  BY DEF VersionRange, Clause
<1>1. CASE c.op = ">="
  <2>1. ApplyClause(r, c) = [r EXCEPT !.lower = c.base]
    BY <1>1 DEF ApplyClause
  <2> QED
    BY <1>0, <2>1 DEF VersionRange
<1>2. CASE c.op = "<"
  <2>1. ApplyClause(r, c) = Between(r.lower, c.base)
    BY <1>2 DEF ApplyClause
  <2> QED
    BY <1>0, <2>1 DEF VersionRange, Between
<1>3. CASE c.op = "="
  <2>1. ApplyClause(r, c) = Between(c.base, ExactUpper(c.base))
    BY <1>3 DEF ApplyClause
  <2> QED
    BY <1>0, <2>1 DEF VersionRange, Between, ExactUpper, Ver, Version
<1> QED
  BY <1>1, <1>2, <1>3 DEF Clause

\* What each kind of clause does to a range.
AtLeast(w) == [op |-> ">=", base |-> w]
Below(w)   == [op |-> "<", base |-> w]
Exactly(w) == [op |-> "=", base |-> w]

LEMMA ClauseApplied ==
  ASSUME NEW r \in VersionRange, NEW w \in Version
  PROVE  /\ AtLeast(w) \in Clause /\ Below(w) \in Clause /\ Exactly(w) \in Clause
         /\ ApplyClause(r, AtLeast(w)) = [lower |-> w, upper |-> r.upper, unbounded |-> r.unbounded]
         /\ ApplyClause(r, Below(w)) = Between(r.lower, w)
         /\ ApplyClause(r, Exactly(w)) = Between(w, ExactUpper(w))
<1>1. AtLeast(w) \in Clause /\ Below(w) \in Clause /\ Exactly(w) \in Clause
  BY DEF AtLeast, Below, Exactly, Clause
<1>2. AtLeast(w).op = ">=" /\ AtLeast(w).base = w
  BY DEF AtLeast
<1>3. Below(w).op = "<" /\ Below(w).base = w
  BY DEF Below
<1>4. Exactly(w).op = "=" /\ Exactly(w).base = w
  BY DEF Exactly
<1>5. ApplyClause(r, AtLeast(w)) = [r EXCEPT !.lower = w]
  BY <1>2 DEF ApplyClause
<1>6. [r EXCEPT !.lower = w] = [lower |-> w, upper |-> r.upper, unbounded |-> r.unbounded]
  BY DEF VersionRange
<1>7. ApplyClause(r, Below(w)) = Between(r.lower, w)
  BY <1>3 DEF ApplyClause
<1>8. ApplyClause(r, Exactly(w)) = Between(w, ExactUpper(w))
  BY <1>4 DEF ApplyClause
<1> QED
  BY <1>1, <1>5, <1>6, <1>7, <1>8

\* The loop of parseCompoundRange applies one clause after the other.
LEMMA CompoundIsALoop ==
  ASSUME NEW clauses \in Seq(Clause)
  PROVE  \E g \in [0 .. Len(clauses) -> VersionRange] :
           /\ g[0] = From(Zero0)
           /\ \A i \in 1 .. Len(clauses) : g[i] = ApplyClause(g[i - 1], clauses[i])
           /\ parseCompoundRange(clauses) = g[Len(clauses)]
<1> DEFINE n == Len(clauses)
           step == [i \in 1 .. n |-> [r \in VersionRange |-> ApplyClause(r, clauses[i])]]
           range == CHOOSE g : g = [i \in 0 .. n |->
                      IF i = 0 THEN From(Zero0) ELSE ApplyClause(g[i - 1], clauses[i])]
<1>1. n \in Nat /\ From(Zero0) \in VersionRange
  BY DEF From, Zero0, Ver, VersionRange, Version
<1>2. step \in [1 .. n -> [VersionRange -> VersionRange]]
  <2>1. \A i \in 1 .. n : clauses[i] \in Clause
    OBVIOUS
  <2> QED
    BY <2>1, ApplyClauseTyped
<1>3. PICK g \in [0 .. n -> VersionRange] : IsLoop(g, n, From(Zero0), step)
  <2> HIDE DEF step
  <2> QED
    BY <1>1, <1>2, LoopExists
<1>4. /\ g[0] = From(Zero0)
      /\ \A i \in 1 .. n : g[i] = ApplyClause(g[i - 1], clauses[i])
  <2>1. \A i \in 1 .. n : g[i - 1] \in VersionRange
    BY <1>3
  <2> QED
    BY <1>3, <2>1 DEF IsLoop
<1>5. g = [i \in 0 .. n |-> IF i = 0 THEN From(Zero0) ELSE ApplyClause(g[i - 1], clauses[i])]
  <2>1. \A i \in 0 .. n :
          g[i] = IF i = 0 THEN From(Zero0) ELSE ApplyClause(g[i - 1], clauses[i])
    BY <1>1, <1>4
  <2> QED
    BY <2>1
<1>6. range = [i \in 0 .. n |->
                 IF i = 0 THEN From(Zero0) ELSE ApplyClause(range[i - 1], clauses[i])]
  BY <1>5
<1>7. parseCompoundRange(clauses) = range[n]
  BY DEF parseCompoundRange
<1> HIDE DEF range
<1> DEFINE S == {i \in 0 .. n : range[i] = g[i]}
<1>8. 0 \in S
  BY <1>1, <1>4, <1>6
<1>9. \A i \in 1 .. n : i - 1 \in S => i \in S
  BY <1>1, <1>4, <1>6
<1>10. 0 .. n \subseteq S
  <2> HIDE DEF S
  <2> QED
    BY <1>1, <1>8, <1>9, PrefixInduction
<1>11. range[n] = g[n]
  BY <1>1, <1>10
<1> QED
  BY <1>4, <1>7, <1>11

\* The components of the versions that specs are drawn from, and of the
\* versions around their bounds, are digits.
LEMMA VersionsDrawn ==
  /\ Small \subseteq Probe /\ Probe \subseteq Ranked /\ Ranked \subseteq Version
  /\ \A v \in Small : v.major \in 0 .. Top /\ v.minor \in 0 .. Top /\ v.patch \in 0 .. Top
BY TopAssumption DEF Small, Probe, Ranked, Ver, Version, B

\* The two clauses of a compound spec, in either order, or its only one.
LEMMA CompoundMeans ==
  ASSUME NEW cs \in Clauses, NEW v \in Ranked
  PROVE  /\ parseCompoundRange(cs) \in VersionRange
         /\ parseCompoundRange(cs).lower \in Probe
         /\ Contains(parseCompoundRange(cs), v) <=>
              \A i \in DOMAIN cs : Admits(cs[i], v)
<1>0. B \in Nat /\ Zero0 \in Probe /\ Zero0 \in Version /\ v \in Version
  BY TopAssumption, VersionsDrawn DEF B, Zero0, Ver, Probe
<1>1. \A w \in Small : w \in Ranked /\ w \in Version /\ w \in Probe
  BY VersionsDrawn
<1>2. ASSUME NEW w \in Small
      PROVE  /\ Admits(AtLeast(w), v) <=> ~LessThan(v, w)
             /\ Admits(Below(w), v) <=> LessThan(v, w)
             /\ Admits(Exactly(w), v) <=> v = w
  <2>1. Rank(v) \in Nat /\ Rank(w) \in Nat /\ (Rank(v) < Rank(w) <=> LessThan(v, w))
    BY <1>1, RankOrder
  <2> QED
    BY <2>1 DEF Admits, AtLeast, Below, Exactly
<1>3. ~LessThan(v, Zero0)
  BY <1>0, LessThanIsLexicographic DEF Zero0, Ver, Version
<1>4. From(Zero0) \in VersionRange
  BY <1>0 DEF From, VersionRange
<1>5. ASSUME NEW c \in Clause
      PROVE  /\ parseCompoundRange(<<c>>) = ApplyClause(From(Zero0), c)
             /\ (\A i \in DOMAIN <<c>> : Admits(<<c>>[i], v)) <=> Admits(c, v)
             /\ <<c>> \in Seq(Clause)
  <2>1. PICK s \in Seq(Clause) : s = <<c>> /\ Len(s) = 1 /\ s[1] = c /\ DOMAIN s = {1}
    <3>1. <<c>> \in Seq(Clause) /\ Len(<<c>>) = 1 /\ <<c>>[1] = c /\ DOMAIN <<c>> = {1}
      OBVIOUS
    <3> QED
      BY <3>1
  <2>2. PICK g \in [0 .. 1 -> VersionRange] :
          /\ g[0] = From(Zero0) /\ \A i \in 1 .. 1 : g[i] = ApplyClause(g[i - 1], s[i])
          /\ parseCompoundRange(s) = g[1]
    BY <2>1, CompoundIsALoop
  <2>3. g[1] = ApplyClause(g[0], s[1])
    BY <2>2
  <2>4. (\A i \in DOMAIN s : Admits(s[i], v)) <=> Admits(c, v)
    BY <2>1
  <2> QED
    BY <2>1, <2>2, <2>3, <2>4
<1>6. ASSUME NEW c \in Clause, NEW d \in Clause
      PROVE  /\ parseCompoundRange(<<c, d>>) = ApplyClause(ApplyClause(From(Zero0), c), d)
             /\ (\A i \in DOMAIN <<c, d>> : Admits(<<c, d>>[i], v))
                  <=> Admits(c, v) /\ Admits(d, v)
             /\ <<c, d>> \in Seq(Clause)
  <2>1. PICK s \in Seq(Clause) :
          s = <<c, d>> /\ Len(s) = 2 /\ s[1] = c /\ s[2] = d /\ DOMAIN s = {1, 2}
    <3>1. /\ <<c, d>> \in Seq(Clause) /\ Len(<<c, d>>) = 2
          /\ <<c, d>>[1] = c /\ <<c, d>>[2] = d /\ DOMAIN <<c, d>> = {1, 2}
      OBVIOUS
    <3> QED
      BY <3>1
  <2>2. PICK g \in [0 .. 2 -> VersionRange] :
          /\ g[0] = From(Zero0) /\ \A i \in 1 .. 2 : g[i] = ApplyClause(g[i - 1], s[i])
          /\ parseCompoundRange(s) = g[2]
    BY <2>1, CompoundIsALoop
  <2>3. g[1] = ApplyClause(g[0], s[1]) /\ g[2] = ApplyClause(g[1], s[2])
    BY <2>2
  <2>4. (\A i \in DOMAIN s : Admits(s[i], v)) <=> Admits(c, v) /\ Admits(d, v)
    BY <2>1
  <2> QED
    BY <2>1, <2>2, <2>3, <2>4
<1>7. cs \in Seq(Clause) => parseCompoundRange(cs) \in VersionRange
  BY CompoundIsALoop
<1>8. ASSUME NEW w \in Small, cs = <<AtLeast(w)>>
      PROVE  /\ parseCompoundRange(cs) \in VersionRange
             /\ parseCompoundRange(cs).lower \in Probe
             /\ Contains(parseCompoundRange(cs), v) <=> \A i \in DOMAIN cs : Admits(cs[i], v)
  <2>1. AtLeast(w) \in Clause /\ ApplyClause(From(Zero0), AtLeast(w)) = From(w)
    BY <1>1, <1>4, ClauseApplied DEF From
  <2>2. parseCompoundRange(cs) = From(w)
    BY <1>5, <1>8, <2>1
  <2>3. From(w).lower = w /\ (Contains(From(w), v) <=> ~LessThan(v, w))
    BY DEF Contains, From
  <2> QED
    BY <1>1, <1>2, <1>5, <1>7, <1>8, <2>1, <2>2, <2>3
<1>9. ASSUME NEW w \in Small, cs = <<Below(w)>>
      PROVE  /\ parseCompoundRange(cs) \in VersionRange
             /\ parseCompoundRange(cs).lower \in Probe
             /\ Contains(parseCompoundRange(cs), v) <=> \A i \in DOMAIN cs : Admits(cs[i], v)
  <2>1. Below(w) \in Clause /\ ApplyClause(From(Zero0), Below(w)) = Between(Zero0, w)
    BY <1>1, <1>4, ClauseApplied DEF From
  <2>2. parseCompoundRange(cs) = Between(Zero0, w)
    BY <1>5, <1>9, <2>1
  <2>3. /\ Between(Zero0, w).lower = Zero0
        /\ Contains(Between(Zero0, w), v) <=> LessThan(v, w)
    BY <1>3 DEF Contains, Between
  <2> QED
    BY <1>0, <1>2, <1>5, <1>7, <1>9, <2>1, <2>2, <2>3
<1>10. ASSUME NEW w \in Small, cs = <<Exactly(w)>>
       PROVE  /\ parseCompoundRange(cs) \in VersionRange
              /\ parseCompoundRange(cs).lower \in Probe
              /\ Contains(parseCompoundRange(cs), v) <=> \A i \in DOMAIN cs : Admits(cs[i], v)
  <2>1. /\ Exactly(w) \in Clause
        /\ ApplyClause(From(Zero0), Exactly(w)) = Between(w, ExactUpper(w))
    BY <1>1, <1>4, ClauseApplied
  <2>2. parseCompoundRange(cs) = Between(w, ExactUpper(w))
    BY <1>5, <1>10, <2>1
  <2>3. Contains(Between(w, ExactUpper(w)), v) <=> v = w
    BY <1>0, <1>1, ExactMeans
  <2>4. Between(w, ExactUpper(w)).lower = w
    BY DEF Between
  <2> QED
    BY <1>1, <1>2, <1>5, <1>7, <1>10, <2>1, <2>2, <2>3, <2>4
<1>11. ASSUME NEW w \in Small, NEW u \in Small,
              cs = <<AtLeast(w), Below(u)>> \/ cs = <<Below(u), AtLeast(w)>>
       PROVE  /\ parseCompoundRange(cs) \in VersionRange
              /\ parseCompoundRange(cs).lower \in Probe
              /\ Contains(parseCompoundRange(cs), v) <=> \A i \in DOMAIN cs : Admits(cs[i], v)
  <2>1. AtLeast(w) \in Clause /\ Below(u) \in Clause
    BY <1>1, <1>4, ClauseApplied
  <2>2. ApplyClause(ApplyClause(From(Zero0), AtLeast(w)), Below(u)) = Between(w, u)
    <3>1. ApplyClause(From(Zero0), AtLeast(w)) = From(w)
      BY <1>1, <1>4, ClauseApplied DEF From
    <3>2. From(w) \in VersionRange /\ From(w).lower = w
      BY <1>0, <1>1 DEF From, VersionRange
    <3> QED
      BY <1>1, <3>1, <3>2, ClauseApplied
  <2>3. ApplyClause(ApplyClause(From(Zero0), Below(u)), AtLeast(w)) = Between(w, u)
    <3>1. ApplyClause(From(Zero0), Below(u)) = Between(Zero0, u)
      BY <1>1, <1>4, ClauseApplied DEF From
    <3>2. /\ Between(Zero0, u) \in VersionRange
          /\ Between(Zero0, u).upper = u /\ Between(Zero0, u).unbounded = FALSE
      BY <1>0, <1>1 DEF Between, VersionRange
    <3>3. ApplyClause(Between(Zero0, u), AtLeast(w)) =
            [lower |-> w, upper |-> Between(Zero0, u).upper, unbounded |-> Between(Zero0, u).unbounded]
      BY <1>1, <3>2, ClauseApplied
    <3> QED
      BY <3>1, <3>2, <3>3 DEF Between
  <2>4. parseCompoundRange(cs) = Between(w, u)
    BY <1>6, <1>11, <2>1, <2>2, <2>3
  <2>5. /\ Between(w, u).lower = w
        /\ Contains(Between(w, u), v) <=> ~LessThan(v, w) /\ LessThan(v, u)
    BY DEF Contains, Between
  <2>6. (\A i \in DOMAIN cs : Admits(cs[i], v)) <=> Admits(AtLeast(w), v) /\ Admits(Below(u), v)
    BY <1>6, <1>11, <2>1
  <2>7. cs \in Seq(Clause)
    BY <1>6, <1>11, <2>1
  <2> QED
    BY <1>1, <1>2, <1>7, <2>4, <2>5, <2>6, <2>7
<1>12. \/ \E w \in Small : cs = <<AtLeast(w)>>
       \/ \E w \in Small : cs = <<Below(w)>>
       \/ \E w \in Small : cs = <<Exactly(w)>>
       \/ \E w \in Small, u \in Small : cs = <<AtLeast(w), Below(u)>> \/ cs = <<Below(u), AtLeast(w)>>
  BY DEF Clauses, AtLeast, Below, Exactly
<1> QED
  BY <1>8, <1>9, <1>10, <1>11, <1>12

\* ParseRange, on every spec that can be drawn.
LEMMA ParsedRange ==
  ASSUME NEW spec \in Specs, NEW v \in Ranked
  PROVE  /\ ParseRange(spec) \in VersionRange
         /\ ParseRange(spec).lower \in Probe
         /\ Contains(ParseRange(spec), v) <=> Means(spec, v)
<1>0. Zero0 \in Probe /\ Zero0 \in Version /\ v \in Version
  BY TopAssumption, VersionsDrawn DEF Zero0, Ver, Probe
<1>1. \A w \in Small : w \in Ranked /\ w \in Version /\ w \in Probe
  BY VersionsDrawn
<1>2. CASE spec = [form |-> "*"]
  <2>1. ParseRange(spec) = From(Zero0) /\ (Means(spec, v) <=> TRUE)
    BY <1>2 DEF ParseRange, Means
  <2>2. ~LessThan(v, Zero0)
    BY <1>0, LessThanIsLexicographic DEF Zero0, Ver, Version
  <2>3. /\ From(Zero0) \in VersionRange /\ From(Zero0).lower = Zero0
        /\ Contains(From(Zero0), v)
    BY <1>0, <2>2 DEF From, VersionRange, Contains
  <2> QED
    BY <1>0, <2>1, <2>3
<1>3. ASSUME NEW w \in Small, spec = [form |-> "exact", base |-> w]
      PROVE  /\ ParseRange(spec) \in VersionRange
             /\ ParseRange(spec).lower \in Probe
             /\ Contains(ParseRange(spec), v) <=> Means(spec, v)
  <2>1. ParseRange(spec) = Between(w, ExactUpper(w)) /\ (Means(spec, v) <=> v = w)
    BY <1>3 DEF ParseRange, Means
  <2>2. ExactUpper(w) \in Version
    BY <1>1 DEF ExactUpper, Ver, Version
  <2>3. /\ Between(w, ExactUpper(w)) \in VersionRange
        /\ Between(w, ExactUpper(w)).lower = w
    BY <1>1, <2>2 DEF Between, VersionRange
  <2> QED
    BY <1>0, <1>1, <2>1, <2>3, ExactMeans
<1>4. ASSUME NEW w \in Small, spec = [form |-> "~", base |-> w]
      PROVE  /\ ParseRange(spec) \in VersionRange
             /\ ParseRange(spec).lower \in Probe
             /\ Contains(ParseRange(spec), v) <=> Means(spec, v)
  <2>1. ParseRange(spec) = Between(w, TildeUpper(w))
    BY <1>4 DEF ParseRange
  <2>2. Means(spec, v) <=> v.major = w.major /\ v.minor = w.minor /\ v.patch >= w.patch
    BY <1>4 DEF Means
  <2>3. TildeUpper(w) \in Version
    BY <1>1 DEF TildeUpper, Ver, Version
  <2>4. /\ Between(w, TildeUpper(w)) \in VersionRange
        /\ Between(w, TildeUpper(w)).lower = w
    BY <1>1, <2>3 DEF Between, VersionRange
  <2> QED
    BY <1>0, <1>1, <2>1, <2>2, <2>4, TildeMeans
<1>5. ASSUME NEW w \in Small, spec = [form |-> "^", base |-> w]
      PROVE  /\ ParseRange(spec) \in VersionRange
             /\ ParseRange(spec).lower \in Probe
             /\ Contains(ParseRange(spec), v) <=> Means(spec, v)
  <2>1. ParseRange(spec) = Between(w, CaretUpper(w))
    BY <1>5 DEF ParseRange
  <2>2. Means(spec, v) <=> /\ Rank(v) >= Rank(w)
                           /\ v.major = w.major
                           /\ w.major = 0 => v.minor = w.minor
                           /\ w.major = 0 /\ w.minor = 0 => v.patch = w.patch
    BY <1>5 DEF Means
  <2>3. CaretUpper(w) \in Version
    BY <1>1 DEF CaretUpper, Ver, Version
  <2>4. /\ Between(w, CaretUpper(w)) \in VersionRange
        /\ Between(w, CaretUpper(w)).lower = w
    BY <1>1, <2>3 DEF Between, VersionRange
  <2>5. Rank(v) >= Rank(w) <=> ~LessThan(v, w)
    <3>1. Rank(v) \in Nat /\ Rank(w) \in Nat /\ (Rank(v) < Rank(w) <=> LessThan(v, w))
      BY <1>1, RankOrder
    <3> QED
      BY <3>1
  <2> QED
    BY <1>0, <1>1, <2>1, <2>2, <2>4, <2>5, CaretMeans
<1>6. ASSUME NEW cs \in Clauses, spec = [form |-> "compound", clauses |-> cs]
      PROVE  /\ ParseRange(spec) \in VersionRange
             /\ ParseRange(spec).lower \in Probe
             /\ Contains(ParseRange(spec), v) <=> Means(spec, v)
  <2>1. ParseRange(spec) = parseCompoundRange(cs)
    BY <1>6 DEF ParseRange
  <2>2. Means(spec, v) <=> \A i \in DOMAIN cs : Admits(cs[i], v)
    BY <1>6 DEF Means
  <2> QED
    BY <2>1, <2>2, CompoundMeans
<1>7. \/ spec = [form |-> "*"]
      \/ \E w \in Small : spec = [form |-> "exact", base |-> w]
      \/ \E w \in Small : spec = [form |-> "~", base |-> w]
      \/ \E w \in Small : spec = [form |-> "^", base |-> w]
      \/ \E cs \in Clauses : spec = [form |-> "compound", clauses |-> cs]
  BY DEF Specs
<1> QED
  BY <1>2, <1>3, <1>4, <1>5, <1>6, <1>7

-----------------------------------------------------------------------------
(* The properties the drawn specs and lists are checked for *)

Drawn == left \in Specs /\ right \in Specs /\ list \in Listings

LEMMA SpecsStayDrawn == SemverSpec => []Drawn
<1>1. SemverInit => Drawn
  BY DEF SemverInit, Drawn, Specs, Listings
<1>2. Drawn /\ [SemverNext]_semverVars => Drawn'
  BY DEF Drawn, SemverNext, DrawRange, DrawSecondRange, DrawVersions, semverVars
<1> QED
  BY <1>1, <1>2, PTL DEF SemverSpec

\* ParseRange gives every form of range its documented meaning, whatever the
\* size of the version numbers.
THEOREM RangesMeanTheirDocs == SemverSpec => []ParsesAsDocumented
<1>1. Drawn => ParsesAsDocumented
  BY VersionsDrawn, ParsedRange DEF Drawn, ParsesAsDocumented
<1> QED
  BY <1>1, SpecsStayDrawn, PTL

\* Two dependents' ranges intersect in their conjunction, and Intersect reports
\* a conflict exactly when no version satisfies both.
THEOREM ConflictsAreReal == SemverSpec => []IntersectIsConjunction
<1>1. ASSUME NEW l \in Specs, NEW r \in Specs
      PROVE  LET i == Intersect(ParseRange(l), ParseRange(r))
                 both(v) == Contains(ParseRange(l), v) /\ Contains(ParseRange(r), v)
             IN  /\ i.ok => \A v \in Probe : Contains(i.range, v) <=> both(v)
                 /\ i.ok <=> \E v \in Probe : both(v)
  <2>0. Zero0 \in Ranked /\ \A v \in Probe : v \in Version
    BY TopAssumption, VersionsDrawn DEF Zero0, Ver, Probe
  <2>1. PICK p \in VersionRange : p = ParseRange(l) /\ p.lower \in Probe
    BY <2>0, ParsedRange
  <2>2. PICK q \in VersionRange : q = ParseRange(r) /\ q.lower \in Probe
    BY <2>0, ParsedRange
  <2>3. ASSUME NEW v \in Probe
        PROVE  /\ Intersect(p, q).ok =>
                    (Contains(Intersect(p, q).range, v) <=> Contains(p, v) /\ Contains(q, v))
               /\ ~Intersect(p, q).ok => ~(Contains(p, v) /\ Contains(q, v))
               /\ Intersect(p, q).ok =>
                    \E w \in {p.lower, q.lower} : Contains(p, w) /\ Contains(q, w)
    BY <2>0, IntersectIsExact
  <2>4. Zero0 \in Probe
    BY TopAssumption DEF Zero0, Ver, Probe
  <2>5. Intersect(p, q).ok <=> \E v \in Probe : Contains(p, v) /\ Contains(q, v)
    BY <2>1, <2>2, <2>3, <2>4
  <2> QED
    BY <2>1, <2>2, <2>3, <2>5
<1>2. Drawn => IntersectIsConjunction
  BY <1>1 DEF Drawn, IntersectIsConjunction
<1> QED
  BY <1>2, SpecsStayDrawn, PTL

\* From any list of published versions SelectLatest takes the greatest in the
\* range, and gives up only when there is none.
THEOREM LatestIsSelected == SemverSpec => []SelectsTheLatest
<1>1. ASSUME NEW l \in Specs, NEW from \in Listings
      PROVE  LET r == ParseRange(l)
                 fit == {from[i] : i \in {j \in DOMAIN from : Contains(r, from[j])}}
                 got == SelectLatest(r, from)
             IN  IF fit = {} THEN got = <<>>
                 ELSE Len(got) = 1 /\ got[1] \in fit /\ \A v \in fit : Rank(v) <= Rank(got[1])
  <2>0. Zero0 \in Ranked /\ \A v \in Small : v \in Ranked /\ v \in Version
    BY TopAssumption, VersionsDrawn DEF Zero0, Ver, Probe
  <2>1. PICK p \in VersionRange : p = ParseRange(l)
    BY <2>0, ParsedRange
  <2>2. from \in Seq(Small) /\ from \in Seq(Version)
    <3>1. \/ from = <<>> \/ \E v \in Small : from = <<v>>
          \/ \E v \in Small, w \in Small : from = <<v, w>>
      BY DEF Listings
    <3>2. from \in Seq(Small)
      <4>1. CASE from = <<>>
        BY <4>1
      <4>2. ASSUME NEW v \in Small, from = <<v>> PROVE from \in Seq(Small)
        BY <4>2
      <4>3. ASSUME NEW v \in Small, NEW w \in Small, from = <<v, w>> PROVE from \in Seq(Small)
        BY <4>3
      <4> QED
        BY <3>1, <4>1, <4>2, <4>3
    <3> QED
      BY <2>0, <3>2
  <2>3. PICK got : got = SelectLatest(p, from)
    OBVIOUS
  <2>4. Chosen(got, p, from, Len(from))
    BY <2>2, <2>3, SelectLatestIsExact
  <2>5. DOMAIN from = 1 .. Len(from) /\ \A j \in 1 .. Len(from) : from[j] \in Small
    BY <2>2
  <2> DEFINE fit == {from[i] : i \in {j \in DOMAIN from : Contains(p, from[j])}}
  <2>6. CASE got = <<>> /\ \A j \in 1 .. Len(from) : ~Contains(p, from[j])
    <3>1. fit = {}
      BY <2>5, <2>6
    <3> QED
      BY <2>1, <2>3, <2>6, <3>1
  <2>7. ASSUME NEW k \in 1 .. Len(from), got = <<from[k]>>, Contains(p, from[k]),
               \A j \in 1 .. Len(from) : Contains(p, from[j]) => ~LessThan(from[k], from[j])
        PROVE  fit # {} /\ Len(got) = 1 /\ got[1] \in fit /\ \A v \in fit : Rank(v) <= Rank(got[1])
    <3>1. from[k] \in fit /\ Len(got) = 1 /\ got[1] = from[k]
      BY <2>5, <2>7
    <3>2. ASSUME NEW v \in fit PROVE Rank(v) <= Rank(from[k])
      <4>1. PICK j \in 1 .. Len(from) : v = from[j] /\ Contains(p, from[j])
        BY <2>5, <3>2
      <4>2. ~LessThan(from[k], from[j]) /\ from[k] \in Ranked /\ from[j] \in Ranked
        BY <2>0, <2>5, <2>7, <4>1
      <4>3. /\ Rank(from[k]) \in Nat /\ Rank(from[j]) \in Nat
            /\ Rank(from[k]) < Rank(from[j]) <=> LessThan(from[k], from[j])
        BY <4>2, RankOrder
      <4> QED
        BY <4>1, <4>2, <4>3
    <3> QED
      BY <3>1, <3>2
  <2>8. CASE \E k \in 1 .. Len(from) :
               /\ got = <<from[k]>> /\ Contains(p, from[k])
               /\ \A j \in 1 .. Len(from) : Contains(p, from[j]) => ~LessThan(from[k], from[j])
    <3> HIDE DEF fit
    <3>1. fit # {} /\ Len(got) = 1 /\ got[1] \in fit /\ \A v \in fit : Rank(v) <= Rank(got[1])
      BY <2>7, <2>8
    <3> USE DEF fit
    <3> QED
      BY <2>1, <2>3, <3>1
  <2> QED
    BY <2>4, <2>6, <2>8 DEF Chosen
<1>2. Drawn => SelectsTheLatest
  BY <1>1 DEF Drawn, SelectsTheLatest
<1> QED
  BY <1>2, SpecsStayDrawn, PTL

-----------------------------------------------------------------------------
(* The resolver *)

Frame == [name : Names, next : Nat]

\* The dependencies of the selected version of n.
Deps(n) == Dependencies(n, selected[n])

\* Everything constraints[m] admits is admitted by r.
Tight(m, r) ==
  m \in DOMAIN constraints /\ \A v \in Version : Contains(constraints[m], v) => Contains(r, v)

\* walk has been called for this dependency and has selected a version.
Walked(d) == d.name \in DOMAIN selected /\ Tight(d.name, d.range)

\* Selected packages whose walk has returned.
Finished == DOMAIN selected \ Visiting

Types ==
  /\ registry \in Registries /\ manifest \in Manifests /\ todo \subseteq DOMAIN manifest
  /\ DOMAIN constraints \subseteq Names
  /\ \A n \in DOMAIN constraints : constraints[n] \in VersionRange
  /\ DOMAIN selected \subseteq DOMAIN constraints
  /\ \A n \in DOMAIN selected :
       \E i \in DOMAIN registry.versions[n] : registry.versions[n][i] = selected[n]
  /\ stack \in Seq(Frame)

\* A frame of walk, below frames of the packages `above': its package is
\* selected, the dependencies it has passed are walked, and all of these have
\* returned but the one above it.
FrameOK(f, above) ==
  /\ f.name \in DOMAIN selected
  /\ f.next \in 1 .. Len(Deps(f.name)) + 1
  /\ \A j \in 1 .. f.next - 1 :
       Walked(Deps(f.name)[j]) /\ Deps(f.name)[j].name \in Finished \cup above
  /\ \A m \in above : Needs(f.name, m)

Above(i) == IF i < Len(stack) THEN {stack[i + 1].name} ELSE {}

FramesOK ==
  /\ \A i, k \in DOMAIN stack : stack[i].name = stack[k].name => i = k
  /\ \A i \in DOMAIN stack : FrameOK(stack[i], Above(i))

\* What has returned has only dependencies that have.
FinishedOK ==
  \A n \in Finished : \A j \in 1 .. Len(Deps(n)) :
    Walked(Deps(n)[j]) /\ Deps(n)[j].name \in Finished

\* The root constraints are part of the conjunctions from the start.
RootsOK ==
  /\ \A n \in DOMAIN manifest : Tight(n, manifest[n])
  /\ DOMAIN manifest \ todo \subseteq DOMAIN selected

Fits == \A n \in DOMAIN selected : Contains(constraints[n], selected[n])

\* Nothing is selected without a reason.
Needed == \A n \in DOMAIN selected : n \in DOMAIN manifest \/ \E m \in DOMAIN selected : Needs(m, n)

\* Packages that have returned do not need one another in a circle.
Acyclic == \A S \in SUBSET Finished : S # {} => \E n \in S : \A m \in S : ~Needs(n, m)

Inv ==
  /\ Types
  /\ status \in {"running", "ok"} =>
       FramesOK /\ FinishedOK /\ RootsOK /\ Fits /\ Needed /\ Acyclic
  /\ status = "ok" => stack = <<>> /\ todo = {}
  /\ CycleIsReal

-----------------------------------------------------------------------------
(* Facts about one call of walk *)

\* Intersect of two ranges is a range.
LEMMA IntersectType ==
  ASSUME NEW r \in VersionRange, NEW s \in VersionRange
  PROVE  Intersect(r, s).range \in VersionRange
<1>1. /\ r.lower \in Version /\ r.upper \in Version
      /\ s.lower \in Version /\ s.upper \in Version
  BY DEF VersionRange
<1>2. \A lo, up \in Version : Between(lo, up) \in VersionRange /\ From(lo) \in VersionRange
  BY DEF Between, From, VersionRange, Version, Zero0, Ver
<1>3. \E lo, up \in Version : Intersect(r, s).range \in {Between(lo, up), From(lo)}
  <2> DEFINE lo == IF Compare(s.lower, r.lower) > 0 THEN s.lower ELSE r.lower
             up == IF r.unbounded THEN s.upper
                   ELSE IF ~s.unbounded /\ Compare(s.upper, r.upper) < 0
                        THEN s.upper ELSE r.upper
  <2>1. lo \in Version /\ up \in Version
    BY <1>1
  <2>2. Intersect(r, s).range \in {Between(lo, up), From(lo)}
    BY DEF Intersect
  <2> QED
    BY <2>1, <2>2
<1> QED
  BY <1>2, <1>3

\* The dependencies of a selected version are a list of names and ranges.
LEMMA DepsType ==
  ASSUME Types, NEW n \in DOMAIN selected
  PROVE  Deps(n) \in Seq([name : Names, range : VersionRange]) /\ selected[n] \in Version
<1>1. n \in Names /\ registry \in Registries
  BY DEF Types
<1>2. PICK i \in DOMAIN registry.versions[n] : registry.versions[n][i] = selected[n]
  BY DEF Types
<1>3. registry.versions[n] \in Seq(Version)
  BY <1>1, RegistryAssumption
<1>4. registry.deps[n][selected[n]] \in Seq([name : Names, range : VersionRange])
  BY <1>1, <1>2, RegistryAssumption
<1> QED
  BY <1>2, <1>3, <1>4 DEF Deps, Dependencies

LEMMA DepsLen == Types => \A n \in DOMAIN selected : Len(Deps(n)) \in Nat
BY DepsType

\* walk tightens the constraint of one package and nothing else.
Tightened(name, cnst) ==
  /\ DOMAIN constraints' = DOMAIN constraints \cup {name}
  /\ \A n \in DOMAIN constraints' : constraints'[n] \in VersionRange
  /\ \A n \in DOMAIN constraints \ {name} : constraints'[n] = constraints[n]
  /\ \A v \in Version : Contains(constraints'[name], v) =>
       Contains(cnst, v) /\ (name \in DOMAIN constraints => Contains(constraints[name], v))

\* The three ways in which a call of walk ends.
Stops(name) ==
  /\ selected' = selected /\ stack' = stack /\ status' \notin {"running", "ok"}
  /\ DOMAIN selected \subseteq DOMAIN constraints' /\ DOMAIN constraints' \subseteq Names
  /\ \A n \in DOMAIN constraints' : constraints'[n] \in VersionRange
  /\ status' = "cycle" => name \in Visiting

Revisits(name, cnst, rest) ==
  /\ Tightened(name, cnst) /\ name \in Finished /\ Contains(constraints'[name], selected[name])
  /\ selected' = selected /\ stack' = rest /\ status' = status

Selects(name, cnst, rest) ==
  /\ Tightened(name, cnst) /\ name \notin DOMAIN selected
  /\ \E i \in DOMAIN registry.versions[name] :
       /\ Contains(constraints'[name], registry.versions[name][i])
       /\ selected' = Set(selected, name, registry.versions[name][i])
  /\ stack' = Append(rest, [name |-> name, next |-> 1]) /\ status' = status

LEMMA WalkCases ==
  ASSUME Types, status = "running",
         NEW name \in Names, NEW cnst \in VersionRange, NEW rest, Walk(name, cnst, rest)
  PROVE  Stops(name) \/ Revisits(name, cnst, rest) \/ Selects(name, cnst, rest)
<1> DEFINE known  == name \in DOMAIN constraints
           joined == IF known THEN Intersect(constraints[name], cnst)
                              ELSE [ok |-> TRUE, range |-> cnst]
           avail  == registry.versions[name]
           chosen == SelectLatest(joined.range, avail)
<1>1. joined.range \in VersionRange
  BY IntersectType DEF Types
<1>2. joined.ok => \A v \in Version : Contains(joined.range, v) =>
                     Contains(cnst, v) /\ (known => Contains(constraints[name], v))
  BY IntersectIsExact DEF Types
<1>3. avail \in Seq(Version)
  BY RegistryAssumption DEF Types
<1>4. chosen # <<>> => \E i \in DOMAIN avail :
        chosen[1] = avail[i] /\ Contains(joined.range, avail[i])
  BY <1>1, <1>3, SelectLatestIsExact DEF Chosen
<1> HIDE DEF chosen
<1>5. CASE name \in Visiting
  <2>1. Fail("cycle") /\ stack' = stack
    BY <1>5 DEF Walk
  <2> QED
    BY <1>5, <2>1 DEF Stops, Fail, Types
<1>6. CASE name \notin Visiting /\ ~joined.ok
  <2>1. Fail("no-match") /\ stack' = stack
    BY <1>6 DEF Walk
  <2> QED
    BY <2>1 DEF Stops, Fail, Types
<1>7. CASE name \notin Visiting /\ joined.ok
  <2>1. /\ constraints' = Set(constraints, name, joined.range)
        /\ IF name \in DOMAIN selected
             THEN /\ IF StillSatisfies(name, joined.range)
                       THEN stack' = rest /\ UNCHANGED status
                       ELSE status' = "no-match" /\ UNCHANGED stack
                  /\ UNCHANGED selected
           ELSE IF avail = <<>> \/ chosen = <<>>
             THEN /\ status' = IF avail = <<>> THEN "unknown" ELSE "no-match"
                  /\ UNCHANGED <<selected, stack>>
           ELSE /\ selected' = Set(selected, name, chosen[1])
                /\ stack' = Append(rest, [name |-> name, next |-> 1])
                /\ UNCHANGED status
    BY <1>7 DEF Walk, chosen
  <2> HIDE DEF joined
  <2>2. constraints'[name] = joined.range /\ Tightened(name, cnst)
    BY <2>1, <1>1, <1>2, <1>7 DEF Tightened, Set, Types
  <2>3. /\ DOMAIN constraints' \subseteq Names
        /\ DOMAIN selected \subseteq DOMAIN constraints'
    BY <2>2 DEF Tightened, Types
  <2>4. CASE name \in DOMAIN selected /\ StillSatisfies(name, joined.range)
    BY <2>1, <2>2, <2>4, <1>7 DEF Revisits, StillSatisfies, Finished
  <2>5. CASE name \in DOMAIN selected /\ ~StillSatisfies(name, joined.range)
    BY <2>1, <2>2, <2>3, <2>5 DEF Stops, Tightened
  <2>6. CASE name \notin DOMAIN selected /\ (avail = <<>> \/ chosen = <<>>)
    BY <2>1, <2>2, <2>3, <2>6 DEF Stops, Tightened
  <2>7. CASE name \notin DOMAIN selected /\ ~(avail = <<>> \/ chosen = <<>>)
    <3>1. PICK i \in DOMAIN avail : chosen[1] = avail[i] /\ Contains(joined.range, avail[i])
      BY <1>4, <2>7
    <3>2. /\ selected' = Set(selected, name, chosen[1])
          /\ stack' = Append(rest, [name |-> name, next |-> 1])
          /\ UNCHANGED status
      BY <2>1, <2>7
    <3> QED
      BY <2>2, <2>7, <3>1, <3>2 DEF Selects
  <2> QED
    BY <2>4, <2>5, <2>6, <2>7
<1> QED
  BY <1>5, <1>6, <1>7

-----------------------------------------------------------------------------
(* What a successful call leaves as it was *)

Goes(name, cnst, rest) == Revisits(name, cnst, rest) \/ Selects(name, cnst, rest)

\* Selections are final and constraints only get tighter.
Keeps(name, cnst) ==
  /\ DOMAIN selected' = DOMAIN selected \cup {name}
  /\ \A n \in DOMAIN selected : selected'[n] = selected[n] /\ Deps(n)' = Deps(n)
  /\ \A m, r : Tight(m, r) => Tight(m, r)'
  /\ \A d : Walked(d) => Walked(d)'
  /\ Tight(name, cnst)'
  /\ \A n \in DOMAIN selected : \A m : Needs(n, m) <=> Needs(n, m)'

LEMMA WalkKeeps ==
  ASSUME Types, NEW name, NEW cnst, NEW rest, Goes(name, cnst, rest), registry' = registry
  PROVE  Keeps(name, cnst)
<1>1. Tightened(name, cnst)
  BY DEF Goes, Revisits, Selects
<1>2. /\ DOMAIN selected' = DOMAIN selected \cup {name}
      /\ \A n \in DOMAIN selected : selected'[n] = selected[n]
  <2>1. CASE Revisits(name, cnst, rest)
    BY <2>1 DEF Revisits, Finished
  <2>2. CASE Selects(name, cnst, rest)
    BY <2>2 DEF Selects, Set
  <2> QED
    BY <2>1, <2>2 DEF Goes
<1>3. \A n \in DOMAIN selected : Deps(n)' = Deps(n)
  BY <1>2 DEF Deps, Dependencies
<1>4. \A m, r : Tight(m, r) => Tight(m, r)'
  BY <1>1 DEF Tight, Tightened
<1>5. \A d : Walked(d) => Walked(d)'
  BY <1>2, <1>4 DEF Walked
<1>6. Tight(name, cnst)'
  BY <1>1 DEF Tight, Tightened
<1>7. \A n \in DOMAIN selected : \A m : Needs(n, m) <=> Needs(n, m)'
  BY <1>2 DEF Needs, DepSet, Dependencies
<1> QED
  BY <1>2, <1>3, <1>4, <1>5, <1>6, <1>7 DEF Keeps

\* Whatever has returned is as it was, so the facts about it are, too.
LEMMA WalkKeepsInvariants ==
  ASSUME Types, FinishedOK, RootsOK, Fits, Acyclic,
         NEW name \in Names, NEW cnst, NEW rest \in Seq(Frame), Goes(name, cnst, rest),
         UNCHANGED <<registry, manifest>>, Finished' = Finished,
         todo' = todo \/ todo' = todo \ {name}
  PROVE  Types' /\ FinishedOK' /\ RootsOK' /\ Fits' /\ Acyclic'
<1>0. Keeps(name, cnst)
  BY WalkKeeps
<1> USE DEF Keeps
<1>1. Tightened(name, cnst)
  BY DEF Goes, Revisits, Selects
<1>2. Types'
  <2>1. stack' \in Seq(Frame)
    <3>1. [name |-> name, next |-> 1] \in Frame
      BY DEF Frame
    <3> QED
      BY <3>1 DEF Goes, Revisits, Selects
  <2>2. DOMAIN selected' \subseteq DOMAIN constraints'
    BY <1>1, <1>0 DEF Types, Tightened
  <2>3. \A n \in DOMAIN selected' :
          \E i \in DOMAIN registry.versions[n] : registry.versions[n][i] = selected'[n]
    <3>1. \A n \in DOMAIN selected :
            \E i \in DOMAIN registry.versions[n] : registry.versions[n][i] = selected'[n]
      BY <1>0 DEF Types
    <3>2. CASE Revisits(name, cnst, rest)
      BY <3>1, <3>2 DEF Revisits
    <3>3. CASE Selects(name, cnst, rest)
      <4>1. \E i \in DOMAIN registry.versions[name] : registry.versions[name][i] = selected'[name]
        BY <3>3 DEF Selects, Set
      <4> QED
        BY <3>1, <4>1, <1>0
    <3> QED
      BY <3>2, <3>3 DEF Goes
  <2>4. /\ todo' \subseteq DOMAIN manifest
        /\ DOMAIN constraints' \subseteq Names
        /\ \A n \in DOMAIN constraints' : constraints'[n] \in VersionRange
    BY <1>1 DEF Types, Tightened
  <2> QED
    BY <2>1, <2>2, <2>3, <2>4 DEF Types
<1>3. FinishedOK'
  <2> SUFFICES ASSUME NEW n \in Finished, NEW j \in 1 .. Len(Deps(n)')
               PROVE  Walked(Deps(n)[j])' /\ (Deps(n)[j].name \in Finished)'
    BY DEF FinishedOK
  <2>1. n \in DOMAIN selected /\ Deps(n)' = Deps(n)
    BY <1>0 DEF Finished
  <2>2. Walked(Deps(n)[j]) /\ Deps(n)[j].name \in Finished
    BY <2>1 DEF FinishedOK
  <2> QED
    BY <2>1, <2>2, <1>0
<1>4. RootsOK'
  BY <1>0 DEF RootsOK
<1>5. Fits'
  <2>1. Contains(constraints'[name], selected'[name])
    BY <1>0 DEF Goes, Revisits, Selects, Set, Finished
  <2>2. \A n \in DOMAIN selected \ {name} : Contains(constraints'[n], selected'[n])
    BY <1>1, <1>0 DEF Tightened, Types, Fits
  <2> QED
    BY <2>1, <2>2, <1>0, Zenon DEF Fits
<1>6. Acyclic'
  BY <1>0 DEF Acyclic, Finished
<1> QED
  BY <1>2, <1>3, <1>4, <1>5, <1>6

-----------------------------------------------------------------------------
(* The steps *)

\* The invariants of a resolution that has not failed.
Sound == FramesOK /\ FinishedOK /\ RootsOK /\ Fits /\ Needed /\ Acyclic

\* A failure says nothing about the resolution; a cycle is one.
LEMMA StopStep ==
  ASSUME Inv, status = "running", NEW name, Stops(name),
         UNCHANGED <<registry, manifest>>, todo' \subseteq todo,
         name \in Visiting => stack # <<>> /\ DepsOfTop[Caller.next].name = name
  PROVE  Inv'
<1>1. Types'
  BY DEF Inv, Types, Stops
<1>2. ASSUME status' = "cycle" PROVE CycleIsReal'
  <2>1. name \in Visiting /\ stack # <<>> /\ DepsOfTop[Caller.next].name = name
    BY <1>2 DEF Stops
  <2>2. UNCHANGED <<registry, selected, stack>>
    BY DEF Stops
  <2>3. \A i \in 1 .. Len(stack) - 1 : Needs(stack[i].name, stack[i + 1].name)
    <3>1. stack \in Seq(Frame) /\ FramesOK
      BY DEF Inv, Types
    <3>2. \A i \in 1 .. Len(stack) - 1 : i \in DOMAIN stack /\ Above(i) = {stack[i + 1].name}
      BY <3>1 DEF Above
    <3> QED
      BY <3>1, <3>2 DEF FramesOK, FrameOK
  <2>4. \E i \in DOMAIN stack : stack[i].name = DepsOfTop[Caller.next].name
    BY <2>1 DEF Visiting
  <2> QED
    <3>1. \A a, b : Needs(a, b)' <=> Needs(a, b)
      BY <2>2 DEF Needs, DepSet, Dependencies
    <3>2. (DepsOfTop[Caller.next].name)' = DepsOfTop[Caller.next].name
      BY <2>2 DEF DepsOfTop, Caller, Dependencies
    <3> QED
      BY <2>1, <2>2, <2>3, <2>4, <3>1, <3>2 DEF CycleIsReal
<1> QED
  BY <1>1, <1>2 DEF Inv, Stops, CycleIsReal

\* A root constraint: nothing is on the stack.
LEMMA RootStep == Inv /\ WalkRoot => Inv'
<1> SUFFICES ASSUME Inv, WalkRoot PROVE Inv'
  OBVIOUS
<1>1. Types /\ status = "running" /\ stack = <<>> /\ Sound
  BY DEF Inv, WalkRoot, Sound
<1>2. PICK n \in todo : Walk(n, manifest[n], <<>>) /\ todo' = todo \ {n}
  BY DEF WalkRoot
<1>3. UNCHANGED <<registry, manifest>> /\ n \in Names /\ manifest[n] \in VersionRange
  BY RegistryAssumption, <1>1, <1>2 DEF WalkRoot, Types
<1>4. Visiting = {} /\ Finished = DOMAIN selected
  <2>1. DOMAIN stack = {}
    BY <1>1
  <2> QED
    BY <2>1 DEF Visiting, Finished
<1>5. CASE Stops(n)
  BY <1>1, <1>2, <1>3, <1>4, <1>5, StopStep
<1>6. CASE Goes(n, manifest[n], <<>>)
  <2>1. Keeps(n, manifest[n])
    BY <1>1, <1>3, <1>6, WalkKeeps
  <2>2. ASSUME Revisits(n, manifest[n], <<>>)
       PROVE  FramesOK' /\ Finished' = Finished /\ status' = "running"
    <3>1. stack' = <<>> /\ status' = "running" /\ selected' = selected
      BY <1>1, <2>2 DEF Revisits
    <3>2. Finished' = Finished
      BY <1>1, <3>1 DEF Finished, Visiting
    <3>3. FramesOK'
      BY <3>1 DEF FramesOK
    <3> QED
      BY <3>1, <3>2, <3>3
  <2>3. ASSUME Selects(n, manifest[n], <<>>)
       PROVE  FramesOK' /\ Finished' = Finished /\ status' = "running"
    <3>1. stack' = <<[name |-> n, next |-> 1]>> /\ status' = "running" /\ n \notin DOMAIN selected
      BY <1>1, <2>3 DEF Selects
    <3>2. Finished' = Finished
      <4>1. Visiting' = {n}
        BY <3>1 DEF Visiting
      <4> QED
        BY <1>4, <2>1, <3>1, <4>1 DEF Finished, Keeps
    <3>3. FramesOK'
      BY <2>1, <3>1 DEF FramesOK, FrameOK, Above, Keeps
    <3> QED
      BY <3>1, <3>2, <3>3
  <2>4. FramesOK' /\ Finished' = Finished /\ status' = "running"
    BY <1>6, <2>2, <2>3 DEF Goes
  <2>5. Types' /\ FinishedOK' /\ RootsOK' /\ Fits' /\ Acyclic'
    <3>1. <<>> \in Seq(Frame)
      OBVIOUS
    <3> QED
      BY <1>1, <1>2, <1>3, <1>6, <2>4, <3>1, WalkKeepsInvariants DEF Sound
  <2>6. Needed'
    BY <1>1, <1>2, <1>3, <2>1 DEF Needed, Keeps, Sound, Types
  <2> QED
    BY <2>4, <2>5, <2>6 DEF Inv, CycleIsReal
<1> QED
  BY <1>1, <1>2, <1>3, <1>5, <1>6, WalkCases DEF Goes

\* The stack of the caller's callers, and the stack once the caller has gone
\* on to its next dependency.
LEMMA StackShape ==
  ASSUME NEW st \in Seq(Frame), st # <<>>
  PROVE  LET L    == Len(st)
             rest == Append(SubSeq(st, 1, L - 1), [st[L] EXCEPT !.next = @ + 1])
         IN  /\ L \in Nat \ {0} /\ st[L] \in Frame
             /\ rest \in Seq(Frame) /\ Len(rest) = L
             /\ \A i \in 1 .. L - 1 : rest[i] = st[i]
             /\ rest[L].name = st[L].name /\ rest[L].next = st[L].next + 1
             /\ SubSeq(st, 1, L - 1) \in Seq(Frame) /\ Len(SubSeq(st, 1, L - 1)) = L - 1
             /\ \A i \in 1 .. L - 1 : SubSeq(st, 1, L - 1)[i] = st[i]
<1> DEFINE L == Len(st)
           top == [st[L] EXCEPT !.next = @ + 1]
           below == SubSeq(st, 1, L - 1)
<1>1. L \in Nat \ {0} /\ st[L] \in Frame
  OBVIOUS
<1>2. top \in Frame /\ top.name = st[L].name /\ top.next = st[L].next + 1
  BY <1>1 DEF Frame
<1>3. below \in Seq(Frame) /\ Len(below) = L - 1 /\ \A i \in 1 .. L - 1 : below[i] = st[i]
  <2>1. \A i \in 1 .. L - 1 : st[i] \in Frame
    BY <1>1
  <2>2. /\ below \in Seq(Frame) /\ Len(below) = IF 1 <= L - 1 THEN (L - 1) - 1 + 1 ELSE 0
        /\ \A i \in 1 .. (L - 1) - 1 + 1 : below[i] = st[1 + i - 1]
    BY <1>1, <2>1, SubSeqProperties
  <2> HIDE DEF below, L
  <2>3. Len(below) = L - 1
    BY <1>1, <2>2
  <2>4. \A i \in 1 .. L - 1 : i \in 1 .. (L - 1) - 1 + 1 /\ 1 + i - 1 = i
    BY <1>1
  <2> QED
    BY <2>2, <2>3, <2>4
<1> HIDE DEF top, below
<1>4. /\ Append(below, top) \in Seq(Frame) /\ Len(Append(below, top)) = L
      /\ \A i \in 1 .. L - 1 : Append(below, top)[i] = st[i]
      /\ Append(below, top)[L] = top
  BY <1>1, <1>2, <1>3
<1> QED
  BY <1>1, <1>2, <1>3, <1>4 DEF top, below

\* A frame that nothing happens to.
LEMMA FrameKeeps ==
  ASSUME NEW name, NEW cnst, Keeps(name, cnst), Finished' = Finished,
         NEW f, NEW above, FrameOK(f, above)
  PROVE  FrameOK(f, above)'
<1>1. Deps(f.name)' = Deps(f.name)
  BY DEF Keeps, FrameOK
<1> QED
  BY <1>1 DEF Keeps, FrameOK

\* The top frame after it has called walk on its next dependency.
LEMMA FrameAdvances ==
  ASSUME NEW f \in Frame, FrameOK(f, {}), f.next <= Len(Deps(f.name)), Len(Deps(f.name)) \in Nat,
         NEW d, d = Deps(f.name)[f.next], Keeps(d.name, d.range), Finished' = Finished,
         NEW g \in Frame, g.name = f.name, g.next = f.next + 1,
         NEW above, d.name \in Finished \cup above, above \subseteq {d.name}
  PROVE  FrameOK(g, above)'
<1>1. /\ f.name \in DOMAIN selected /\ f.next \in 1 .. Len(Deps(f.name))
      /\ \A j \in 1 .. f.next - 1 : Walked(Deps(f.name)[j]) /\ Deps(f.name)[j].name \in Finished
  BY DEF FrameOK
<1>2. Deps(g.name)' = Deps(f.name) /\ g.name \in DOMAIN selected'
  BY <1>1 DEF Keeps
<1>3. Walked(d)'
  BY DEF Keeps, Walked
<1>4. \A j \in 1 .. g.next - 1 : j \in 1 .. f.next - 1 \/ j = f.next
  BY <1>1
<1>5. \A j \in 1 .. g.next - 1 :
        Walked(Deps(f.name)[j])' /\ Deps(f.name)[j].name \in Finished \cup above
  <2>1. \A j \in 1 .. f.next - 1 : Walked(Deps(f.name)[j])'
    BY <1>1, <1>2 DEF Keeps
  <2>2. Walked(Deps(f.name)[f.next])'
    BY <1>2, <1>3
  <2> QED
    BY <1>1, <1>2, <1>4, <2>1, <2>2
<1>6. \A m \in above : Needs(g.name, m)'
  <2>1. Needs(f.name, d.name)
    BY <1>1 DEF Needs, DepSet, Deps
  <2> QED
    BY <1>1, <2>1 DEF Keeps
<1>7. g.next \in 1 .. Len(Deps(g.name)') + 1
  BY <1>1, <1>2
<1> QED
  BY <1>2, <1>5, <1>6, <1>7 DEF FrameOK

\* A dependency of the package on top of the stack.
LEMMA DependencyStep == Inv /\ WalkDependency => Inv'
<1> SUFFICES ASSUME Inv, WalkDependency PROVE Inv'
  OBVIOUS
<1>1. Types /\ status = "running" /\ stack \in Seq(Frame) /\ stack # <<>> /\ Sound
  BY DEF Inv, WalkDependency, Sound, Types
<1>2. PICK L, f, d, rest :
        /\ L = Len(stack) /\ f = Caller /\ d = DepsOfTop[f.next]
        /\ rest = Append(Callers, [f EXCEPT !.next = @ + 1])
  OBVIOUS
<1>3. /\ L \in Nat \ {0} /\ f \in Frame /\ f = stack[L]
      /\ rest \in Seq(Frame) /\ Len(rest) = L
      /\ \A i \in 1 .. L - 1 : rest[i] = stack[i]
      /\ rest[L].name = f.name /\ rest[L].next = f.next + 1
  BY <1>1, <1>2, StackShape DEF Caller, Callers
<1>4. FrameOK(f, {}) /\ f.name \in DOMAIN selected /\ f.next \in 1 .. Len(Deps(f.name)) + 1
  <2>1. Above(L) = {}
    BY <1>2, <1>3 DEF Above
  <2>2. L \in DOMAIN stack
    BY <1>1, <1>2, <1>3
  <2>3. FrameOK(stack[L], Above(L))
    BY <1>1, <2>2 DEF Sound, FramesOK
  <2> QED
    BY <1>3, <2>1, <2>3 DEF FrameOK
<1>5. /\ Deps(f.name) \in Seq([name : Names, range : VersionRange]) /\ DepsOfTop = Deps(f.name)
      /\ f.next \in 1 .. Len(Deps(f.name)) /\ d = Deps(f.name)[f.next]
      /\ d \in [name : Names, range : VersionRange]
  <2>1. Deps(f.name) \in Seq([name : Names, range : VersionRange])
    BY <1>1, <1>4, DepsType
  <2>2. DepsOfTop = Deps(f.name)
    BY <1>2 DEF DepsOfTop, Deps
  <2>3. f.next <= Len(Deps(f.name))
    BY <1>2, <2>2 DEF WalkDependency
  <2>4. f.next \in 1 .. Len(Deps(f.name))
    <3>1. Len(Deps(f.name)) \in Nat
      BY <2>1, LenProperties
    <3> QED
      BY <1>4, <2>3, <3>1
  <2>5. d = Deps(f.name)[f.next]
    BY <1>2, <2>2
  <2>6. d \in [name : Names, range : VersionRange]
    BY <2>1, <2>4, <2>5, ElementOfSeq
  <2> QED
    BY <2>1, <2>2, <2>4, <2>5, <2>6
<1>6. Walk(d.name, d.range, rest) /\ UNCHANGED <<registry, manifest, todo>>
  BY <1>2 DEF WalkDependency
<1>7. CASE Stops(d.name)
  <2>1. DepsOfTop[Caller.next].name = d.name
    BY <1>2
  <2> QED
    BY <1>1, <1>6, <1>7, <2>1, StopStep
<1>8. CASE Goes(d.name, d.range, rest)
  <2>1. Keeps(d.name, d.range)
    BY <1>1, <1>6, <1>8, WalkKeeps
  <2>2. /\ DOMAIN stack = 1 .. L /\ DOMAIN rest = 1 .. L
        /\ \A i \in 1 .. L : rest[i].name = stack[i].name /\ rest[i] \in Frame
        /\ \A i \in 1 .. L : stack[i].name \in DOMAIN selected
        /\ \A i, k \in 1 .. L : stack[i].name = stack[k].name => i = k
        /\ \A i \in 1 .. L - 1 : FrameOK(stack[i], {stack[i + 1].name})
    <3>1. \A i \in DOMAIN stack : FrameOK(stack[i], Above(i)) /\ stack[i].name \in DOMAIN selected
      BY <1>1 DEF Sound, FramesOK, FrameOK
    <3>2. DOMAIN stack = 1 .. L /\ DOMAIN rest = 1 .. L
      BY <1>1, <1>2, <1>3
    <3>3. \A i \in 1 .. L - 1 : i \in 1 .. L /\ Above(i) = {stack[i + 1].name}
      BY <1>2, <1>3 DEF Above
    <3>4. \A i \in 1 .. L : rest[i].name = stack[i].name
      <4>1. \A i \in 1 .. L : i \in 1 .. L - 1 \/ i = L
        BY <1>3
      <4> QED
        BY <1>3, <4>1
    <3>5. \A i \in 1 .. L : rest[i] \in Frame
      BY <1>3, <3>2, ElementOfSeq
    <3>6. \A i, k \in 1 .. L : stack[i].name = stack[k].name => i = k
      BY <1>1, <3>2 DEF Sound, FramesOK
    <3>7. \A i \in 1 .. L - 1 : FrameOK(stack[i], {stack[i + 1].name})
      BY <3>1, <3>2, <3>3
    <3>8. \A i \in 1 .. L : stack[i].name \in DOMAIN selected
      BY <3>1, <3>2
    <3> QED
      BY <3>2, <3>4, <3>5, <3>6, <3>7, <3>8
  <2>3. ASSUME Finished' = Finished, NEW above, d.name \in Finished \cup above, above \subseteq {d.name}
        PROVE  /\ FrameOK(rest[L], above)'
               /\ \A i \in 1 .. L - 1 : FrameOK(rest[i], {rest[i + 1].name})'
    <3>1. FrameOK(rest[L], above)'
      <4>1. PICK g : g = rest[L]
        OBVIOUS
      <4>2. g \in Frame /\ g.name = f.name /\ g.next = f.next + 1
        BY <1>3, <2>2, <4>1
      <4>3. f.next <= Len(Deps(f.name)) /\ Len(Deps(f.name)) \in Nat
        BY <1>3, <1>5, LenProperties
      <4>4. FrameOK(g, above)'
        BY <1>3, <1>4, <1>5, <2>1, <2>3, <4>2, <4>3, FrameAdvances
      <4> QED
        BY <4>1, <4>4
    <3>2. ASSUME NEW i \in 1 .. L - 1 PROVE FrameOK(rest[i], {rest[i + 1].name})'
      <4>1. FrameOK(rest[i], {rest[i + 1].name})
        <5>1. i + 1 \in 1 .. L
          BY <1>3
        <5> QED
          BY <1>3, <2>2, <5>1
      <4> QED
        BY <2>1, <2>3, <4>1, FrameKeeps
    <3> QED
      BY <3>1, <3>2
  <2>4. ASSUME Revisits(d.name, d.range, rest)
        PROVE  FramesOK' /\ Finished' = Finished /\ status' = "running"
    <3>1. stack' = rest /\ status' = "running" /\ selected' = selected /\ d.name \in Finished
      BY <1>1, <2>4 DEF Revisits
    <3>2. Finished' = Finished
      <4>1. Visiting' = Visiting
        BY <2>2, <3>1 DEF Visiting
      <4> QED
        BY <3>1, <4>1 DEF Finished
    <3>3. /\ FrameOK(rest[L], {})'
          /\ \A i \in 1 .. L - 1 : FrameOK(rest[i], {rest[i + 1].name})'
      BY <2>3, <3>1, <3>2
    <3>4. FramesOK'
      <4>1. DOMAIN stack' = 1 .. L /\ Len(stack') = L
        BY <1>3, <2>2, <3>1
      <4>2. \A i \in 1 .. L : FrameOK(stack[i], Above(i))'
        <5>1. \A i \in 1 .. L - 1 : Above(i)' = {rest[i + 1].name} /\ stack'[i] = rest[i]
          BY <1>3, <3>1, <4>1 DEF Above
        <5>2. Above(L)' = {} /\ stack'[L] = rest[L]
          BY <1>3, <3>1, <4>1 DEF Above
        <5>3. \A i \in 1 .. L : i \in 1 .. L - 1 \/ i = L
          BY <1>3
        <5> QED
          BY <3>3, <5>1, <5>2, <5>3
      <4> QED
        BY <2>2, <3>1, <4>1, <4>2 DEF FramesOK
    <3> QED
      BY <3>1, <3>2, <3>4
  <2>5. ASSUME Selects(d.name, d.range, rest)
        PROVE  FramesOK' /\ Finished' = Finished /\ status' = "running"
    <3>1. PICK e : e = [name |-> d.name, next |-> 1]
      OBVIOUS
    <3>2. stack' = Append(rest, e) /\ status' = "running" /\ d.name \notin DOMAIN selected
      BY <1>1, <2>5, <3>1 DEF Selects
    <3>3. e \in Frame /\ e.name = d.name /\ e.next = 1
      BY <1>5, <3>1 DEF Frame
    <3>4. /\ Len(stack') = L + 1 /\ DOMAIN stack' = 1 .. L + 1
          /\ \A i \in 1 .. L : stack'[i] = rest[i]
          /\ stack'[L + 1] = e
      BY <1>3, <3>2, <3>3
    <3>5. Finished' = Finished
      <4>1. Visiting' = Visiting \cup {d.name}
        BY <1>3, <2>2, <3>3, <3>4 DEF Visiting
      <4> QED
        BY <2>1, <3>2, <4>1 DEF Finished, Keeps
    <3>6. /\ FrameOK(rest[L], {d.name})'
          /\ \A i \in 1 .. L - 1 : FrameOK(rest[i], {rest[i + 1].name})'
      BY <2>3, <3>5
    <3>7. FrameOK(e, {})'
      <4>1. e.name \in DOMAIN selected'
        BY <2>1, <3>3 DEF Keeps
      <4>2. Types'
        BY <1>1, <1>3, <1>5, <1>6, <1>8, <3>5, WalkKeepsInvariants DEF Sound
      <4>3. (\A n \in DOMAIN selected : Len(Deps(n)) \in Nat)'
        BY <4>2, DepsLen, PTL
      <4> QED
        BY <3>3, <4>1, <4>3 DEF FrameOK
    <3>8. \A i \in 1 .. L + 1 : FrameOK(stack[i], Above(i))'
      <4>1. \A i \in 1 .. L - 1 : Above(i)' = {rest[i + 1].name} /\ stack'[i] = rest[i]
        BY <1>3, <3>4 DEF Above
      <4>2. Above(L)' = {d.name} /\ stack'[L] = rest[L]
        BY <1>3, <3>3, <3>4 DEF Above
      <4>3. Above(L + 1)' = {} /\ stack'[L + 1] = e
        BY <1>3, <3>4 DEF Above
      <4>4. \A i \in 1 .. L + 1 : i \in 1 .. L - 1 \/ i = L \/ i = L + 1
        BY <1>3
      <4> QED
        BY <3>6, <3>7, <4>1, <4>2, <4>3, <4>4
    <3>9. \A i, k \in 1 .. L + 1 : stack'[i].name = stack'[k].name => i = k
      BY <1>3, <2>2, <3>2, <3>3, <3>4
    <3> QED
      BY <3>2, <3>4, <3>5, <3>8, <3>9 DEF FramesOK
  <2>6. FramesOK' /\ Finished' = Finished /\ status' = "running"
    BY <1>8, <2>4, <2>5 DEF Goes
  <2>7. Types' /\ FinishedOK' /\ RootsOK' /\ Fits' /\ Acyclic'
    BY <1>1, <1>3, <1>5, <1>6, <1>8, <2>6, WalkKeepsInvariants DEF Sound
  <2>8. Needed'
    <3>1. Needs(f.name, d.name)'
      <4>1. Needs(f.name, d.name)
        BY <1>5 DEF Needs, DepSet, Deps
      <4> QED
        BY <1>4, <2>1, <4>1 DEF Keeps
    <3>2. f.name \in DOMAIN selected'
      BY <1>4, <2>1 DEF Keeps
    <3> QED
      BY <1>1, <1>6, <2>1, <3>1, <3>2 DEF Needed, Keeps, Sound
  <2> QED
    BY <2>6, <2>7, <2>8 DEF Inv, CycleIsReal
<1> QED
  BY <1>1, <1>5, <1>6, <1>7, <1>8, WalkCases DEF Goes

\* A call of walk returns: its package is finished.
LEMMA ReturnStep == Inv /\ ReturnFromWalk => Inv'
<1> SUFFICES ASSUME Inv, ReturnFromWalk PROVE Inv'
  OBVIOUS
<1>1. Types /\ status = "running" /\ stack \in Seq(Frame) /\ stack # <<>> /\ Sound
  BY DEF Inv, ReturnFromWalk, Sound, Types
<1>2. PICK L, f : L = Len(stack) /\ f = Caller
  OBVIOUS
<1>3. /\ L \in Nat \ {0} /\ f \in Frame /\ f = stack[L]
      /\ Callers \in Seq(Frame) /\ Len(Callers) = L - 1
      /\ \A i \in 1 .. L - 1 : Callers[i] = stack[i]
  BY <1>1, <1>2, StackShape DEF Caller, Callers
<1>4. /\ stack' = Callers /\ UNCHANGED <<registry, manifest, todo, constraints, selected, status>>
      /\ DOMAIN stack = 1 .. L /\ DOMAIN stack' = 1 .. L - 1 /\ Len(stack') = L - 1
      /\ \A i \in 1 .. L - 1 : stack'[i] = stack[i] /\ i \in 1 .. L /\ i + 1 \in 1 .. L
  BY <1>1, <1>2, <1>3 DEF ReturnFromWalk
<1>5. /\ \A i, k \in 1 .. L : stack[i].name = stack[k].name => i = k
      /\ \A i \in 1 .. L : FrameOK(stack[i], Above(i)) /\ stack[i].name \in DOMAIN selected
  BY <1>1, <1>4 DEF Sound, FramesOK, FrameOK
<1>6. /\ f.name \in DOMAIN selected
      /\ \A j \in 1 .. Len(Deps(f.name)) : Walked(Deps(f.name)[j]) /\ Deps(f.name)[j].name \in Finished
  <2>1. Above(L) = {} /\ L \in 1 .. L
    BY <1>2, <1>3 DEF Above
  <2>2. FrameOK(f, {}) /\ f.name \in DOMAIN selected
    BY <1>3, <1>5, <2>1
  <2>3. Len(Deps(f.name)) \in Nat /\ f.next > Len(Deps(f.name))
    <3>1. DepsOfTop = Deps(f.name)
      BY <1>2 DEF DepsOfTop, Deps
    <3> QED
      BY <1>1, <1>2, <2>2, <3>1, DepsLen DEF ReturnFromWalk
  <2>4. \A j \in 1 .. Len(Deps(f.name)) : j \in 1 .. f.next - 1
    BY <1>3, <2>3 DEF Frame
  <2> QED
    BY <2>2, <2>4 DEF FrameOK
<1>7. Finished' = Finished \cup {f.name} /\ f.name \notin Finished
  <2>1. Visiting = Visiting' \cup {f.name}
    <3>1. \A i \in 1 .. L : i \in 1 .. L - 1 \/ i = L
      BY <1>3
    <3> QED
      BY <1>3, <1>4, <3>1 DEF Visiting
  <2>2. f.name \notin Visiting'
    <3>1. \A i \in 1 .. L - 1 : i # L
      BY <1>3
    <3> QED
      BY <1>3, <1>4, <1>5, <3>1 DEF Visiting
  <2> QED
    BY <1>4, <1>6, <2>1, <2>2 DEF Finished
<1>8. /\ \A n : Deps(n)' = Deps(n)
      /\ \A d : Walked(d) => Walked(d)'
      /\ \A n, m : Needs(n, m)' <=> Needs(n, m)
  BY <1>4 DEF Deps, Dependencies, Walked, Tight, Needs, DepSet
<1>9. Types'
  BY <1>1, <1>3, <1>4 DEF Types
<1>10. FramesOK'
  <2>1. ASSUME NEW i \in 1 .. L - 1 PROVE FrameOK(stack[i], Above(i))'
    <3>1. PICK g, above : g = stack[i] /\ above = Above(i)'
      OBVIOUS
    <3>2. stack'[i] = g
      BY <1>4, <3>1
    <3>3. FrameOK(g, Above(i)) /\ Above(i) = {stack[i + 1].name}
      <4>1. i < Len(stack) /\ i \in 1 .. L
        BY <1>2, <1>3
      <4> QED
        BY <1>5, <3>1, <4>1 DEF Above
    <3>4. Above(i) \subseteq Above(i)' \cup Finished'
      <4>1. CASE i + 1 \in 1 .. L - 1
        BY <1>3, <1>4, <3>3, <4>1 DEF Above
      <4>2. CASE i + 1 = L
        BY <1>3, <1>7, <3>3, <4>2
      <4> QED
        BY <1>3, <4>1, <4>2
    <3>5. Above(i)' \subseteq Above(i)
      <4>1. CASE i + 1 \in 1 .. L - 1
        BY <1>3, <1>4, <3>3, <4>1 DEF Above
      <4>2. CASE i + 1 = L
        BY <1>3, <1>4, <4>2 DEF Above
      <4> QED
        BY <1>3, <4>1, <4>2
    <3>6. FrameOK(g, above)'
      BY <1>4, <1>7, <1>8, <3>1, <3>3, <3>4, <3>5 DEF FrameOK
    <3> QED
      BY <3>1, <3>2, <3>6
  <2>2. \A i, k \in 1 .. L - 1 : stack'[i].name = stack'[k].name => i = k
    BY <1>4, <1>5
  <2> QED
    BY <1>4, <2>1, <2>2 DEF FramesOK
<1>11. FinishedOK'
  BY <1>1, <1>6, <1>7, <1>8 DEF FinishedOK, Sound
<1>12. RootsOK' /\ Fits' /\ Needed'
  BY <1>1, <1>4, <1>8 DEF RootsOK, Fits, Needed, Sound, Tight
<1>13. Acyclic'
  <2>1. \A n \in Finished : \A m : Needs(n, m) => m \in Finished
    BY <1>1 DEF FinishedOK, Sound, Needs, DepSet, Deps
  <2>2. \A m : Needs(f.name, m) => m \in Finished
    BY <1>6 DEF Needs, DepSet, Deps
  <2> SUFFICES ASSUME NEW S \in SUBSET (Finished'), S # {}
               PROVE  \E n \in S : \A m \in S : ~Needs(n, m)
    BY <1>8 DEF Acyclic
  <2>3. CASE f.name \in S /\ S \cap Finished = {}
    BY <1>7, <2>2, <2>3
  <2>4. CASE S \cap Finished # {}
    <3>1. PICK n \in S \cap Finished : \A m \in S \cap Finished : ~Needs(n, m)
      BY <1>1, <2>4 DEF Acyclic, Sound
    <3> QED
      BY <2>1, <3>1
  <2> QED
    BY <1>7, <2>3, <2>4
<1> QED
  BY <1>1, <1>4, <1>9, <1>10, <1>11, <1>12, <1>13 DEF Inv, CycleIsReal

\* The end of the resolution, and stuttering, change nothing the parts speak of.
LEMMA ResolvedStep ==
  ASSUME Inv, UNCHANGED <<registry, manifest, todo, constraints, selected, stack>>,
         status' = status \/ Resolved
  PROVE  Inv'
<1>1. /\ \A n : Deps(n)' = Deps(n)
      /\ \A n, m : Needs(n, m)' <=> Needs(n, m)
      /\ \A m, r : Tight(m, r)' <=> Tight(m, r)
  BY DEF Deps, Dependencies, Needs, DepSet, Tight
<1>2. Finished' = Finished /\ \A d : Walked(d)' <=> Walked(d)
  BY <1>1 DEF Finished, Visiting, Walked
<1>3. \A i : Above(i)' = Above(i)
  BY DEF Above
<1>4. \A f, above : FrameOK(f, above)' <=> FrameOK(f, above)
  BY <1>1, <1>2 DEF FrameOK
<1>5. FramesOK => FramesOK'
  <2> SUFFICES ASSUME FramesOK PROVE FramesOK'
    OBVIOUS
  <2>1. ASSUME NEW i \in DOMAIN stack PROVE FrameOK(stack[i], Above(i))'
    <3>1. PICK f, above : f = stack[i] /\ above = Above(i)
      OBVIOUS
    <3>2. FrameOK(f, above)
      BY <3>1 DEF FramesOK
    <3>3. FrameOK(f, above)'
      BY <1>4, <3>2
    <3> QED
      BY <1>3, <3>1, <3>3
  <2> QED
    BY <2>1 DEF FramesOK
<1>6. /\ FinishedOK => FinishedOK'
      /\ Acyclic => Acyclic'
  BY <1>1, <1>2 DEF FinishedOK, Acyclic
<1>7. RootsOK /\ Fits /\ Needed => RootsOK' /\ Fits' /\ Needed'
  BY <1>1 DEF RootsOK, Fits, Needed
<1>8. Types'
  BY DEF Inv, Types
<1>9. DepsOfTop' = DepsOfTop /\ Caller' = Caller
  BY DEF DepsOfTop, Dependencies, Caller
<1>10. CycleIsReal /\ status' = status => CycleIsReal'
  BY <1>1, <1>9 DEF CycleIsReal
<1> QED
  BY <1>5, <1>6, <1>7, <1>8, <1>10 DEF Inv, Resolved, CycleIsReal

\* What holds of a whole run of Resolve.
THEOREM ResolverInvariant == ResolverSpec => []Inv
<1>1. ResolverInit => Inv
  <2> SUFFICES ASSUME ResolverInit PROVE Inv
    OBVIOUS
  <2>1. DOMAIN selected = {} /\ stack = <<>> /\ DOMAIN stack = {} /\ status \in {"running", "empty", "bad-range"}
    BY DEF ResolverInit
  <2>2. Types
    BY <2>1, RegistryAssumption DEF ResolverInit, Types
  <2>3. Finished = {}
    BY <2>1 DEF Finished
  <2> QED
    BY <2>1, <2>2, <2>3 DEF Inv, FramesOK, FinishedOK, RootsOK, Tight, Fits, Needed, Acyclic,
       CycleIsReal, ResolverInit
<1>2. Inv /\ [ResolverNext]_resolverVars => Inv'
  <2> SUFFICES ASSUME Inv, [ResolverNext]_resolverVars PROVE Inv'
    OBVIOUS
  <2>1. CASE Resolved \/ UNCHANGED resolverVars
    BY <2>1, ResolvedStep DEF Resolved, resolverVars
  <2> QED
    BY <2>1, RootStep, DependencyStep, ReturnStep DEF ResolverNext
<1> QED
  BY <1>1, <1>2, PTL DEF ResolverSpec

\* A successful resolution fits every constraint and has nothing needless.
THEOREM ResolutionIsSound == ResolverSpec => []ResolutionSound
<1>1. Inv => ResolutionSound
  <2> SUFFICES ASSUME Inv, status = "ok" PROVE ResolutionSound
    BY DEF ResolutionSound
  <2>1. Types /\ FinishedOK /\ RootsOK /\ Fits /\ Needed /\ stack = <<>> /\ todo = {}
    BY DEF Inv
  <2>2. Finished = DOMAIN selected
    <3>1. DOMAIN stack = {}
      BY <2>1
    <3> QED
      BY <3>1 DEF Finished, Visiting
  <2>3. \A n \in DOMAIN selected : selected[n] \in Version /\ n \in DOMAIN constraints
    BY <2>1, DepsType DEF Types
  <2>4. \A m, r : m \in DOMAIN selected /\ Tight(m, r) => Contains(r, selected[m])
    BY <2>1, <2>3 DEF Tight, Fits
  <2>5. \A n \in DOMAIN manifest : n \in DOMAIN selected /\ Contains(manifest[n], selected[n])
    BY <2>1, <2>4 DEF RootsOK
  <2>6. \A n \in DOMAIN selected : \A d \in DepSet(n) :
          d.name \in DOMAIN selected /\ Contains(d.range, selected[d.name])
    <3> SUFFICES ASSUME NEW n \in DOMAIN selected, NEW d \in DepSet(n)
                 PROVE  d.name \in DOMAIN selected /\ Contains(d.range, selected[d.name])
      OBVIOUS
    <3>1. PICK j \in DOMAIN Deps(n) : d = Deps(n)[j]
      BY DEF DepSet, Deps
    <3>2. j \in 1 .. Len(Deps(n))
      BY <2>1, <3>1, DepsType
    <3>3. Walked(d)
      BY <2>1, <2>2, <3>1, <3>2 DEF FinishedOK
    <3> QED
      BY <2>4, <3>3 DEF Walked
  <2> QED
    BY <2>1, <2>5, <2>6 DEF ResolutionSound, Types, Needed
<1> QED
  BY <1>1, ResolverInvariant, PTL

\* A successful resolution has no dependency cycle.
THEOREM ResolutionIsAcyclic == ResolverSpec => []ResolutionAcyclic
<1>1. Inv => ResolutionAcyclic
  <2> SUFFICES ASSUME Inv, status = "ok" PROVE ResolutionAcyclic
    BY DEF ResolutionAcyclic
  <2>1. Finished = DOMAIN selected /\ Acyclic
    <3>1. DOMAIN stack = {} /\ Acyclic
      BY DEF Inv
    <3> QED
      BY <3>1 DEF Finished, Visiting
  <2> QED
    BY <2>1 DEF ResolutionAcyclic, Acyclic
<1> QED
  BY <1>1, ResolverInvariant, PTL

\* A "cycle" error reports a real cycle.
THEOREM CyclesAreReal == ResolverSpec => []CycleIsReal
<1>1. Inv => CycleIsReal
  BY DEF Inv
<1> QED
  BY <1>1, ResolverInvariant, PTL
=============================================================================
