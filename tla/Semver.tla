-------------------------------- MODULE Semver --------------------------------
(***************************************************************************)
(* compiler/pkg/version.go: versions, version ranges, their intersection   *)
(* and the choice of the latest version in a range.  A range is the        *)
(* half-open interval [lower, upper), or everything from lower on when     *)
(* unbounded; Raw, kept for diagnostics, is left out.                      *)
(***************************************************************************)
EXTENDS Integers, Sequences

LOCAL Seqs == INSTANCE SequencesExt

Version == [major : Nat, minor : Nat, patch : Nat]
VersionRange == [lower : Version, upper : Version, unbounded : BOOLEAN]

Ver(a, b, c) == [major |-> a, minor |-> b, patch |-> c]
Zero0 == Ver(0, 0, 0)

\* Version.Compare: -1, 0 or 1.
Compare(v, o) ==
  LET sign(a, b) == IF a < b THEN -1 ELSE 1
  IN  IF v.major # o.major THEN sign(v.major, o.major)
      ELSE IF v.minor # o.minor THEN sign(v.minor, o.minor)
      ELSE IF v.patch # o.patch THEN sign(v.patch, o.patch)
      ELSE 0

LessThan(v, o) == Compare(v, o) < 0

\* Mutation of CaretUpper: major version 0 is not special.
CaretUpperNextMajor(b) == Ver(b.major + 1, 0, 0)

\* The upper bound of each prefix form of ParseRange.
CaretUpper(b) ==
  IF b.major # 0 THEN Ver(b.major + 1, 0, 0)
  ELSE IF b.minor # 0 THEN Ver(0, b.minor + 1, 0)
  ELSE Ver(0, 0, b.patch + 1)

TildeUpper(b) == Ver(b.major, b.minor + 1, 0)
ExactUpper(b) == Ver(b.major, b.minor, b.patch + 1)

Between(lo, up) == [lower |-> lo, upper |-> up, unbounded |-> FALSE]
From(lo)        == [lower |-> lo, upper |-> Zero0, unbounded |-> TRUE]

\* One clause of a compound range overwrites the bounds it speaks of.
ApplyClause(r, c) ==
  CASE c.op = ">=" -> [r EXCEPT !.lower = c.base]
    [] c.op = "<"  -> Between(r.lower, c.base)
    [] c.op = "="  -> Between(c.base, ExactUpper(c.base))

\* The clauses in order; r[i] is the range after the first i.
parseCompoundRange(clauses) ==
  LET r[i \in 0 .. Len(clauses)] ==
        IF i = 0 THEN From(Zero0) ELSE ApplyClause(r[i - 1], clauses[i])
  IN  r[Len(clauses)]

\* ParseRange on a spec that has been split into its form and its versions.
ParseRange(spec) ==
  CASE spec.form = "*" -> From(Zero0)
    [] spec.form = "^" -> Between(spec.base, CaretUpper(spec.base))
    [] spec.form = "~" -> Between(spec.base, TildeUpper(spec.base))
    [] spec.form = "exact" -> Between(spec.base, ExactUpper(spec.base))
    [] spec.form = "compound" -> parseCompoundRange(spec.clauses)

Contains(r, v) ==
  /\ ~LessThan(v, r.lower)
  /\ r.unbounded \/ LessThan(v, r.upper)

\* Mutation of Intersect: an empty range with equal bounds passes.
IntersectKeepsEmpty(r, other) ==
  LET lower == IF Compare(other.lower, r.lower) > 0 THEN other.lower ELSE r.lower
      upper == IF r.unbounded THEN other.upper
               ELSE IF ~other.unbounded /\ Compare(other.upper, r.upper) < 0
                    THEN other.upper ELSE r.upper
  IN  IF r.unbounded /\ other.unbounded
        THEN [ok |-> TRUE, range |-> From(lower)]
        ELSE [ok |-> Compare(lower, upper) <= 0, range |-> Between(lower, upper)]

\* Range.Intersect: the conjunction of two ranges and whether it is non-empty.
Intersect(r, other) ==
  LET lower == IF Compare(other.lower, r.lower) > 0 THEN other.lower ELSE r.lower
      upper == IF r.unbounded THEN other.upper
               ELSE IF ~other.unbounded /\ Compare(other.upper, r.upper) < 0
                    THEN other.upper ELSE r.upper
  IN  IF r.unbounded /\ other.unbounded
        THEN [ok |-> TRUE, range |-> From(lower)]
        ELSE [ok |-> LessThan(lower, upper), range |-> Between(lower, upper)]

\* Mutation of SelectLatest: the first satisfying candidate is kept.
SelectFirst(r, candidates) ==
  Seqs!FoldLeft(LAMBDA acc, c : IF Contains(r, c) /\ acc = <<>> THEN <<c>> ELSE acc,
           <<>>, candidates)

\* Range.SelectLatest: one pass over the candidates; best[i] is the best among
\* the first i, as a sequence of at most one version.
SelectLatest(r, candidates) ==
  LET better(best, c) == Contains(r, c) /\ (best = <<>> \/ LessThan(best[1], c))
      best[i \in 0 .. Len(candidates)] ==
        IF i = 0 THEN <<>>
        ELSE IF better(best[i - 1], candidates[i]) THEN <<candidates[i]>>
        ELSE best[i - 1]
  IN  best[Len(candidates)]
=============================================================================
