------------------------------ MODULE SemverCheck ------------------------------
(***************************************************************************)
(* Semver against reference definitions, over every pair of range specs    *)
(* and every candidate list of versions with components up to Top.         *)
(* A behaviour draws one spec, then a second one or a candidate list.      *)
(***************************************************************************)
EXTENDS Semver, FiniteSets

CONSTANT Top
ASSUME TopAssumption == Top \in Nat

VARIABLES left, right,   \* two range specs
          list           \* candidate versions, in any order

semverVars == <<left, right, list>>

Small == {Ver(a, b, c) : a, b, c \in 0 .. Top}

Clauses ==
  {<<[op |-> o, base |-> v]>> : o \in {">=", "<", "="}, v \in Small}
  \cup {<<[op |-> ">=", base |-> v], [op |-> "<", base |-> w]>> : v, w \in Small}
  \cup {<<[op |-> "<", base |-> w], [op |-> ">=", base |-> v]>> : v, w \in Small}

Specs ==
  {[form |-> "*"]}
  \cup {[form |-> f, base |-> v] : f \in {"^", "~", "exact"}, v \in Small}
  \cup {[form |-> "compound", clauses |-> cs] : cs \in Clauses}

Listings == {<<>>} \cup {<<v>> : v \in Small} \cup {<<v, w>> : v, w \in Small}

SemverInit == left = [form |-> "*"] /\ right = [form |-> "*"] /\ list = <<>>

\* A dependent names a range.
DrawRange == left.form = "*" /\ left' \in Specs /\ UNCHANGED <<right, list>>

\* A second dependent constrains the same package.
DrawSecondRange ==
  /\ right.form = "*" /\ list = <<>>
  /\ right' \in Specs
  /\ UNCHANGED <<left, list>>

\* The registry lists its versions.
DrawVersions ==
  /\ right.form = "*" /\ list = <<>>
  /\ list' \in Listings
  /\ UNCHANGED <<left, right>>

SemverNext == DrawRange \/ DrawSecondRange \/ DrawVersions

SemverSpec == SemverInit /\ [][SemverNext]_semverVars

-----------------------------------------------------------------------------
(* Reference definitions *)

\* A version as a number in base B orders like semver when components are < B.
B == Top + 3
Rank(v) == (v.major * B + v.minor) * B + v.patch

Admits(c, v) ==
  CASE c.op = ">=" -> Rank(v) >= Rank(c.base)
    [] c.op = "<"  -> Rank(v) < Rank(c.base)
    [] c.op = "="  -> v = c.base

\* The doc comment of Range, form by form.
Means(spec, v) ==
  CASE spec.form = "*" -> TRUE
    [] spec.form = "exact" -> v = spec.base
    [] spec.form = "~" -> /\ v.major = spec.base.major /\ v.minor = spec.base.minor
                          /\ v.patch >= spec.base.patch
    [] spec.form = "^" -> /\ Rank(v) >= Rank(spec.base)
                          /\ v.major = spec.base.major
                          /\ spec.base.major = 0 => v.minor = spec.base.minor
                          /\ spec.base.major = 0 /\ spec.base.minor = 0 =>
                               v.patch = spec.base.patch
    [] spec.form = "compound" ->
         \A i \in DOMAIN spec.clauses : Admits(spec.clauses[i], v)

Probe == {Ver(a, b, c) : a, b, c \in 0 .. Top + 1}

\* ParseRange gives each documented form its documented meaning, at every
\* version around its bounds; the clauses of a compound range mean their
\* conjunction in either order.
ParsesAsDocumented ==
  \A v \in Probe : Contains(ParseRange(left), v) <=> Means(left, v)

\* Intersect is exactly conjunction, and reports disjointness exactly when no
\* version at all satisfies both ranges.
IntersectIsConjunction ==
  LET i == Intersect(ParseRange(left), ParseRange(right))
      both(v) == Contains(ParseRange(left), v) /\ Contains(ParseRange(right), v)
  IN  /\ i.ok => \A v \in Probe : Contains(i.range, v) <=> both(v)
      /\ i.ok <=> \E v \in Probe : both(v)

\* SelectLatest returns a candidate that satisfies the range and that no
\* satisfying candidate exceeds, and finds one whenever there is one, in
\* whatever order the registry lists the versions.
SelectsTheLatest ==
  LET r == ParseRange(left)
      fit == {list[i] : i \in {j \in DOMAIN list : Contains(r, list[j])}}
      got == SelectLatest(r, list)
  IN  IF fit = {} THEN got = <<>>
      ELSE Len(got) = 1 /\ got[1] \in fit /\ \A v \in fit : Rank(v) <= Rank(got[1])
=============================================================================
