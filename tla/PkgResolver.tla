----------------------------- MODULE PkgResolver -----------------------------
(***************************************************************************)
(* compiler/pkg/resolver.go: Resolver.Resolve.  The recursive closure walk *)
(* is a stack of frames; one step is one call of walk up to its recursive  *)
(* calls, or the return from one.  The root constraints are walked in the  *)
(* order of a Go map iteration, that is, in any order.                     *)
(***************************************************************************)
EXTENDS Semver, FiniteSets

CONSTANTS Names,        \* package names
          Registries,   \* possible registries (RegistryLookup)
          Manifests     \* possible [dependencies] of the root

\* A registry gives every name its published versions, in listing order, and
\* every published version its dependencies.
ASSUME RegistryAssumption ==
  /\ \A r \in Registries :
       /\ r.versions \in [Names -> Seq(Version)]
       /\ \A n \in Names : \A i \in DOMAIN r.versions[n] :
            r.deps[n][r.versions[n][i]] \in Seq([name : Names, range : VersionRange])
  /\ \A m \in Manifests : DOMAIN m \subseteq Names /\ \A n \in DOMAIN m : m[n] \in VersionRange

VARIABLES registry,     \* r.Index
          manifest,     \* initialConstraints(m)
          todo,         \* root constraints the range loop has not reached
          constraints,  \* constraints[name]: conjunction of what was asked
          selected,     \* selected[name]: the chosen version
          stack,        \* frames of walk: a name and the next dependency
          status        \* "running" | "ok" | the Kind of the ResolveError

resolverVars == <<registry, manifest, todo, constraints, selected, stack, status>>

\* Resolve up to its first walk: a manifest without [package], or with a range
\* that does not parse, is an error before anything is walked.
ResolverInit ==
  /\ registry \in Registries
  /\ manifest \in Manifests
  /\ todo = DOMAIN manifest
  /\ constraints = manifest
  /\ selected = [n \in {} |-> Zero0]
  /\ stack = <<>>
  /\ status \in {"running", "empty", "bad-range"}

Set(f, k, v) == [x \in DOMAIN f \cup {k} |-> IF x = k THEN v ELSE f[x]]

Dependencies(n, v) == registry.deps[n][v]

\* Mutation of Visiting: the map is never filled.
NeverVisiting == {}

\* Mutation of Visiting: the deferred reset is missing.
EverVisited == DOMAIN selected

\* visiting[name]: name is on the current stack.
Visiting == {stack[i].name : i \in DOMAIN stack}

Fail(kind) == status' = kind /\ UNCHANGED <<constraints, selected>>

\* Mutation of StillSatisfies: a package that is already selected is not
\* re-checked against the tightened constraint.
NotRechecked(name, r) == TRUE

\* A revisit "after adding a tighter constraint": does the selection still fit?
StillSatisfies(name, r) == Contains(r, selected[name])

\* walk(name, cnst) up to its recursive calls; rest is the stack of its
\* callers.  The constraint is tightened before anything else is decided, and
\* stays tightened.
Walk(name, cnst, rest) ==
  LET known  == name \in DOMAIN constraints
      joined == IF known THEN Intersect(constraints[name], cnst)
                         ELSE [ok |-> TRUE, range |-> cnst]
      avail  == registry.versions[name]
      chosen == SelectLatest(joined.range, avail)
  IN  IF name \in Visiting THEN Fail("cycle") /\ stack' = stack
      ELSE IF ~joined.ok THEN Fail("no-match") /\ stack' = stack
      ELSE /\ constraints' = Set(constraints, name, joined.range)
           /\ IF name \in DOMAIN selected
                THEN /\ IF StillSatisfies(name, joined.range)
                          THEN stack' = rest /\ UNCHANGED status
                          ELSE status' = "no-match" /\ UNCHANGED stack
                     /\ UNCHANGED selected
              ELSE IF avail = <<>> \/ chosen = <<>>
                THEN /\ status' = IF avail = <<>> THEN "unknown" ELSE "no-match"
                     /\ UNCHANGED <<selected, stack>>
              ELSE /\ selected' = Set(selected, name, chosen[1])
                   /\ stack' = Append(rest, [name |-> name, next |-> 1])
                   /\ UNCHANGED status

Caller == stack[Len(stack)]
Callers == SubSeq(stack, 1, Len(stack) - 1)
DepsOfTop == Dependencies(Caller.name, selected[Caller.name])

\* for name, cnst := range constraintsSortedCopy(constraints)
WalkRoot ==
  /\ status = "running" /\ stack = <<>>
  /\ \E n \in todo :
       /\ Walk(n, manifest[n], <<>>)
       /\ todo' = todo \ {n}
  /\ UNCHANGED <<registry, manifest>>

\* Mutation of WalkDependency: the loop does not advance.
WalkSameDependency ==
  /\ status = "running" /\ stack # <<>>
  /\ Caller.next <= Len(DepsOfTop)
  /\ LET d == DepsOfTop[Caller.next] IN Walk(d.name, d.range, stack)
  /\ UNCHANGED <<registry, manifest, todo>>

\* for _, d := range deps { walk(d.Name, d.Range) }
WalkDependency ==
  /\ status = "running" /\ stack # <<>>
  /\ Caller.next <= Len(DepsOfTop)
  /\ LET d == DepsOfTop[Caller.next]
     IN  Walk(d.name, d.range, Append(Callers, [Caller EXCEPT !.next = @ + 1]))
  /\ UNCHANGED <<registry, manifest, todo>>

\* walk returns nil to its caller.
ReturnFromWalk ==
  /\ status = "running" /\ stack # <<>>
  /\ Caller.next > Len(DepsOfTop)
  /\ stack' = Callers
  /\ UNCHANGED <<registry, manifest, todo, constraints, selected, status>>

\* The Resolution is built from selected.
Resolved ==
  /\ status = "running" /\ stack = <<>> /\ todo = {}
  /\ status' = "ok"
  /\ UNCHANGED <<registry, manifest, todo, constraints, selected, stack>>

ResolverNext == WalkRoot \/ WalkDependency \/ ReturnFromWalk \/ Resolved

\* Resolve is sequential code that runs to its end.
ResolverSpec == ResolverInit /\ [][ResolverNext]_resolverVars /\ WF_resolverVars(ResolverNext)

-----------------------------------------------------------------------------
(* Properties *)

DepSet(n) == {Dependencies(n, selected[n])[i] : i \in DOMAIN Dependencies(n, selected[n])}
Needs(n, m) == \E d \in DepSet(n) : d.name = m

\* Whatever the order of the walks and of the tightening, a successful
\* resolution satisfies every constraint of the root and of every selected
\* version, selects what they need and nothing else, and every selected
\* version is published.
ResolutionSound ==
  status = "ok" =>
    /\ \A n \in DOMAIN manifest :
         n \in DOMAIN selected /\ Contains(manifest[n], selected[n])
    /\ \A n \in DOMAIN selected :
         /\ \E i \in DOMAIN registry.versions[n] : registry.versions[n][i] = selected[n]
         /\ \A d \in DepSet(n) :
              d.name \in DOMAIN selected /\ Contains(d.range, selected[d.name])
         /\ n \in DOMAIN manifest \/ \E m \in DOMAIN selected : Needs(m, n)

\* A successful resolution has no dependency cycle: every set of selected
\* packages has a member that needs none of the set.
ResolutionAcyclic ==
  status = "ok" =>
    \A S \in SUBSET DOMAIN selected :
      S # {} => \E n \in S : \A m \in S : ~Needs(n, m)

\* A "cycle" error is never a false alarm: the packages on the reported path
\* need one another in order, and the last one needs an earlier one.
CycleIsReal ==
  status = "cycle" =>
    /\ stack # <<>>
    /\ \A i \in 1 .. Len(stack) - 1 : Needs(stack[i].name, stack[i + 1].name)
    /\ \E i \in DOMAIN stack : stack[i].name = DepsOfTop[Caller.next].name

\* Resolution ends, cyclic registries included.
ResolutionEnds == <>(status # "running")
=============================================================================
