--------------------------- MODULE PkgResolverTwice ---------------------------
(***************************************************************************)
(* Two runs of Resolver.Resolve on the same manifest and the same          *)
(* registry, one after the other.  The runs differ only in the order in    *)
(* which Go's map iteration hands out the root constraints.                *)
(***************************************************************************)
EXTENDS MCPkgResolver

VARIABLES todo2, constraints2, selected2, stack2, status2

second == <<todo2, constraints2, selected2, stack2, status2>>
both   == <<resolverVars, second>>

Second == INSTANCE PkgResolver WITH
  todo <- todo2, constraints <- constraints2, selected <- selected2,
  stack <- stack2, status <- status2

\* The manifest is one, so both runs reject it before the walk, or neither does.
TwiceInit == ResolverInit /\ Second!ResolverInit /\ status = status2

TwiceNext ==
  \/ ResolverNext /\ UNCHANGED second
  \/ status # "running" /\ Second!ResolverNext /\ UNCHANGED resolverVars

TwiceSpec == TwiceInit /\ [][TwiceNext]_both

\* constraintsSortedCopy: "Rule 7.1: the resolver's iteration is not dependent
\* on map-hash ordering".  Two resolutions of the same inputs agree.
IterationOrderIrrelevant ==
  status # "running" /\ status2 # "running" =>
    status = status2 /\ (status = "ok" => selected = selected2)
=============================================================================
