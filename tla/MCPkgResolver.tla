---------------------------- MODULE MCPkgResolver ----------------------------
(***************************************************************************)
(* Every registry over three packages in which a and b have two versions   *)
(* with at most one dependency each and c has no dependencies, with every  *)
(* manifest over a, b and c.                                               *)
(***************************************************************************)
EXTENDS PkgResolver

V1 == Ver(1, 0, 0)
V2 == Ver(2, 0, 0)
AnyRange == From(Zero0)
Caret1 == Between(V1, CaretUpper(V1))
Caret2 == Between(V2, CaretUpper(V2))
MCNames == {"a", "b", "c"}

On(n, r) == <<[name |-> n, range |-> r]>>
DepsOfA == {<<>>, On("b", AnyRange), On("b", Caret1), On("c", Caret1)}
DepsOfB == {<<>>, On("a", AnyRange), On("c", Caret1)}

MCRegistries ==
  {[versions |-> [n \in MCNames |-> CASE n = "c" -> cs [] OTHER -> <<V2, V1>>],
    deps |-> [n \in MCNames |->
                CASE n = "a" -> da [] n = "b" -> db
                  [] OTHER -> [v \in {V1, V2} |-> <<>>]]] :
     da \in [{V1, V2} -> DepsOfA], db \in [{V1, V2} -> DepsOfB],
     cs \in {<<V2, V1>>, <<>>}}

MCManifests ==
  UNION {[D -> {AnyRange, Caret2}] : D \in SUBSET MCNames}

\* One ordinary project: the root uses a and c, and a is pinned to c 1.x.
OneRegistry ==
  {[versions |-> [n \in MCNames |-> <<V2, V1>>],
    deps |-> [n \in MCNames |-> [v \in {V1, V2} |->
                IF n = "a" THEN On("c", Caret1) ELSE <<>>]]]}
OneManifest == {[n \in {"a", "c"} |-> AnyRange]}
=============================================================================
