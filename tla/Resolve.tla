-------------------------------- MODULE Resolve --------------------------------
(***************************************************************************)
(* compiler/resolve: name resolution over the module graph.  The passes    *)
(* run one after the other; imports are resolved module by module, and the *)
(* names they bind are visible to the imports resolved after them.  Import *)
(* cycles are found by Tarjan's algorithm, its recursion kept as frames.   *)
(*                                                                         *)
(* A module path is the sequence of its segments.  A symbol is written out *)
(* instead of being an index into the symbol table; an alias holds its     *)
(* target.                                                                 *)
(***************************************************************************)
EXTENDS Naturals, Sequences, FiniteSets

CONSTANTS Order,    \* the module paths, sorted (graph.Order)
          Trees     \* source trees: items, imports and uses of every module

\* A module has finitely many uses, and a path that is used has a segment.
ASSUME TreesAssumption ==
  /\ Order \in Seq(Seq(STRING))
  /\ \A t \in Trees : \A i \in DOMAIN Order :
       /\ IsFiniteSet(t.uses[Order[i]])
       /\ \A u \in t.uses[Order[i]] : u.path \in Seq(STRING) \ {<<>>}

VARIABLES tree,      \* the source files
          pass,      \* the pass, and how far it is
          scopes,    \* Module.Scope: module -> name -> symbol
          edges,     \* graph.Edges
          indices, lowlink, sccStack, frames,   \* the locals of detectImportCycles, its calls
          cycles,    \* the reported cycles, in order
          bindings,  \* Resolved.Bindings
          refused    \* the diagnostics, by what they are about

tarjan == <<indices, lowlink, sccStack, frames>>
resolveVars == <<tree, pass, scopes, edges, tarjan, cycles, bindings, refused>>

\* A pass at its beginning; the loop over imports counts modules and imports.
Begin(name) == [name |-> name, mod |-> 1, at |-> 1]

Modules == {Order[i] : i \in DOMAIN Order}
NoSymbol == [kind |-> "none"]
Symbol(kind, mod, name, vis) == [kind |-> kind, mod |-> mod, name |-> name, vis |-> vis]
ModuleSymbol(m) == Symbol("module", m, "", "pub")
Lookup(m, n) == IF n \in DOMAIN scopes[m] THEN scopes[m][n] ELSE NoSymbol
Insert(scope, n, s) == [x \in DOMAIN scope \cup {n} |-> IF x = n THEN s ELSE scope[x]]
Prefix(p) == SubSeq(p, 1, Len(p) - 1)
Tail1(p) == p[Len(p)]

ResolveInit ==
  /\ tree = <<>>
  /\ pass = Begin("start")
  /\ scopes = [m \in Modules |-> [n \in {} |-> NoSymbol]]
  /\ edges = [m \in Modules |-> {}]
  /\ indices = [m \in {} |-> 0] /\ lowlink = [m \in {} |-> 0]
  /\ sccStack = <<>> /\ frames = <<>>
  /\ cycles = <<>> /\ bindings = {} /\ refused = {}

BuildGraph ==
  /\ pass.name = "start"
  /\ tree' \in Trees
  /\ pass' = Begin("index")
  /\ UNCHANGED <<scopes, edges, tarjan, cycles, bindings, refused>>

-----------------------------------------------------------------------------
(* index: items, and the variants of an enum after it *)

\* The names item i declares: its own, and those of its variants when it was
\* entered itself.
NamesOf(m, i, entered) ==
  LET it == tree.items[m][i]
  IN  {it.name} \cup (IF entered THEN {it.variants[v] : v \in DOMAIN it.variants} ELSE {})

\* Entered(m)[i]: no item before item i of m declares its name.
Entered(m) ==
  LET entered[i \in DOMAIN tree.items[m]] ==
        \A j \in 1 .. i - 1 : tree.items[m][i].name \notin NamesOf(m, j, entered[j])
  IN  entered

\* Where a name is declared: by an item, or by the v-th variant of one that was
\* entered (indexEnumVariants).
Places(m) ==
  UNION {{<<i, v>> : v \in 0 .. IF Entered(m)[i] THEN Len(tree.items[m][i].variants) ELSE 0} :
           i \in DOMAIN tree.items[m]}
Precedes(p, q) == p[1] < q[1] \/ (p[1] = q[1] /\ p[2] < q[2])

Declared(m, p) ==
  LET it == tree.items[m][p[1]]
  IN  IF p[2] = 0 THEN Symbol(IF it.variants = <<>> THEN "item" ELSE "enum", m, it.name, it.vis)
      ELSE [kind |-> "variant", mod |-> m, name |-> it.variants[p[2]], vis |-> it.vis, of |-> it.name]

\* The declaration that keeps name n in m: the first (indexOneID).
First(m, n) ==
  CHOOSE p \in Places(m) : /\ Declared(m, p).name = n
                           /\ \A q \in Places(m) : Precedes(q, p) => Declared(m, q).name # n

Index ==
  /\ pass.name = "index"
  /\ scopes' = [m \in Modules |->
                  [n \in {Declared(m, p).name : p \in Places(m)} |-> Declared(m, First(m, n))]]
  /\ refused' = UNION {{[what |-> "duplicate", site |-> "item", mod |-> m, path |-> <<Declared(m, p).name>>] :
                          p \in {q \in Places(m) : First(m, Declared(m, q).name) # q}} :
                       m \in Modules}
  /\ pass' = Begin("imports")
  /\ UNCHANGED <<tree, edges, tarjan, cycles, bindings>>

-----------------------------------------------------------------------------
(* resolveImports *)

\* Mutation of AliasVis: a re-export is public.
AliasPub(target) == "pub"

\* bindImportAlias: the alias has its target's visibility.
AliasVis(target) == target.vis

\* resolveOneImport: the path as a module, else its last segment as a name in
\* the scope of the module before it, as that scope is by now.
Target(imp) ==
  IF imp.path \in Modules THEN ModuleSymbol(imp.path)
  ELSE IF Len(imp.path) >= 2 /\ Prefix(imp.path) \in Modules
    THEN Lookup(Prefix(imp.path), Tail1(imp.path))
  ELSE NoSymbol

Imports == tree.imports[Order[pass.mod]]

ResolveOneImport ==
  /\ pass.name = "imports" /\ pass.mod <= Len(Order) /\ pass.at <= Len(Imports)
  /\ LET imp == Imports[pass.at]
         m == Order[pass.mod]
         target == Target(imp)
         taken == imp.as \in DOMAIN scopes[m]
         alias == [kind |-> "alias", mod |-> m, name |-> imp.as, vis |-> AliasVis(target),
                   target |-> target]
         complaint(what) == {[what |-> what, site |-> "import", mod |-> m, path |-> imp.path]}
     IN  IF target = NoSymbol
           THEN refused' = refused \cup complaint("import") /\ UNCHANGED <<scopes, edges, bindings>>
         ELSE /\ bindings' = bindings \cup {[site |-> "import", mod |-> m, path |-> imp.path, sym |-> target]}
              /\ edges' = [edges EXCEPT ![m] = @ \cup
                             {IF imp.path \in Modules THEN imp.path ELSE Prefix(imp.path)}]
              /\ scopes' = IF taken THEN scopes
                           ELSE [scopes EXCEPT ![m] = Insert(@, imp.as, alias)]
              /\ refused' = IF taken THEN refused \cup complaint("conflict") ELSE refused
  /\ pass' = [pass EXCEPT !.at = @ + 1]
  /\ UNCHANGED <<tree, tarjan, cycles>>

NextModule ==
  /\ pass.name = "imports" /\ pass.mod <= Len(Order) /\ pass.at > Len(Imports)
  /\ pass' = [pass EXCEPT !.mod = @ + 1, !.at = 1]
  /\ UNCHANGED <<tree, scopes, edges, tarjan, cycles, bindings, refused>>

ImportsDone ==
  /\ pass.name = "imports" /\ pass.mod > Len(Order)
  /\ pass' = Begin("cycles")
  /\ UNCHANGED <<tree, scopes, edges, tarjan, cycles, bindings, refused>>

-----------------------------------------------------------------------------
(* detectImportCycles *)

\* A call of strong: its module and the imports its loop has yet to visit.
Frame == frames[Len(frames)]
Seen(v) == v \in DOMAIN indices
OnStack(v) == \E i \in DOMAIN sccStack : sccStack[i] = v
Lesser(a, b) == IF a < b THEN a ELSE b

\* The module of S that comes first in the sorted order (finalize).
IsFirst(w, S) ==
  w \in S /\ \E i \in DOMAIN Order : Order[i] = w /\ \A j \in 1 .. i - 1 : Order[j] \notin S

\* strong(v) as far as its loop; callers are the frames below.
Enter(v, callers) ==
  LET idx == Cardinality(DOMAIN indices)
  IN  /\ indices' = Insert(indices, v, idx) /\ lowlink' = Insert(lowlink, v, idx)
      /\ sccStack' = Append(sccStack, v)
      /\ frames' = Append(callers, [v |-> v, left |-> edges[v]])

StrongRoot ==
  /\ pass.name = "cycles" /\ frames = <<>>
  /\ \E v \in Modules : IsFirst(v, {m \in Modules : ~Seen(m)}) /\ Enter(v, <<>>)
  /\ UNCHANGED <<tree, pass, scopes, edges, cycles, bindings, refused>>

\* The loop of the call on top goes on to w.
Visits(w) ==
  /\ pass.name = "cycles" /\ frames # <<>> /\ IsFirst(w, Frame.left)
  /\ UNCHANGED <<tree, pass, scopes, edges, cycles, bindings, refused>>
Passed(w) == [frames EXCEPT ![Len(frames)] = [v |-> Frame.v, left |-> Frame.left \ {w}]]

StrongNew ==
  \E w \in Modules : Visits(w) /\ ~Seen(w) /\ Enter(w, Passed(w))

\* Mutation of StrongSeen: the index of a module that is in no component yet
\* and of one that is already in another are treated alike.
StrongSeenAny ==
  \E w \in Modules :
    /\ Visits(w) /\ Seen(w)
    /\ lowlink' = [lowlink EXCEPT ![Frame.v] = Lesser(@, indices[w])]
    /\ frames' = Passed(w)
    /\ UNCHANGED <<indices, sccStack>>

\* A module that was entered before and is still on the stack lowers the link.
StrongSeen ==
  \E w \in Modules :
    /\ Visits(w) /\ Seen(w)
    /\ lowlink' = IF OnStack(w) THEN [lowlink EXCEPT ![Frame.v] = Lesser(@, indices[w])] ELSE lowlink
    /\ frames' = Passed(w)
    /\ UNCHANGED <<indices, sccStack>>

\* The loop is over: a root pops its component, and the caller takes over the
\* low link.
StrongReturn ==
  /\ pass.name = "cycles" /\ frames # <<>> /\ Frame.left = {}
  /\ LET v == Frame.v
         n == Len(frames)
         at == CHOOSE i \in DOMAIN sccStack : sccStack[i] = v
         root == lowlink[v] = indices[v]
         scc == {sccStack[i] : i \in at .. Len(sccStack)}
     IN  /\ cycles' = IF root /\ (Cardinality(scc) > 1 \/ v \in edges[v])
                        THEN Append(cycles, scc) ELSE cycles
         /\ sccStack' = IF root THEN SubSeq(sccStack, 1, at - 1) ELSE sccStack
         /\ frames' = SubSeq(frames, 1, n - 1)
         /\ lowlink' = IF n = 1 THEN lowlink
                       ELSE [lowlink EXCEPT ![frames[n - 1].v] = Lesser(@, lowlink[v])]
  /\ UNCHANGED <<tree, pass, scopes, edges, indices, bindings, refused>>

CyclesDone ==
  /\ pass.name = "cycles" /\ frames = <<>> /\ \A m \in Modules : Seen(m)
  /\ pass' = Begin("paths")
  /\ UNCHANGED <<tree, scopes, edges, tarjan, cycles, bindings, refused>>

-----------------------------------------------------------------------------
(* resolveAllPaths *)

MaxHops == 8    \* the loop bound of followAlias

Hop(s) == IF s.kind = "alias" THEN s.target ELSE s
FollowAlias(s, hops) ==
  LET at[k \in 0 .. hops] == IF k = 0 THEN s ELSE Hop(at[k - 1])
  IN  at[hops]

\* `Enum.Variant': variants are entered in the scope of the enum's module.
VariantOf(enum, n) ==
  LET v == Lookup(enum.mod, n)
  IN  IF v.kind = "variant" /\ v.name = n /\ v.of = enum.name THEN v ELSE NoSymbol

EnumIn(m, n) ==
  LET s == FollowAlias(Lookup(m, n), MaxHops) IN IF s.kind = "enum" THEN s ELSE NoSymbol

\* walkModulePath: down the submodules that rest names, to an item, to a variant
\* of an enum, or to a segment that is neither.
WalkModulePath(m, rest) ==
  LET n == Len(rest)
      cur(i) == m \o SubSeq(rest, 1, i)
      enumAt(i) == i = n - 2 /\ EnumIn(cur(i), rest[n - 1]) # NoSymbol
      stops(i) == i = n - 1 \/ enumAt(i) \/ cur(i + 1) \notin Modules
      i == CHOOSE k \in 0 .. n - 1 : stops(k) /\ \A j \in 0 .. k - 1 : ~stops(j)
  IN  IF i = n - 1 THEN FollowAlias(Lookup(cur(i), rest[n]), MaxHops)
      ELSE IF enumAt(i) THEN VariantOf(EnumIn(cur(i), rest[n - 1]), rest[n])
      ELSE NoSymbol

\* resolveViaModuleGraph: the longest prefix that is a module.
ViaModuleGraph(p) ==
  LET starts == {i \in 1 .. Len(p) - 1 : SubSeq(p, 1, i) \in Modules}
      longest == CHOOSE i \in starts : \A j \in starts : j <= i
  IN  IF starts = {} THEN NoSymbol
      ELSE WalkModulePath(SubSeq(p, 1, longest), SubSeq(p, longest + 1, Len(p)))

ResolvePath(m, p) ==
  LET first == FollowAlias(Lookup(m, p[1]), MaxHops)
  IN  IF Len(p) = 1 THEN first
      ELSE IF first = NoSymbol THEN ViaModuleGraph(p)
      ELSE IF first.kind = "enum" /\ Len(p) = 2 THEN VariantOf(first, p[2])
      ELSE IF first.kind = "module" THEN WalkModulePath(first.mod, Tail(p))
      ELSE IF first.kind = "alias" /\ first.target.kind = "module"
        THEN WalkModulePath(first.target.mod, Tail(p))
      ELSE NoSymbol

\* tryResolveFieldChainAsPath: a.b.c is a path when a is a module or an enum
\* in scope, else a field access.
IsPath(m, use) ==
  use.kind = "field" => FollowAlias(Lookup(m, use.path[1]), MaxHops).kind \in {"module", "enum"}

\* A single name that is not found may be a local or a type parameter, but not
\* in a constructor pattern.
MustResolve(use) == Len(use.path) > 1 \/ use.kind = "ctor"

ResolveAllPaths ==
  /\ pass.name = "paths"
  /\ LET uses == UNION {{[mod |-> m, use |-> u] : u \in {v \in tree.uses[m] : IsPath(m, v)}} : m \in Modules}
         lost == {u \in uses : ResolvePath(u.mod, u.use.path) = NoSymbol}
     IN  /\ bindings' = bindings \cup
              {[site |-> u.use.kind, mod |-> u.mod, path |-> u.use.path,
                sym |-> ResolvePath(u.mod, u.use.path)] : u \in uses \ lost}
         /\ refused' = refused \cup
              {[what |-> "path", site |-> u.use.kind, mod |-> u.mod, path |-> u.use.path] :
                 u \in {l \in lost : MustResolve(l.use)}}
  /\ pass' = Begin("visibility")
  /\ UNCHANGED <<tree, scopes, edges, tarjan, cycles>>

-----------------------------------------------------------------------------
(* enforceVisibility *)

IsDescendant(ancestor, m) == Len(ancestor) <= Len(m) /\ SubSeq(m, 1, Len(ancestor)) = ancestor

IsVisibleFrom(s, m) ==
  \/ s.mod = m
  \/ s.vis \in {"pub", "pub(pkg)"}
  \/ s.vis = "pub(mod)" /\ IsDescendant(s.mod, m)

EnforceVisibility ==
  /\ pass.name = "visibility"
  /\ refused' = refused \cup {[what |-> "visibility", site |-> b.site, mod |-> b.mod, path |-> b.path] :
                                b \in {c \in bindings : ~IsVisibleFrom(c.sym, c.mod)}}
  /\ pass' = Begin("done")
  /\ UNCHANGED <<tree, scopes, edges, tarjan, cycles, bindings>>

ResolveNext ==
  \/ BuildGraph \/ Index \/ ResolveOneImport \/ NextModule \/ ImportsDone
  \/ StrongRoot \/ StrongNew \/ StrongSeen \/ StrongReturn \/ CyclesDone
  \/ ResolveAllPaths \/ EnforceVisibility

ResolveSpec == ResolveInit /\ [][ResolveNext]_resolveVars

-----------------------------------------------------------------------------
(* Properties *)

\* The modules reached from m along imports: the least set that has the imports
\* of m and with each module its imports.
Closed(graph, S) == \A x \in S : graph[x] \subseteq S
Reach(graph, m) ==
  {w \in Modules : \A S \in SUBSET Modules : graph[m] \subseteq S /\ Closed(graph, S) => w \in S}
Component(graph, m) == {w \in Reach(graph, m) : m \in Reach(graph, w)}

\* Every import cycle is reported, in one diagnostic that names exactly the
\* modules of its strongly connected component; a module that imports itself
\* is a cycle, and a tree without cycles gets no diagnostic.
CyclesReportedOnce ==
  pass.name \in {"paths", "visibility", "done"} =>
    /\ {cycles[i] : i \in DOMAIN cycles} =
         {Component(edges, m) : m \in {x \in Modules : x \in Reach(edges, x)}}
    /\ \A i, j \in DOMAIN cycles : cycles[i] = cycles[j] => i = j

Refused(b) == \E r \in refused : r.site = b.site /\ r.mod = b.mod /\ r.path = b.path

\* Visibility holds through re-exports: when every import was accepted, an
\* import or a use that got no diagnostic is bound to an item its module may
\* see itself, and so are the aliases in between, however many there are and
\* whatever visibility they carry (bindImportAlias, enforceVisibility).  Each
\* alias on the way to an item has a binding of its own.
AcceptedNamesAreVisible ==
  (pass.name = "done" /\ \A r \in refused : r.site # "import") =>
    \A b \in bindings : Refused(b) \/
      \A hops \in 0 .. Cardinality(bindings) : IsVisibleFrom(FollowAlias(b.sym, hops), b.mod)
=============================================================================
