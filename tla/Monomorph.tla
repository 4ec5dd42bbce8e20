------------------------------ MODULE Monomorph ------------------------------
(***************************************************************************)
(* compiler/monomorph: Specialize turns a program with generic functions   *)
(* into one with a concrete copy per (generic function, type arguments).   *)
(* The passes of Specialize are the actions; they share the maps of the    *)
(* struct monomorph.  A function body is reduced to the types of its nodes *)
(* and the calls in it; `walked' tells the calls inside the expressions    *)
(* and statements the passes visit from those inside the ones they do not  *)
(* (loops, match, closures, struct literals, field access, references).    *)
(*                                                                         *)
(* TypeIds stand for the types themselves: CompilerProofs shows that the   *)
(* interner makes that the same thing.                                     *)
(***************************************************************************)
EXTENDS Naturals, Sequences, FiniteSets

CONSTANT Sources    \* HIR programs: sequences of items, in program order

VARIABLES input,     \* m.prog
          phase,     \* the pass that runs next
          bySymbol,  \* genericFnBySym: symbol -> index of a generic function
          wanted,    \* instByKey: the instances asked for
          copies,    \* the specialised functions
          output,    \* m.out: the functions that reach lowering
          rejected   \* m.diags: the calls reported

monoVars == <<input, phase, bySymbol, wanted, copies, output, rejected>>

-----------------------------------------------------------------------------
(* Types and substitution *)

\* A type is a tree: the node at each path, a path the numbers of the parts it
\* goes through.  `of' is the declaration of a nominal type or of a generic
\* parameter: its name as safeName spells it, and what else tells it from others.
NominalTypes == {"Struct", "Enum", "Union", "Trait", "TypeAlias"}
Undeclared == [name |-> "", where |-> ""]

Ty(kind, parts, of) ==
  [p \in {<<>>} \cup UNION {{<<i>> \o q : q \in DOMAIN parts[i]} : i \in DOMAIN parts} |->
     IF p = <<>> THEN [kind |-> kind, of |-> of] ELSE parts[p[1]][Tail(p)]]

Prefixes(p) == {SubSeq(p, 1, k) : k \in 0 .. Len(p)}
Enclosing(p) == Prefixes(p) \ {p}

\* The part of t at p.
PartAt(t, p) == [q \in {SubSeq(r, Len(p) + 1, Len(r)) : r \in {s \in DOMAIN t : p \in Prefixes(s)}} |-> t[p \o q]]

\* t with the parts at the paths of `at' replaced.
Graft(t, subst, at) ==
  LET kept == {p \in DOMAIN t : at \cap Prefixes(p) = {}}
      new == UNION {{a \o q : q \in DOMAIN subst[PartAt(t, a)]} : a \in at}
      root(p) == CHOOSE a \in at : a \in Prefixes(p)
  IN  [p \in kept \cup new |->
         IF p \in kept THEN t[p]
         ELSE subst[PartAt(t, root(p))][SubSeq(p, Len(root(p)) + 1, Len(p))]]

\* The kinds substType rebuilds from their parts; it returns every other type,
\* arrays, trait objects and nominal types with type arguments too, unchanged.
Rebuilt == {"Tuple", "Slice", "Ptr", "Ref", "Mutref", "Fn", "Chan", "ThreadHandle"}

\* Mutation of SubstType: only the type itself is replaced, not its parts.
SubstTop(t, subst) == IF t \in DOMAIN subst THEN subst[t] ELSE t

\* substType goes down through types it rebuilds, to those to be replaced.
SubstType(t, subst) ==
  Graft(t, subst, {p \in DOMAIN t : /\ PartAt(t, p) \in DOMAIN subst
                                    /\ \A q \in Enclosing(p) : t[q].kind \in Rebuilt /\ PartAt(t, q) \notin DOMAIN subst})

\* ItemTypes: what the bridge binds to an item's symbol.  Methods of an impl
\* have no entry.
ItemType(f) == IF f.item = "fn" THEN Ty("Fn", f.sig, Undeclared) ELSE f.sig[1]
HasSymbol(f) == f.item # "method"
IsGeneric(f) == f.item = "fn" /\ f.generics # <<>>

\* Symbols: an item's own, or the fresh one of an instance, which has type
\* arguments.
Own(n) == [of |-> n, targs |-> <<>>]

\* A name is <<base, arguments>>, an item's own without arguments.
\* typeNameForMangle: of a nominal type the name, of others the kind; the parts
\* of structural types are not spelled out.
MangledType(t) ==
  [kind |-> t[<<>>].kind,
   name |-> IF t[<<>>].kind \in NominalTypes THEN t[<<>>].of.name ELSE "",
   arity |-> IF t[<<>>].kind = "Tuple" THEN Cardinality({p \in DOMAIN t : Len(p) = 1}) ELSE 0]
MangledName(f, targs) == <<f.name[1], [i \in DOMAIN targs |-> MangledType(targs[i])]>>

-----------------------------------------------------------------------------
(* Programs, as the bridge hands them over *)

IsType(t) ==
  /\ t \in [DOMAIN t -> [kind : STRING, of : [name : STRING, where : STRING]]]
  /\ <<>> \in DOMAIN t
  /\ \A p \in DOMAIN t :
       /\ p \in Seq(Nat) /\ Prefixes(p) \subseteq DOMAIN t
       /\ t[p].kind \in NominalTypes \cup {"Param"} \/ t[p].of = Undeclared

IsCall(c, prog) ==
  /\ DOMAIN c = {"callee", "targs", "walked"}
  /\ \E i \in DOMAIN prog : prog[i].sym = c.callee /\ HasSymbol(prog[i])
  /\ c.targs \in Seq({c.targs[j] : j \in DOMAIN c.targs})
  /\ \A j \in DOMAIN c.targs : IsType(c.targs[j])

\* The bridge gives the parameters of a function types of their own.
IsItem(f, prog) ==
  /\ DOMAIN f = {"sym", "name", "item", "mod", "generics", "sig", "types", "calls"}
  /\ f.sym = Own(f.sym.of)
  /\ f.item = "const" => f.generics = <<>>
  /\ \A i, j \in DOMAIN f.generics : f.generics[i] = f.generics[j] => i = j
  /\ \A i \in DOMAIN f.generics : IsType(f.generics[i]) /\ f.generics[i][<<>>].kind = "Param"
  /\ \A i \in DOMAIN f.sig : IsType(f.sig[i])
  /\ \A i \in DOMAIN f.types : IsType(f.types[i])
  /\ \A k \in DOMAIN f.calls : IsCall(f.calls[k], prog)

\* The resolver gives each item a symbol, and refuses a second item of its name
\* in a module.
ASSUME SourcesAssumption ==
  \A prog \in Sources : \A i \in DOMAIN prog :
    /\ prog[i].item \in {"fn", "method", "const"}
    /\ IsItem(prog[i], prog)
    /\ \A j \in DOMAIN prog :
         \/ i = j
         \/ /\ prog[i].sym # prog[j].sym
            /\ \/ prog[i].mod # prog[j].mod \/ prog[i].name[1] # prog[j].name[1]
               \/ ~HasSymbol(prog[i]) \/ ~HasSymbol(prog[j])

-----------------------------------------------------------------------------
(* The passes *)

MonoInit ==
  /\ input = <<>>
  /\ phase = "start"
  /\ bySymbol = [s \in {} |-> 0]
  /\ wanted = {} /\ copies = {} /\ output = {} /\ rejected = {}

\* newMono: every map starts empty.
NewMono ==
  /\ phase = "start"
  /\ input' \in Sources
  /\ phase' = "index"
  /\ UNCHANGED <<bySymbol, wanted, copies, output, rejected>>

Generics == {i \in DOMAIN input : IsGeneric(input[i])}

\* The loop over ItemTypes takes the first symbol, in map order, that has the
\* function's TypeId: any symbol of that type, the function's own or another's.
\* Of two generic functions that take the same symbol the later one keeps it.
IndexGenerics ==
  /\ phase = "index"
  /\ \E first \in [Generics -> {input[j].sym : j \in DOMAIN input}] :
       /\ \A i \in Generics : \E j \in DOMAIN input :
            /\ first[i] = input[j].sym /\ HasSymbol(input[j])
            /\ ItemType(input[j]) = ItemType(input[i])
       /\ bySymbol' = [s \in {first[i] : i \in Generics} |->
                         CHOOSE i \in Generics : first[i] = s /\
                           \A j \in Generics : first[j] = s => j <= i]
  /\ phase' = "collect"
  /\ UNCHANGED <<input, wanted, copies, output, rejected>>

Calls(f) == {f.calls[k] : k \in DOMAIN f.calls}

\* considerCall rejects a call without type arguments and one with a wrong
\* number of them; bodies of generic functions are walked like any other.
Considered == {c \in UNION {Calls(input[i]) : i \in DOMAIN input} :
                 c.walked /\ c.callee \in DOMAIN bySymbol}
Fits(c) == Len(c.targs) > 0 /\ Len(c.targs) = Len(input[bySymbol[c.callee]].generics)

\* instKey: what tells one instance from another.
InstanceKey(c) == [of |-> c.callee.of, targs |-> c.targs]

CollectInstantiations ==
  /\ phase = "collect"
  /\ wanted' = {InstanceKey(c) : c \in {d \in Considered : Fits(d)}}
  /\ rejected' = {c \in Considered : ~Fits(c)}
  /\ phase' = "specialize"
  /\ UNCHANGED <<input, bySymbol, copies, output>>

\* copyBlock and its kind: PathExpr keeps its symbol and loses its type
\* arguments; expressions of the kinds that are not walked are shared as they
\* are.
CopyCall(c) == IF c.walked THEN [c EXCEPT !.targs = <<>>] ELSE c

\* specializeFn.  A spec's symbol is fresh: one per instance.
SpecializeFn(key) ==
  LET f == input[bySymbol[Own(key.of)]]
      subst == [p \in {f.generics[i] : i \in DOMAIN f.generics} |->
                  key.targs[CHOOSE i \in DOMAIN f.generics : f.generics[i] = p]]
      substituted(ts) == [i \in DOMAIN ts |-> SubstType(ts[i], subst)]
  IN  [sym |-> key, item |-> "fn", mod |-> f.mod, name |-> MangledName(f, key.targs), generics |-> <<>>,
       sig |-> substituted(f.sig), types |-> substituted(f.types),
       calls |-> [k \in DOMAIN f.calls |-> CopyCall(f.calls[k])]]

SpecializeAll ==
  /\ phase = "specialize"
  /\ copies' = {SpecializeFn(key) : key \in wanted}
  /\ phase' = "rewrite"
  /\ UNCHANGED <<input, bySymbol, wanted, output, rejected>>

\* rewriteExpr retargets a recorded call to its instance.
RewriteCall(c) ==
  IF c \in Considered /\ Fits(c)
    THEN [c EXCEPT !.callee = InstanceKey(c), !.targs = <<>>] ELSE c

\* Bodies of functions and methods are rewritten in place, the copies made
\* before are not, and neither are the initialisers of consts and statics.
RewriteItem(f) ==
  IF f.item = "const" THEN f
  ELSE [f EXCEPT !.calls = [k \in DOMAIN f.calls |-> RewriteCall(f.calls[k])]]

\* rewriteCallSites and buildOutput: the generic originals are dropped, and
\* what is left is joined by the copies.
BuildOutput ==
  /\ phase = "rewrite"
  /\ output' = {RewriteItem(input[i]) : i \in DOMAIN input \ Generics} \cup copies
  /\ phase' = "done"
  /\ UNCHANGED <<input, bySymbol, wanted, copies, rejected>>

MonoNext == NewMono \/ IndexGenerics \/ CollectInstantiations \/ SpecializeAll \/ BuildOutput

MonoSpec == MonoInit /\ [][MonoNext]_monoVars

-----------------------------------------------------------------------------
(* Properties *)

\* Substitution as the language means it: at any depth, in every kind of type.
Instantiated(t, subst) == Graft(t, subst, {p \in DOMAIN t : PartAt(t, p) \in DOMAIN subst})

HidesParam(t) ==
  \E p \in DOMAIN t : t[p].kind = "Param" /\ \E q \in Enclosing(p) : t[q].kind \notin Rebuilt

\* o is f under the type arguments of a call.
IsInstance(o, f, targs) ==
  LET subst == [p \in {f.generics[i] : i \in DOMAIN f.generics} |->
                  targs[CHOOSE i \in DOMAIN f.generics : f.generics[i] = p]]
      right(ts, us) == \A j \in DOMAIN us : ~HidesParam(us[j]) => ts[j] = Instantiated(us[j], subst)
  IN  o.mod = f.mod /\ right(o.sig, f.sig) /\ right(o.types, f.types)

ItemOf(sym) == input[CHOOSE i \in DOMAIN input : input[i].sym = sym]

\* Was the index right: every generic function under its own symbol?
Indexed == bySymbol = [s \in {input[i].sym : i \in Generics} |->
                         CHOOSE i \in Generics : input[i].sym = s]

\* "Only concrete instantiations reach codegen" (buildOutput), as far as the
\* passes reach.  When no call is reported and every generic function is found
\* under its own symbol: a walked call in a function or method that is not
\* generic targets an item of the output that is the instance its type
\* arguments ask for (up to parameters inside arrays, trait objects and nominal
\* types, which substType does not enter); a copy's calls of ordinary items
\* still find them; and copies that share a name differ in a type argument that
\* is structural, a parameter, or nominal and declared twice under one name.
OutputIsConcrete ==
  phase = "done" /\ rejected = {} /\ Indexed =>
    /\ \A i \in DOMAIN input \ Generics : \A k \in DOMAIN input[i].calls :
         input[i].calls[k].walked /\ input[i].item # "const" =>
           \E after \in output : after.sym = input[i].sym /\
             \E o \in output : o.sym = after.calls[k].callee /\
               IsInstance(o, ItemOf(input[i].calls[k].callee), input[i].calls[k].targs)
    /\ \A o \in copies : \A c \in Calls(o) :
         ~IsGeneric(ItemOf(c.callee)) => \E p \in output : p.sym = c.callee
    /\ \A o, p \in copies :
         o.mod = p.mod /\ o.name = p.name /\ o.sym # p.sym =>
           \E j \in DOMAIN o.sym.targs :
             LET s == o.sym.targs[j]
                 t == p.sym.targs[j]
             IN  /\ s # t
                 /\ \/ DOMAIN s # {<<>>} \/ DOMAIN t # {<<>>}
                    \/ s[<<>>].kind = "Param"
                    \/ s[<<>>].kind \in NominalTypes /\ s[<<>>].of.name = t[<<>>].of.name
=============================================================================
