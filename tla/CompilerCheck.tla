----------------------------- MODULE CompilerCheck -----------------------------
(***************************************************************************)
(* The inputs the compiler passes are checked on.                          *)
(***************************************************************************)
EXTENDS TypeTable, Monomorph, MCLiveness, Resolve

SmallPrimitives == <<"Unit">>

-----------------------------------------------------------------------------
(* Monomorph: main calls g, generic in T, and h: a generic function of two
   parameters, an ordinary function that calls g, a constant whose initialiser
   calls g, or a method that does.  g may have the type of h and call it. *)

Leaf(kind) == Ty(kind, <<>>, Undeclared)
UnitTy == Leaf("Unit")
I32Ty  == Leaf("I32")
BoolTy == Leaf("Bool")
Around(kind, t) == Ty(kind, <<t>>, Undeclared)
PtrTo(t) == Around("Ptr", t)
StructIn(m) == Ty("Struct", <<>>, [name |-> "S", where |-> m])
Param(fn, n) == Ty("Param", <<>>, [name |-> n, where |-> fn])
ParamT == Param("g", "T")
ParamU == Param("h", "U")
ParamV == Param("h", "V")

MainFn == Own(1)
GFn == Own(2)
HItem == Own(3)

CallOf(s, ts) == [callee |-> s, targs |-> ts, walked |-> TRUE]
Unwalked(c) == [c EXCEPT !.walked = FALSE]

Declare(s, n, item, mod, gs, sig, nodes, calls) ==
  [sym |-> s, name |-> <<n, <<>>>>, item |-> item, mod |-> mod, generics |-> gs, sig |-> sig,
   types |-> nodes, calls |-> calls]

CallsOfMain(others) ==
  LET one == {CallOf(GFn, ts) : ts \in {<<>>, <<I32Ty>>, <<PtrTo(BoolTy)>>, <<StructIn("m")>>, <<StructIn("n")>>,
                                        <<I32Ty, I32Ty>>}}
             \cup {Unwalked(CallOf(GFn, <<I32Ty>>))} \cup others
  IN  {<<>>} \cup {<<c>> : c \in one} \cup {<<c, d>> : c, d \in one}

GFns(calls) ==
  {Declare(GFn, "g", "fn", "m", <<ParamT>>, sig, <<sig[1]>>, cs) :
     sig \in {<<ParamT, ParamT>>, <<PtrTo(ParamT), I32Ty>>, <<Around("Array", PtrTo(ParamT)), ParamT>>,
              <<UnitTy>>},
     cs \in {<<>>, <<CallOf(MainFn, <<>>)>>} \cup calls}

Program(h, mainCalls, gCalls) ==
  {<<Declare(MainFn, "main", "fn", "m", <<>>, <<UnitTy>>, <<UnitTy>>, cs), g, h>> :
     cs \in CallsOfMain(mainCalls), g \in GFns(gCalls)}

SmallSources ==
  Program(Declare(HItem, "h", "fn", "n", <<ParamU, ParamV>>,
                  <<Ty("Tuple", <<ParamU, PtrTo(ParamV)>>, Undeclared), ParamU>>, <<ParamV>>, <<>>),
          {CallOf(HItem, <<I32Ty, BoolTy>>), CallOf(HItem, <<BoolTy, I32Ty>>)},
          {<<CallOf(HItem, <<ParamT, ParamT>>)>>})
  \cup Program(Declare(HItem, "h", "fn", "n", <<>>, <<UnitTy>>, <<>>, <<CallOf(GFn, <<BoolTy>>)>>),
               {CallOf(HItem, <<>>)}, {<<CallOf(HItem, <<>>)>>})
  \cup UNION {Program(Declare(HItem, "h", item, "n", <<>>, <<I32Ty>>, <<>>, <<CallOf(GFn, <<I32Ty>>)>>),
                      {}, {}) : item \in {"const", "method"}}

-----------------------------------------------------------------------------
(* Resolve: modules a, a.k and b.  One of them declares x, of any visibility,
   or b an enum x with a variant v and another that is called x too, or an enum
   x that comes too late; each imports at most one other module, or x through
   one; every name that could be meant is used.  Or nothing is declared and any
   module imports any, itself included. *)

SmallOrder == <<<<"a">>, <<"a", "k">>, <<"b">>>>

Import(p) == [path |-> p, as |-> p[Len(p)]]
OneImport(ms) == {<<>>} \cup UNION {{<<Import(p)>>, <<Import(Append(p, "x"))>>} : p \in ms}
OneImportEach == {im \in [Modules -> OneImport(Modules)] : \A m \in Modules : im[m] \in OneImport(Modules \ {m})}
EveryUse ==
  {[kind |-> "type", path |-> p] : p \in {<<"x">>, <<"b", "x">>, <<"a", "k", "x">>, <<"b", "x", "v">>}}
  \cup {[kind |-> "ctor", path |-> p] : p \in {<<"x">>, <<"x", "v">>}}
  \cup {[kind |-> "field", path |-> p] : p \in {<<"a", "x">>, <<"k", "x">>}}
OnlyItems(m, xs) == [n \in Modules |-> IF n = m THEN xs ELSE <<>>]
Plain(name, vis) == [name |-> name, vis |-> vis, variants |-> <<>>]
Enum(vis, variants) == [name |-> "x", vis |-> vis, variants |-> variants]
ImportsOf(S) == SelectSeq([i \in DOMAIN Order |-> Import(Order[i])], LAMBDA imp : imp.path \in S)

SmallTrees ==
  {[items |-> OnlyItems(m, <<Plain("x", vis)>>),
    imports |-> im, uses |-> [n \in Modules |-> EveryUse]] :
     m \in Modules, vis \in {"private", "pub(mod)", "pub"},
     im \in OneImportEach}
  \cup {[items |-> OnlyItems(<<"b">>, xs),
         imports |-> im, uses |-> [n \in Modules |-> EveryUse]] :
          xs \in {<<Enum("private", <<"v", "x">>)>>, <<Enum("pub(pkg)", <<"v", "x">>)>>,
                  <<Plain("x", "pub"), Enum("private", <<"v">>)>>},
          im \in OneImportEach}
  \cup {[items |-> [n \in Modules |-> <<>>], imports |-> [m \in Modules |-> ImportsOf(g[m])],
         uses |-> [n \in Modules |-> {}]] : g \in [Modules -> SUBSET Modules]}
=============================================================================
