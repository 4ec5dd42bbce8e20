------------------------------ MODULE CheckBody ------------------------------
(***************************************************************************)
(* compiler/check, the bodies of functions: inferExpr gives every          *)
(* expression it visits a type, and the arms of a match are checked.       *)
(*                                                                         *)
(* An expression comes from the bridge with the type ty the bridge knows;  *)
(* the checker overwrites it.  What the checker does not visit (closures,  *)
(* the receiver of `?.', slices) keeps the bridge's type.  The one scope   *)
(* of a body is never closed: names bound by an arm stay in it.  Literals  *)
(* fit their types; generic calls, tuples, if and unary are left out.      *)
(***************************************************************************)
EXTENDS Integers, Sequences, FiniteSets
LOCAL INSTANCE SequencesExt

CONSTANTS Enums,    \* enum -> its variants, in order
          Fns,      \* function -> [params, ret]
          Structs   \* struct -> field -> type

Infer == "Infer"
NoType == ""
IntRank == [I8 |-> 1, I32 |-> 3, I64 |-> 4]
FloatTypes == {"F64"}
IntTypes == DOMAIN IntRank
PtrTypes == {"Ptr", "Ref"}
Comparisons == {"==", "!=", "<"}

IsWidenable(s, t) ==
  \/ s \in IntTypes /\ t \in IntTypes /\ IntRank[s] <= IntRank[t]
  \/ s \in FloatTypes /\ s = t
IsAssignable(s, t) == s = t \/ {s, t} \cap {NoType, Infer} # {} \/ IsWidenable(s, t)

-----------------------------------------------------------------------------
(* Match arms *)

RECURSIVE CollectCoveredVariants(_)
CollectCoveredVariants(p) ==
  CASE p.p = "ctor" -> {p.variant}
    [] p.p = "or" -> UNION {CollectCoveredVariants(p.alts[i]) : i \in DOMAIN p.alts}
    [] OTHER -> {}

RECURSIVE PatternIsTotal(_)
PatternIsTotal(p) ==
  \/ p.p \in {"wild", "bind"}
  \/ p.p = "or" /\ \E i \in DOMAIN p.alts : PatternIsTotal(p.alts[i])

\* The literals an arm shows at its top, or at the top of its alternatives.
BoolsShown(p) ==
  {q.b : q \in {r \in {p} \cup (IF p.p = "or" THEN Range(p.alts) ELSE {}) : r.p = "bool"}}

\* Mutation of CheckExhaustive: one variant may be missing.
ExhaustiveButOne(arms, t) ==
  \/ \E i \in DOMAIN arms : PatternIsTotal(arms[i].pat)
  \/ t = "Bool" /\ UNION {BoolsShown(arms[i].pat) : i \in DOMAIN arms} = BOOLEAN
  \/ t \in DOMAIN Enums
     /\ Cardinality(Range(Enums[t]) \ UNION {CollectCoveredVariants(arms[i].pat) : i \in DOMAIN arms}) <= 1

CheckExhaustive(arms, t) ==
  \/ \E i \in DOMAIN arms : PatternIsTotal(arms[i].pat)
  \/ t = "Bool" /\ UNION {BoolsShown(arms[i].pat) : i \in DOMAIN arms} = BOOLEAN
  \/ t \in DOMAIN Enums
     /\ Range(Enums[t]) \subseteq UNION {CollectCoveredVariants(arms[i].pat) : i \in DOMAIN arms}

\* No arm after a total one, and no variant in two arms that are not total.
CheckUnreachableArms(arms) ==
  \A i, j \in DOMAIN arms : i < j =>
    /\ ~PatternIsTotal(arms[i].pat)
    /\ \/ PatternIsTotal(arms[j].pat)
       \/ CollectCoveredVariants(arms[i].pat) \cap CollectCoveredVariants(arms[j].pat) = {}

-----------------------------------------------------------------------------
(* Expressions.  A result is the expression with its types, and the scope;
   ok says that nothing has been diagnosed. *)

Scope(locals, ret) == [locals |-> locals, ret |-> ret, ok |-> TRUE]
BindLocal(sc, n, t) ==
  [sc EXCEPT !.locals = [m \in DOMAIN sc.locals \cup {n} |-> IF m = n THEN t ELSE sc.locals[m]]]
Unless(sc, wrong) == [sc EXCEPT !.ok = @ /\ ~wrong]

Typed(sc, x, t) == [sc |-> sc, x |-> [x EXCEPT !.ty = t]]

BindPatternNames(sc, p, t) == IF p.p = "bind" THEN BindLocal(sc, p.name, t) ELSE sc

CastAllowed(s, t) ==
  \/ s \in IntTypes \cup FloatTypes /\ t \in IntTypes \cup FloatTypes
  \/ s = "Ptr" /\ t \in IntTypes \cup {"Ptr"}
  \/ s \in IntTypes /\ t = "Ptr"

RECURSIVE CheckExpr(_, _, _)
RECURSIVE CheckBlock(_, _, _)

\* Expressions in a row, each with the type wanted of it.
Listed(acc, r) == [sc |-> r.sc, xs |-> Append(acc.xs, r.x)]
CheckList(sc, es, wants) ==
  FoldLeft(LAMBDA acc, i : Listed(acc, CheckExpr(acc.sc, es[i], wants[i])),
           [sc |-> sc, xs |-> <<>>], [i \in DOMAIN es |-> i])

Wants(e, types) == [i \in DOMAIN e.args |-> IF i \in DOMAIN types THEN types[i] ELSE NoType]

WithArgs(r, e, t) == Typed(r.sc, [e EXCEPT !.args = r.xs], t)
WithArg(r, e, t) == Typed(r.sc, [e EXCEPT !.arg = r.x], t)

InferCall(sc, e, types, t) == WithArgs(CheckList(sc, e.args, Wants(e, types)), e, t)

\* A local of the name hides the function.  No local has a function type here,
\* and the call is diagnosed unless the local's type is still to be inferred.
InferCallOfLocal(sc, e) == InferCall(Unless(sc, sc.locals[e.name] # Infer), e, <<>>, Infer)

\* The right operand is checked against the type of the left one.
RightOperand(l, e) ==
  Listed([sc |-> l.sc, xs |-> <<l.x>>], CheckExpr(l.sc, e.args[2], l.x.ty))

Mismatched(l, r) == l # r /\ ~IsWidenable(l, r) /\ ~IsWidenable(r, l)

\* A comparison of any two types is a Bool; the operands of arithmetic agree.
InferBinary(e, r) ==
  IF e.op \in Comparisons THEN WithArgs(r, e, "Bool")
  ELSE WithArgs([r EXCEPT !.sc = Unless(@, Mismatched(r.xs[1].ty, r.xs[2].ty))], e, r.xs[1].ty)

EnumHasErrorVariant(t) == t \in DOMAIN Enums /\ Range(Enums[t]) \cap {"Err", "None"} # {}

InferTry(e, r) ==
  WithArg([r EXCEPT !.sc = Unless(@, ~EnumHasErrorVariant(r.x.ty) \/ r.sc.ret \notin {NoType, r.x.ty})], e,
          IF EnumHasErrorVariant(r.x.ty) THEN r.x.ty ELSE Infer)

InferCast(e, r) == WithArg([r EXCEPT !.sc = Unless(@, ~CastAllowed(r.x.ty, e.ty))], e, e.ty)

\* An arm: its names, its guard, its body, which has the type of the first arm.
BodyChecked(acc, arm, guard, body) ==
  [sc |-> Unless(body.sc, acc.ty # NoType /\ body.ty # acc.ty),
   ty |-> IF acc.ty = NoType THEN body.ty ELSE acc.ty,
   arms |-> Append(acc.arms, [arm EXCEPT !.guard = guard, !.body = body.body])]
GuardChecked(acc, arm, want, r) == BodyChecked(acc, arm, r.xs, CheckBlock(r.sc, arm.body, want))
CheckArm(acc, arm, scrutType, want) ==
  GuardChecked(acc, arm, want,
               CheckList(BindPatternNames(acc.sc, arm.pat, scrutType), arm.guard, [i \in DOMAIN arm.guard |-> "Bool"]))

ArmsChecked(e, scrut, r) ==
  Typed(Unless(r.sc, ~CheckUnreachableArms(e.arms) \/ ~CheckExhaustive(e.arms, scrut.x.ty)),
        [e EXCEPT !.arg = scrut.x, !.arms = r.arms],
        IF r.ty = NoType THEN Infer ELSE r.ty)
InferMatch(e, want, scrut) ==
  ArmsChecked(e, scrut, FoldLeft(LAMBDA acc, arm : CheckArm(acc, arm, scrut.x.ty, want),
                                 [sc |-> scrut.sc, ty |-> NoType, arms |-> <<>>], e.arms))

\* Every field must be one of the struct's; the base is not looked at.
FieldTypes(e) ==
  [i \in DOMAIN e.fields |-> IF e.fields[i] \in DOMAIN Structs[e.type] THEN Structs[e.type][e.fields[i]] ELSE NoType]
InferStructLit(e, r) ==
  WithArgs([r EXCEPT !.sc = Unless(@, \E i \in DOMAIN e.args :
              FieldTypes(e)[i] = NoType \/ ~IsAssignable(r.xs[i].ty, FieldTypes(e)[i]))], e, e.type)

\* The arguments of a method come after its receiver.
InferMember(e, r) == InferCall(r.sc, [e EXCEPT !.arg = r.x], <<>>, Infer)

CheckExpr(sc, e, want) ==
  CASE e.e = "int" -> Typed(sc, e, IF want \in IntTypes THEN want ELSE "I32")
    [] e.e = "bool" -> Typed(sc, e, "Bool")
    [] e.e = "str" -> Typed(sc, e, "String")
    [] e.e = "path" ->
         IF e.name \in DOMAIN sc.locals THEN Typed(sc, e, sc.locals[e.name]) ELSE Typed(Unless(sc, TRUE), e, Infer)
    [] e.e = "variant" -> Typed(Unless(sc, e.name \notin Range(Enums[e.enum])), e, e.enum)
    [] e.e = "bin" ->
         InferBinary(e, RightOperand(CheckExpr(sc, e.args[1], IF e.op \notin Comparisons /\ want \in IntTypes \cup FloatTypes
                                                                THEN want ELSE NoType), e))
    [] e.e = "call" /\ e.name \in DOMAIN sc.locals -> InferCallOfLocal(sc, e)
    [] e.e = "call" /\ e.name \notin DOMAIN sc.locals ->
         InferCall(Unless(sc, Len(e.args) # Len(Fns[e.name].params)), e, Fns[e.name].params, Fns[e.name].ret)
    [] e.e = "inline" -> InferCall(sc, e, <<>>, Infer)
    [] e.e \in {"method", "field"} -> InferMember(e, CheckExpr(sc, e.arg, NoType))
    [] e.e = "struct" -> InferStructLit(e, CheckList(sc, e.args, FieldTypes(e)))
    [] e.e = "ref" -> WithArg(CheckExpr(sc, e.arg, NoType), e, "Ref")
    [] e.e = "cast" -> InferCast(e, CheckExpr(sc, e.arg, NoType))
    [] e.e = "match" -> InferMatch(e, want, CheckExpr(sc, e.arg, NoType))
    [] e.e = "try" -> InferTry(e, CheckExpr(sc, e.arg, NoType))
    [] OTHER -> Typed(sc, e, Infer)

\* A return, with or without a value, a let or an expression.
StmtChecked(s, r) ==
  [x |-> [s EXCEPT !.val = <<r.x>>],
   sc |-> CASE s.k = "return" -> Unless(r.sc, ~IsAssignable(r.x.ty, r.sc.ret))
            [] s.k = "let" -> BindLocal(r.sc, s.name, IF s.ty = Infer THEN r.x.ty ELSE s.ty)
            [] OTHER -> r.sc]
CheckStmt(sc, s) ==
  IF s.val = <<>> THEN [sc |-> Unless(sc, sc.ret # "Unit"), x |-> s]
  ELSE StmtChecked(s, CheckExpr(sc, s.val[1], CASE s.k = "return" -> sc.ret [] s.k = "let" -> s.ty [] OTHER -> NoType))

LastChecked(stmts, r) ==
  [sc |-> r.sc, body |-> [stmts |-> stmts, last |-> r.xs], ty |-> IF r.xs = <<>> THEN "Unit" ELSE r.xs[1].ty]
StmtsChecked(body, want, r) ==
  LastChecked(r.xs, CheckList(r.sc, body.last, [i \in DOMAIN body.last |-> want]))
CheckBlock(sc, body, want) ==
  StmtsChecked(body, want, FoldLeft(LAMBDA acc, s : Listed(acc, CheckStmt(acc.sc, s)), [sc |-> sc, xs |-> <<>>], body.stmts))

CheckFnBody(fn) ==
  CheckBlock(Scope([n \in {fn.params[i].name : i \in DOMAIN fn.params} |->
                      fn.params[CHOOSE i \in DOMAIN fn.params : fn.params[i].name = n].ty], fn.ret),
             fn.body, fn.ret)
=============================================================================
