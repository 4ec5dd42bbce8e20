------------------------------- MODULE MCLower -------------------------------
(***************************************************************************)
(* What a program means, and small programs for the checker and the        *)
(* lowerer.  The meaning is written over the expressions themselves, with  *)
(* the events of Mir, and knows nothing of blocks and registers.           *)
(***************************************************************************)
EXTENDS Lower
LOCAL INSTANCE SequencesExt

-----------------------------------------------------------------------------
(* Meaning.  A state holds the value of the last expression, the events so
   far, and whether a return or a `?' has left the function. *)

Begun == [val |-> Undefined, trace |-> <<>>, left |-> FALSE]
Gives(s, v) == [s EXCEPT !.val = v]
Finished(s) == Outcome(s.val, s.trace)
Leaves(s) == [s EXCEPT !.left = TRUE]
Happens(s, event) == [s EXCEPT !.trace = Append(@, event)]
Asks(s, world, op, name, vals) ==
  Gives(Happens(s, <<op, name, vals>>), Answer(world, op, name, vals))

\* The value of a pattern's discriminant, by the variant's own enum.
RECURSIVE Accepts(_, _)
Accepts(p, v) ==
  CASE p.p \in {"wild", "bind"} -> TRUE
    [] p.p = "bool" -> v = (IF p.b THEN 1 ELSE 0)
    [] p.p = "ctor" -> v = EnumVariantIndex(p.enum, p.variant)
    [] p.p = "or" -> \E i \in DOMAIN p.alts : Accepts(p.alts[i], v)
    [] p.p = "at" -> Accepts(p.inner, v)

Binds(env, p, v) == IF p.p \in {"bind", "at"} THEN Bound(env, <<p.name>>, <<v>>) ELSE env

RECURSIVE Means(_, _, _, _)
RECURSIVE BlockMeans(_, _, _, _)

\* Expressions from left to right; Use gets their values.
Noted(acc, s) == [s |-> s, vs |-> Append(acc.vs, s.val)]
AfterAll(acc, Use(_, _)) == IF acc.s.left THEN acc.s ELSE Use(acc.s, acc.vs)
InOrder(s, es, env, world, Use(_, _)) ==
  AfterAll(FoldLeft(LAMBDA acc, e : IF acc.s.left THEN acc ELSE Noted(acc, Means(acc.s, e, env, world)),
                    [s |-> s, vs |-> <<>>], es), Use)

\* A closure: a return leaves the closure only.
Called(s, body, env, world) == [BlockMeans(s, body, env, world) EXCEPT !.left = FALSE]

\* The first arm whose pattern accepts the value and whose guard holds.
RECURSIVE ArmMeans(_, _, _, _, _)
ArmMeans(s, arms, v, env, world) ==
  IF arms = <<>> THEN Leaves(Happens(Gives(s, Undefined), <<"stuck">>))
  ELSE IF ~Accepts(arms[1].pat, v) THEN ArmMeans(s, Tail(arms), v, env, world)
  ELSE InOrder(s, arms[1].guard, Binds(env, arms[1].pat, v), world, LAMBDA t, vs :
         IF vs = <<0>> THEN ArmMeans(t, Tail(arms), v, env, world)
         ELSE BlockMeans(t, arms[1].body, Binds(env, arms[1].pat, v), world))

IsError(t, v) == v + 1 \in ErrorVariants(t)

MethodMeans(s, e, world, vals) ==
  LET handle == IF e.arg.e = "spawn" THEN "Thread" ELSE e.arg.ty
  IN  CASE handle = "Thread" /\ e.name = "join" -> Asks(s, world, "thread_join", "", vals)
        [] handle = "Chan" /\ e.name = "send" -> Asks(s, world, "chan_send", "", vals)
        [] handle = "Chan" /\ e.name = "recv" -> Asks(s, world, "chan_recv", "", vals)
        [] handle = "Chan" /\ e.name = "close" -> Gives(Happens(s, <<"chan_close", "", vals>>), 0)
        [] e.name \in OverflowOps -> Gives(s, Computed(e.name, vals[1], vals[2]))
        [] OTHER -> Asks(s, world, "method_call", e.name, vals)

BinaryMeans(s, e, world, vals) ==
  LET eq == IF IsScalarType(e.args[1].ty) THEN Gives(s, IF vals[1] = vals[2] THEN 1 ELSE 0)
            ELSE Asks(s, world, "eq_call", "eq", vals)
  IN  CASE e.op = "==" -> eq
        [] e.op = "!=" -> Gives(eq, 1 - eq.val)
        [] OTHER -> Gives(s, Computed(MapBinaryOp[e.op], vals[1], vals[2]))

StructMeans(s, e, world, vals) ==
  LET n   == Len(e.args)
      new == IF e.base = <<>> THEN Asks(s, world, "struct_new", e.type, vals)
             ELSE Asks(s, world, "struct_copy", "", <<vals[n + 1]>>)
  IN  FoldLeft(LAMBDA t, i : Happens(t, <<"field_write", e.fields[i], <<new.val, vals[i]>>>>),
               new, [i \in 1 .. n |-> i])

Means(s, e, env, world) ==
  CASE e.e = "int" -> Gives(s, e.n)
    [] e.e = "bool" -> Gives(s, IF e.b THEN 1 ELSE 0)
    [] e.e = "path" -> Gives(s, env[e.name])
    [] e.e = "variant" -> Gives(s, EnumVariantIndex(e.enum, e.name))
    [] e.e = "bin" -> InOrder(s, e.args, env, world, LAMBDA t, vs : BinaryMeans(t, e, world, vs))
    [] e.e = "call" -> InOrder(s, e.args, env, world, LAMBDA t, vs : Asks(t, world, "call", e.name, vs))
    [] e.e = "inline" ->
         InOrder(s, e.args, env, world, LAMBDA t, vs : Called(t, e.body, Bound(env, e.params, vs), world))
    [] e.e = "method" -> InOrder(s, <<e.arg>> \o e.args, env, world, LAMBDA t, vs : MethodMeans(t, e, world, vs))
    [] e.e = "spawn" ->
         Gives(Happens(s, <<"spawn", Finished(BlockMeans(Begun, e.body, [n \in Range(e.params) |-> 0], world))>>),
               Answer(world, "spawn", "", <<>>))
    [] e.e = "ref" -> InOrder(s, <<e.arg>>, env, world, LAMBDA t, vs : Asks(t, world, "borrow", "", vs))
    [] e.e = "field" -> InOrder(s, <<e.arg>>, env, world, LAMBDA t, vs : Asks(t, world, "field_read", e.name, vs))
    [] e.e \in {"try", "optfield"} ->
         InOrder(s, <<e.arg>>, env, world, LAMBDA t, vs :
           IF IsError(e.arg.ty, vs[1]) THEN Leaves(t)
           ELSE IF e.e = "try" THEN t ELSE Asks(t, world, "field_read", e.name, vs))
    [] e.e = "slice" ->
         InOrder(s, <<e.arg>> \o e.low \o e.high, env, world, LAMBDA t, vs :
           Asks(t, world, "slice_new", "",
                <<vs[1], IF e.low = <<>> THEN Undefined ELSE vs[2], IF e.high = <<>> THEN Undefined ELSE vs[Len(vs)]>>))
    [] e.e = "struct" -> InOrder(s, e.args \o e.base, env, world, LAMBDA t, vs : StructMeans(t, e, world, vs))
    [] e.e = "cast" ->
         InOrder(s, <<e.arg>>, env, world, LAMBDA t, vs : Asks(t, world, "cast", ClassifyCast(e.arg.ty, e.ty), vs))
    [] e.e = "match" -> InOrder(s, <<e.arg>>, env, world, LAMBDA t, vs : ArmMeans(t, e.arms, vs[1], env, world))

\* Statements and then the last expression; a let names its value.
Done(acc, st, s) ==
  [s |-> IF st.k = "return" THEN Leaves(s) ELSE s,
   env |-> IF st.k = "let" THEN Bound(acc.env, <<st.name>>, <<s.val>>) ELSE acc.env]
ThenLast(acc, last, world) ==
  IF acc.s.left \/ last = <<>> THEN acc.s ELSE Means(acc.s, last[1], acc.env, world)
BlockMeans(s, block, env, world) ==
  ThenLast(FoldLeft(LAMBDA acc, st : IF acc.s.left THEN acc
                                     ELSE IF st.val = <<>> THEN Done(acc, st, acc.s)
                                     ELSE Done(acc, st, Means(acc.s, st.val[1], acc.env, world)),
                    [s |-> s, env |-> env], block.stmts), block.last, world)

Meaning(fn, block, args, world) ==
  Finished(BlockMeans(Begun, block, [n \in {fn.params[i].name : i \in DOMAIN fn.params} |->
                                    args[CHOOSE i \in DOMAIN fn.params : fn.params[i].name = n]], world))

-----------------------------------------------------------------------------
(* What is inside an expression.  The checker looks at a part of it only. *)

BlockParts(block) ==
  UNION {Range(block.stmts[i].val) : i \in DOMAIN block.stmts} \cup Range(block.last)
FieldsOf(e, fs) == UNION {IF f \in DOMAIN e THEN Range(e[f]) ELSE {} : f \in fs}
CheckedParts(e) ==
  IF e.e = "match" THEN {e.arg} \cup UNION {Range(e.arms[i].guard) \cup BlockParts(e.arms[i].body) : i \in DOMAIN e.arms}
  ELSE FieldsOf(e, {"args"}) \cup (IF "arg" \in DOMAIN e /\ e.e \notin {"slice", "optfield"} THEN {e.arg} ELSE {})
UncheckedParts(e) ==
  FieldsOf(e, {"low", "high", "base"})
  \cup (IF e.e \in {"slice", "optfield"} THEN {e.arg} ELSE {})
  \cup (IF e.e \in {"inline", "spawn"} THEN BlockParts(e.body) ELSE {})

RECURSIVE Within(_, _)
Within(e, unchecked) ==
  {e} \cup UNION {Within(k, unchecked) : k \in CheckedParts(e) \cup (IF unchecked THEN UncheckedParts(e) ELSE {})}
Visited(block) == UNION {Within(e, FALSE) : e \in BlockParts(block)}
Everything(block) == UNION {Within(e, TRUE) : e \in BlockParts(block)}

RECURSIVE Constructors(_)
Constructors(p) ==
  CASE p.p = "ctor" -> {p.enum}
    [] p.p = "or" -> UNION {Constructors(p.alts[i]) : i \in DOMAIN p.alts}
    [] p.p = "at" -> Constructors(p.inner)
    [] OTHER -> {}

OwnConstructors(m) == \A i \in DOMAIN m.arms : Constructors(m.arms[i].pat) \subseteq {m.arg.ty}
Unguarded(m) == \A i \in DOMAIN m.arms : m.arms[i].guard = <<>>

\* The matches whose lowering the code does not get wrong: see the README for
\* the others.
PlainMatch(m, names) ==
  /\ OwnConstructors(m) /\ Unguarded(m) /\ m.arms # <<>>
  /\ \A i \in DOMAIN m.arms :
       /\ m.arms[i].body.stmts = <<>>
       /\ m.arms[i].pat.p \in {"bind", "at"} => m.arms[i].pat.name \notin names
       /\ i < Len(m.arms) => m.arms[i].pat.p # "at" /\ ~(m.arms[i].pat.p = "or" /\ OrIsTotal(m.arms[i].pat))

Plain(fn, block) ==
  /\ \A e \in Visited(block) : e.e = "match" => PlainMatch(e, {fn.params[i].name : i \in DOMAIN fn.params})
  /\ \A e \in Everything(block) \ Visited(block) : e.e \notin {"match", "try", "optfield"}
  /\ \A e \in Everything(block) : e.e = "method" => e.arg.e # "spawn"

-----------------------------------------------------------------------------
(* Properties *)

ValuesOf(t) ==
  CASE t \in DOMAIN Enums -> 0 .. Len(Enums[t]) - 1
    [] t = "Bool" -> {0, 1}
    [] t \in IntTypes -> {0, 2}
    [] OTHER -> {50}
Arguments(fn) ==
  FoldLeft(LAMBDA lists, p : {Append(l, v) : l \in lists, v \in ValuesOf(p.ty)}, {<<>>}, fn.params)
Worlds ==
  {w \in [DOMAIN Fns -> UNION {ValuesOf(Fns[f].ret) : f \in DOMAIN Fns}] : \A f \in DOMAIN w : w[f] \in ValuesOf(Fns[f].ret)}

\* The lowerer does not panic, and what it does not refuse behaves as written.
Preserved ==
  /\ lowered.how # "panicked"
  /\ lowered.how = "going" /\ ~lowered.diags =>
       \A args \in Arguments(decl), world \in Worlds :
         Run(lowered, args, world) = Meaning(decl, typed.body, args, world)

\* A function the checker and the lowerer accept returns, after the same
\* calls, channel operations, spawns and writes in the same order, what its
\* body says: blocks the lowerer overwrote or left open are never emitted.
LoweringPreservesMeaning == lowered # <<>> => (Plain(decl, typed.body) => Preserved)

\* In an accepted body, where the checker looks, some arm of every match without
\* guards accepts each value of the type the checker gave the scrutinee.
ExhaustiveMeansTotal ==
  typed # <<>> => (typed.sc.ok =>
    \A m \in Visited(typed.body) : m.e = "match" => (Unguarded(m) /\ OwnConstructors(m) =>
      \A v \in ValuesOf(m.arg.ty) : \E i \in DOMAIN m.arms : Accepts(m.arms[i].pat, v)))

-----------------------------------------------------------------------------
(* Programs, with the types of the bridge. *)

SmallEnums == [E |-> <<"Ok", "Err">>, D |-> <<"Red", "Green", "Blue">>, Z |-> <<>>]
SmallFns == [f |-> [params |-> <<"I32">>, ret |-> "I32"], g |-> [params |-> <<>>, ret |-> "E"]]
SmallStructs == [S |-> [u |-> "I32", v |-> "Bool"]]

Num(n) == [e |-> "int", ty |-> "I32", n |-> n]
Truth(b) == [e |-> "bool", ty |-> "Bool", b |-> b]
Var(n) == [e |-> "path", ty |-> Infer, name |-> n]
Of(enum, v) == [e |-> "variant", ty |-> enum, enum |-> enum, name |-> v]
Bin(op, l, r) == [e |-> "bin", ty |-> Infer, op |-> op, args |-> <<l, r>>]
CallTo(f, args) == [e |-> "call", ty |-> Infer, name |-> f, args |-> args]
Method(x, n, args) == [e |-> "method", ty |-> Infer, arg |-> x, name |-> n, args |-> args]
Field(x) == [e |-> "field", ty |-> Infer, arg |-> x, name |-> "u", args |-> <<>>]
OptField(x) == [e |-> "optfield", ty |-> Infer, arg |-> x, name |-> "u"]
Try(x) == [e |-> "try", ty |-> Infer, arg |-> x]
Cast(x, t) == [e |-> "cast", ty |-> t, arg |-> x]
Ref(x) == [e |-> "ref", ty |-> Infer, arg |-> x]
Slice(x, low, high) == [e |-> "slice", ty |-> Infer, arg |-> x, low |-> low, high |-> high]
Struct(u, v, base) == [e |-> "struct", ty |-> "S", type |-> "S", fields |-> <<"u", "v">>, args |-> <<u, v>>, base |-> base]
MatchOf(x, arms) == [e |-> "match", ty |-> Infer, arg |-> x, arms |-> arms]

Valued(x) == [stmts |-> <<>>, last |-> <<x>>]
Ret(x) == [k |-> "return", val |-> <<x>>]
Returning(x) == [stmts |-> <<Ret(x)>>, last |-> <<>>]
Inline(params, args, body) == [e |-> "inline", ty |-> Infer, params |-> params, args |-> args, body |-> body]
Spawn(params, body) == [e |-> "spawn", ty |-> Infer, params |-> params, body |-> body]

Wild == [p |-> "wild"]
IsBool(b) == [p |-> "bool", b |-> b]
IsVariant(enum, v) == [p |-> "ctor", enum |-> enum, variant |-> v]
Any2(p, q) == [p |-> "or", alts |-> <<p, q>>]
Named(n, p) == [p |-> "at", name |-> n, inner |-> p]
AnyAs(n) == [p |-> "bind", name |-> n]
Arm(p, x) == [pat |-> p, guard |-> <<>>, body |-> Valued(x)]

Atoms == {Num(1), Var("x"), Var("b"), Var("r"), Of("E", "Err")}
Patterns(t) ==
  {Wild, AnyAs("y"), Named("y", Wild)} \cup
  (CASE t = "Bool" -> {IsBool(TRUE), IsBool(FALSE), Any2(IsBool(TRUE), IsBool(FALSE))}
     [] t = "E" -> {IsVariant("E", "Ok"), IsVariant("E", "Err"), Any2(IsVariant("E", "Ok"), Wild)}
     [] OTHER -> {IsVariant("D", "Red"), IsVariant("D", "Green"), IsVariant("D", "Blue"), Any2(IsVariant("D", "Red"), IsVariant("D", "Blue"))})

\* Matches on x with at most n arms, whose values are the numbers of the arms.
MatchesOn(x, t, n) ==
  {MatchOf(x, [i \in DOMAIN ps |-> Arm(ps[i], Num(i))]) : ps \in UNION {[1 .. k -> Patterns(t)] : k \in 1 .. n}}

\* Forms with y in each place.
Over1(y) ==
  {Bin("+", y, Var("x")), Bin("-", Var("x"), y), Bin("==", y, Var("x")), Bin("!=", Var("b"), y), Bin("<", y, y),
   CallTo("f", <<y>>), Method(y, "wrapping_sub", <<Var("x")>>), Method(Var("x"), "checked_mul", <<y>>),
   Method(Var("c"), "send", <<y>>), Method(Var("s"), "put", <<y>>), Method(y, "put", <<Var("x")>>),
   Inline(<<"y">>, <<y>>, Returning(Bin("+", Var("y"), Var("x")))), Inline(<<>>, <<>>, Valued(y)),
   Inline(<<"x", "y">>, <<Num(7), y>>, Returning(Bin("-", Var("x"), Var("y")))),
   Spawn(<<>>, Returning(y)), Spawn(<<"x">>, Returning(y)), Spawn(<<"b", "x">>, Returning(y)), Ref(y), Field(y), OptField(y), Try(y), Cast(y, "I8"), Cast(y, "I64"),
   Slice(y, <<>>, <<Num(2)>>), Slice(Var("s"), <<y>>, <<>>), Slice(Var("s"), <<Num(0)>>, <<y>>),
   Struct(y, Var("b"), <<>>), Struct(Num(1), y, <<Var("s")>>), Struct(Num(1), Truth(TRUE), <<y>>),
   MatchOf(y, <<Arm(IsBool(TRUE), Num(1)), Arm(Wild, Num(2))>>),
   MatchOf(y, <<Arm(IsVariant("E", "Ok"), Num(1)), Arm(IsVariant("E", "Err"), Num(2))>>),
   MatchOf(y, <<Arm(Wild, Num(1))>>),
   MatchOf(Var("b"), <<Arm(IsBool(TRUE), y), Arm(IsBool(FALSE), Var("x"))>>),
   MatchOf(Var("r"), <<Arm(IsVariant("E", "Ok"), Num(1)), Arm(AnyAs("z"), y)>>)}

Nullary ==
  {CallTo("g", <<>>), Try(CallTo("g", <<>>)), Method(Var("c"), "recv", <<>>), Method(Var("c"), "close", <<>>),
   Method(Var("c"), "peek", <<>>), Method(Var("h"), "join", <<>>), Method(Var("h"), "join", <<Num(1)>>),
   [e |-> "str", ty |-> "String"], Inline(<<"y">>, <<>>, Valued(Num(1)))}
Ones == UNION {Over1(y) : y \in Atoms} \cup Nullary
Twos == UNION {Over1(y) : y \in Over1(Var("r")) \cup Nullary}

AllParams ==
  <<[name |-> "x", ty |-> "I32"], [name |-> "b", ty |-> "Bool"], [name |-> "r", ty |-> "E"], [name |-> "c", ty |-> "Chan"],
    [name |-> "h", ty |-> "Thread"], [name |-> "s", ty |-> "S"]>>
DParam == <<[name |-> "d", ty |-> "D"]>>
Function(params, ret, body) == [params |-> params, ret |-> ret, generic |-> FALSE, body |-> body]
ReturnsOf(es, ret) == {Function(AllParams, ret, Returning(e)) : e \in es}

\* Only a call the checker looks at: the lowerer calls by name whatever it is given.
SmallDecls ==
  ReturnsOf({CallTo("x", <<>>), CallTo("x", <<Var("b")>>)}, "I32") \cup
  ReturnsOf(Atoms \cup Ones \cup Twos, "E") \cup ReturnsOf(Atoms \cup Ones \cup Twos, "I32")
  \cup ReturnsOf(MatchesOn(Var("b"), "Bool", 3) \cup MatchesOn(Var("r"), "E", 3), "I32")
  \cup {Function(DParam, "I32", Returning(m)) : m \in MatchesOn(Var("d"), "D", 3)}
  \cup {Function(DParam, "I32", Valued(Num(1))), [Function(DParam, "I32", Returning(Num(1))) EXCEPT !.generic = TRUE],
        Function(DParam, "I32", [stmts |-> <<[k |-> "let", name |-> "y", ty |-> Infer, val |-> <<Num(1)>>], Ret(Var("y"))>>, last |-> <<>>]),
        Function(DParam, "I32", [stmts |-> <<[k |-> "return", val |-> <<>>]>>, last |-> <<>>])}
=============================================================================
