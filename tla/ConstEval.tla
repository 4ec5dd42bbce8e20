------------------------------- MODULE ConstEval -------------------------------
(***************************************************************************)
(* compiler/consteval: Evaluate gives every const and static a value.  An  *)
(* expression is evaluated in an environment and at a depth, and the cache *)
(* of constant values is threaded through.                                 *)
(*                                                                         *)
(* An integer is held in a machine word of WordBits bits (64 in the code)  *)
(* and masked to the width of its type after every step.  A scope can be   *)
(* bound in but not assigned to, so it and its parents are one function.   *)
(* Tuples, structs, arrays and chars are left out.                         *)
(***************************************************************************)
EXTENDS Integers, Sequences, FiniteSets
LOCAL INSTANCE Bitwise
LOCAL INSTANCE SequencesExt

CONSTANTS WordBits,    \* bits of the evaluator's words
          Bits,        \* integer type -> its width, at most WordBits
          SignedTypes, \* the signed ones
          MaxDepth,    \* maxRecursionDepth
          Programs     \* [order, decls, fns]

VARIABLES program,     \* ev.Prog
          at,          \* how many declarations are evaluated
          cached,      \* ev.constValuesCache
          values,      \* Result.ConstValues and StaticValues
          failed       \* declarations that got a diagnostic

constVars == <<program, at, cached, values, failed>>

NoProgram == <<>>
IntValue(t, n) == [k |-> "int", t |-> t, n |-> n]
BoolValue(b) == [k |-> "bool", b |-> b]
UnitValue == [k |-> "unit"]

-----------------------------------------------------------------------------
(* Words *)

MaskToWidth(u, bits) == u % 2^bits
ToWord(i) == i % 2^WordBits

SignedInt(v) ==
  LET x == MaskToWidth(v.n, Bits[v.t])
  IN  IF x >= 2^(Bits[v.t] - 1) THEN x - 2^Bits[v.t] ELSE x

Abs(i) == IF i < 0 THEN -i ELSE i
Quotient(l, r) == LET q == Abs(l) \div Abs(r) IN IF (l < 0) = (r < 0) THEN q ELSE -q

\* The integer as the operators see it.
Reading(v) == IF v.t \in SignedTypes THEN SignedInt(v) ELSE v.n

Shifted(op, l, shift) ==
  IF shift >= Bits[l.t]
    THEN IF op = ">>" /\ l.t \in SignedTypes /\ SignedInt(l) < 0 THEN 2^WordBits - 1 ELSE 0
  ELSE IF op = "<<" THEN ToWord(l.n * 2^shift)
  ELSE ToWord(Reading(l) \div 2^shift)

\* The arithmetic of evalBinary, before the mask.
Arithmetic(op, l, r) ==
  CASE op = "+" -> ToWord(l.n + r.n)
    [] op = "-" -> ToWord(l.n - r.n)
    [] op = "*" -> ToWord(l.n * r.n)
    [] op = "/" -> ToWord(Quotient(Reading(l), Reading(r)))
    [] op = "%" -> ToWord(Reading(l) - Reading(r) * Quotient(Reading(l), Reading(r)))
    [] op = "&" -> l.n & r.n
    [] op = "|" -> l.n | r.n
    [] op = "^" -> l.n ^^ r.n
    [] op \in {"<<", ">>"} -> Shifted(op, l, r.n)

AsNumber(v) == IF v.k = "bool" THEN (IF v.b THEN 1 ELSE 0) ELSE Reading(v)
Comparisons == {"==", "<"}
EvalCompare(op, l, r) == IF op = "==" THEN AsNumber(l) = AsNumber(r) ELSE AsNumber(l) < AsNumber(r)

\* Mutation of Extended: a cast to a wider type never extends the sign.
NotExtended(v, bits) == v.n

\* evalCast: a signed source narrower than the target is sign-extended.
Extended(v, bits) ==
  IF v.t \in SignedTypes /\ Bits[v.t] < bits /\ v.n >= 2^(Bits[v.t] - 1)
    THEN v.n + (2^WordBits - 2^Bits[v.t]) ELSE v.n

-----------------------------------------------------------------------------
(* The evaluator.  A result is a value, how control leaves, and the cache. *)

Result(v, how, cache) == [val |-> v, flow |-> how, cache |-> cache]
Ok(v, cache) == Result(v, "normal", cache)
Error(cache) == Result([k |-> "invalid"], "error", cache)
WithFlow(r, how) == [r EXCEPT !.flow = how]
BindName(env, n, v) == [m \in DOMAIN env \cup {n} |-> IF m = n THEN v ELSE env[m]]

\* Every evaluation of a part: anything but a value is passed on.
AndThen(r, Use(_)) == IF r.flow # "normal" THEN r ELSE Use(r)

RECURSIVE EvalExpr(_, _, _, _)
RECURSIVE EvalBlock(_, _, _, _)

\* The end of evalConstDecl and evalStaticDecl: only constants are cached, and
\* only when they have a value.
Settled(name, item, r) ==
  IF r.flow # "normal" THEN Error(r.cache)
  ELSE IF item = "const" THEN Ok(r.val, BindName(r.cache, name, r.val))
  ELSE r

EvalDecl(name, depth, cache) ==
  LET d == program.decls[name]
  IN  IF d.item = "const" /\ name \in DOMAIN cache THEN Ok(cache[name], cache)
      ELSE Settled(name, d.item, EvalExpr(d.init, <<>>, depth, cache))

\* Locals come before declarations.
EvalPath(x, env, depth, cache) ==
  IF x.name \in DOMAIN env THEN Ok(env[x.name], cache)
  ELSE IF x.name \in DOMAIN program.decls THEN EvalDecl(x.name, depth + 1, cache)
  ELSE Error(cache)

Masked(t, word, cache) == Ok(IntValue(t, MaskToWidth(word, Bits[t])), cache)

UnaryOp(op, v, cache) ==
  IF v.k = "bool" THEN (IF op = "!" THEN Ok(BoolValue(~v.b), cache) ELSE Error(cache))
  ELSE IF v.k # "int" THEN Error(cache)
  ELSE Masked(v.t, ToWord(IF op = "-" THEN -v.n ELSE -1 - v.n), cache)

EvalUnary(x, env, depth, cache) ==
  AndThen(EvalExpr(x.arg, env, depth, cache), LAMBDA r : UnaryOp(x.op, r.val, r.cache))

\* `&&' and `||': the right side is evaluated only when the left one leaves the
\* answer open.
EvalLogical(x, env, depth, cache) ==
  AndThen(EvalExpr(x.l, env, depth, cache), LAMBDA l :
    IF l.val.k # "bool" THEN Error(l.cache)
    ELSE IF l.val.b = (x.op = "||") THEN l
    ELSE AndThen(EvalExpr(x.r, env, depth, l.cache), LAMBDA r :
           IF r.val.k # "bool" THEN Error(r.cache) ELSE r))

BinaryOp(op, a, b, cache) ==
  IF op \in Comparisons
    THEN IF a.k = b.k /\ a.k \in {"int", "bool"} THEN Ok(BoolValue(EvalCompare(op, a, b)), cache)
         ELSE Error(cache)
  ELSE IF a.k # "int" \/ b.k # "int" THEN Error(cache)
  ELSE IF a.t # b.t \/ (op \in {"/", "%"} /\ b.n = 0) THEN Error(cache)
  ELSE Masked(a.t, Arithmetic(op, a, b), cache)

EvalBinary(x, env, depth, cache) ==
  AndThen(EvalExpr(x.l, env, depth, cache), LAMBDA l :
    AndThen(EvalExpr(x.r, env, depth, l.cache), LAMBDA r : BinaryOp(x.op, l.val, r.val, r.cache)))

CastTo(t, v, cache) ==
  IF v.k = "bool" THEN Ok(IntValue(t, IF v.b THEN 1 ELSE 0), cache)
  ELSE IF v.k # "int" THEN Error(cache)
  ELSE Masked(t, Extended(v, Bits[t]), cache)

EvalCast(x, env, depth, cache) ==
  AndThen(EvalExpr(x.arg, env, depth, cache), LAMBDA r : CastTo(x.t, r.val, r.cache))

EvalIf(x, env, depth, cache) ==
  AndThen(EvalExpr(x.cond, env, depth, cache), LAMBDA c :
    IF c.val.k # "bool" THEN Error(c.cache)
    ELSE EvalBlock(IF c.val.b THEN x.then ELSE x.else, env, depth, c.cache))

\* matchPattern.  A range is compared on the words.
RECURSIVE MatchPattern(_, _)
MatchPattern(p, v) ==
  CASE p.p \in {"wildcard", "bind"} -> TRUE
    [] p.p = "int" -> v.k = "int" /\ MaskToWidth(p.n, Bits[v.t]) = v.n
    [] p.p = "bool" -> v.k = "bool" /\ p.b = v.b
    [] p.p = "or" -> \E i \in DOMAIN p.alts : MatchPattern(p.alts[i], v)
    [] p.p = "range" -> v.k = "int" /\ p.lo <= v.n /\ v.n < p.hi

\* What an arm's pattern adds to the scope of its guard and body.
ArmScope(arm, v, env) == IF arm.pat.p = "bind" THEN BindName(env, arm.pat.name, v) ELSE env

\* The arms from arm i on: the first whose pattern fits and whose guard, if it
\* has one, is true.
RECURSIVE EvalArms(_, _, _, _, _, _)
EvalArms(arms, i, v, env, depth, cache) ==
  IF i > Len(arms) THEN Error(cache)
  ELSE IF ~MatchPattern(arms[i].pat, v) THEN EvalArms(arms, i + 1, v, env, depth, cache)
  ELSE AndThen(IF arms[i].guard = <<>> THEN Ok(BoolValue(TRUE), cache)
               ELSE EvalExpr(arms[i].guard[1], ArmScope(arms[i], v, env), depth, cache), LAMBDA g :
         IF g.val.k = "bool" /\ g.val.b THEN EvalBlock(arms[i].body, ArmScope(arms[i], v, env), depth, g.cache)
         ELSE EvalArms(arms, i + 1, v, env, depth, g.cache))

EvalMatch(x, env, depth, cache) ==
  AndThen(EvalExpr(x.arg, env, depth, cache), LAMBDA s : EvalArms(x.arms, 1, s.val, env, depth, s.cache))

\* The end of evalStmt, once the statement's expression gave r.
AfterStmt(s, env, r) ==
  IF s.s \in {"return", "break"} /\ r.flow # "error" THEN [env |-> env, res |-> WithFlow(r, s.s)]
  ELSE IF s.s = "let" /\ r.flow = "normal"
    THEN [env |-> BindName(env, s.name, r.val), res |-> Ok(UnitValue, r.cache)]
  ELSE [env |-> env, res |-> r]

\* evalStmt inside a block: the environment goes from statement to statement.
EvalStmt(s, st, depth) ==
  IF st.res.flow # "normal" THEN st
  ELSE IF s.s = "continue" THEN [st EXCEPT !.res = WithFlow(@, "continue")]
  ELSE AfterStmt(s, st.env, EvalExpr(s.val, st.env, depth, st.res.cache))

EvalTrailing(b, end, depth) ==
  AndThen(end.res, LAMBDA r :
    IF b.last = <<>> THEN Ok(UnitValue, r.cache) ELSE EvalExpr(b.last[1], end.env, depth, r.cache))

EvalBlock(b, env, depth, cache) ==
  EvalTrailing(b, FoldLeft(LAMBDA st, s : EvalStmt(s, st, depth),
                           [env |-> env, res |-> Ok(UnitValue, cache)], b.stmts), depth)

\* Nothing a body does can be seen by its next turn, because no assignment is
\* evaluable: a body that does not leave in its first turn never does, and runs
\* into maxLoopIterations.
AfterTurn(r) ==
  IF r.flow = "break" THEN WithFlow(r, "normal")
  ELSE IF r.flow \in {"return", "error"} THEN r
  ELSE Error(r.cache)

EvalLoop(x, env, depth, cache) == AfterTurn(EvalBlock(x.body, env, depth, cache))

EvalWhile(x, env, depth, cache) ==
  AndThen(EvalExpr(x.cond, env, depth, cache), LAMBDA c :
    IF c.val.k # "bool" THEN Error(c.cache)
    ELSE IF ~c.val.b THEN Ok(UnitValue, c.cache)
    ELSE EvalLoop(x, env, depth, c.cache))

\* The arguments of a call, from left to right: the value is their sequence.
EvalArgs(args, env, depth, cache) ==
  FoldLeft(LAMBDA acc, a :
             AndThen(acc, LAMBDA done :
               AndThen(EvalExpr(a, env, depth, done.cache), LAMBDA r : Ok(Append(done.val, r.val), r.cache))),
           Ok(<<>>, cache), args)

\* The body of a function sees its parameters and nothing of the caller's scope.
CallScope(fn, vals) ==
  [n \in {fn.params[i] : i \in DOMAIN fn.params} |-> vals[CHOOSE i \in DOMAIN fn.params : fn.params[i] = n]]

Returned(r) == IF r.flow = "error" THEN r ELSE WithFlow(r, "normal")

EvalCall(x, env, depth, cache) ==
  LET fn == program.fns[x.fn]
  IN  IF ~fn.const \/ Len(fn.params) # Len(x.args) THEN Error(cache)
      ELSE AndThen(EvalArgs(x.args, env, depth, cache), LAMBDA args :
             Returned(EvalBlock(fn.body, CallScope(fn, args.val), depth + 1, args.cache)))

EvalExpr(x, env, depth, cache) ==
  IF depth > MaxDepth THEN Error(cache)
  ELSE CASE x.e = "int" -> Ok(IntValue(x.t, MaskToWidth(x.n, Bits[x.t])), cache)
         [] x.e = "bool" -> Ok(BoolValue(x.b), cache)
         [] x.e = "path" -> EvalPath(x, env, depth, cache)
         [] x.e = "unary" -> EvalUnary(x, env, depth, cache)
         [] x.e = "logical" -> EvalLogical(x, env, depth, cache)
         [] x.e = "binary" -> EvalBinary(x, env, depth, cache)
         [] x.e = "cast" -> EvalCast(x, env, depth, cache)
         [] x.e = "if" -> EvalIf(x, env, depth, cache)
         [] x.e = "match" -> EvalMatch(x, env, depth, cache)
         [] x.e = "block" -> EvalBlock(x.body, env, depth, cache)
         [] x.e = "loop" -> EvalLoop(x, env, depth, cache)
         [] x.e = "while" -> EvalWhile(x, env, depth, cache)
         [] x.e = "call" -> EvalCall(x, env, depth, cache)
         [] OTHER -> Error(cache)

-----------------------------------------------------------------------------
(* Evaluate: the declarations in order *)

ConstInit == program = NoProgram /\ at = 0 /\ cached = <<>> /\ values = <<>> /\ failed = {}

NewEvaluator ==
  /\ program = NoProgram
  /\ program' \in Programs
  /\ UNCHANGED <<at, cached, values, failed>>

EvaluateNext ==
  /\ program # NoProgram /\ at < Len(program.order)
  /\ LET name == program.order[at + 1]
         r == EvalDecl(name, 0, cached)
     IN  /\ cached' = r.cache
         /\ values' = IF r.flow = "normal"
                        THEN BindName(values, name, r.val)
                        ELSE values
         /\ failed' = IF r.flow = "normal" THEN failed ELSE failed \cup {name}
  /\ at' = at + 1
  /\ UNCHANGED program

ConstNext == NewEvaluator \/ EvaluateNext

-----------------------------------------------------------------------------
(* What constants mean: integers, without words, cache or order.  Nothing is
   said of the control flow of loops and early returns. *)

Span(t) == IF t \in SignedTypes THEN -(2^(Bits[t] - 1)) .. 2^(Bits[t] - 1) - 1 ELSE 0 .. 2^Bits[t] - 1
Wrapped(t, i) == CHOOSE j \in Span(t) : (j - i) % 2^Bits[t] = 0
Number(t, i) == [k |-> "int", t |-> t, i |-> Wrapped(t, i)]
Fails == [k |-> "fails"]
Unsaid == [k |-> "unsaid"]

\* Division that truncates towards zero, and its remainder.
Truncated(a, b) ==
  CHOOSE q \in -Abs(a) .. Abs(a) :
    LET m == a - q * b IN Abs(m) < Abs(b) /\ (m = 0 \/ (m < 0) = (a < 0))

BitOf(i, n) == (i \div 2^n) % 2
BitSum(t, B(_, _), a, b) ==
  FoldLeft(LAMBDA sum, n : sum + (IF B(BitOf(a, n - 1), BitOf(b, n - 1)) THEN 2^(n - 1) ELSE 0),
           0, [n \in 1 .. Bits[t] |-> n])

Ideal(op, t, a, b) ==
  LET far == b < 0 \/ b >= Bits[t]
  IN  CASE op = "+" -> a + b
        [] op = "-" -> a - b
        [] op = "*" -> a * b
        [] op = "/" -> Truncated(a, b)
        [] op = "%" -> a - b * Truncated(a, b)
        [] op = "&" -> BitSum(t, LAMBDA p, q : p + q = 2, a, b)
        [] op = "|" -> BitSum(t, LAMBDA p, q : p + q > 0, a, b)
        [] op = "^" -> BitSum(t, LAMBDA p, q : p + q = 1, a, b)
        [] op = "<<" -> IF far THEN 0 ELSE a * 2^b
        [] op = ">>" -> IF far THEN (IF a < 0 THEN -1 ELSE 0) ELSE a \div 2^b

RECURSIVE Denote(_, _, _)

\* A block is its last expression, where each `let' before it names a value.
RECURSIVE DenoteBlock(_, _, _)
DenoteBlock(b, env, fuel) ==
  LET v == Denote(b.stmts[1].val, env, fuel)
  IN  IF b.stmts = <<>> THEN (IF b.last = <<>> THEN Unsaid ELSE Denote(b.last[1], env, fuel))
      ELSE IF b.stmts[1].s # "let" THEN Unsaid
      ELSE IF v.k \notin {"int", "bool"} THEN v
      ELSE DenoteBlock([b EXCEPT !.stmts = Tail(@)], BindName(env, b.stmts[1].name, v), fuel)

\* The values a pattern covers.
RECURSIVE Covers(_, _)
Covers(p, v) ==
  CASE p.p \in {"wildcard", "bind"} -> TRUE
    [] p.p = "int" -> v.k = "int" /\ Wrapped(v.t, p.n) = v.i
    [] p.p = "bool" -> v = BoolValue(p.b)
    [] p.p = "or" -> \E i \in DOMAIN p.alts : Covers(p.alts[i], v)
    [] p.p = "range" -> v.k = "int" /\ v.i \in p.lo .. p.hi - 1

DenoteBinary(op, a, b) ==
  CASE op = "==" -> BoolValue(a = b)
    [] op = "<" -> BoolValue(IF a.k = "int" THEN a.i < b.i ELSE ~a.b /\ b.b)
    [] op \in {"/", "%"} /\ b.i = 0 -> Fails
    [] OTHER -> Number(a.t, Ideal(op, a.t, a.i, b.i))

Denote(x, env, fuel) ==
  LET arg == Denote(x.arg, env, fuel)
      l == Denote(x.l, env, fuel)
      r == Denote(x.r, env, fuel)
      c == Denote(x.cond, env, fuel)
      known(v) == v.k \in {"int", "bool"}
      \* What arm i does with the scrutinee.
      inner(i) == IF x.arms[i].pat.p = "bind" THEN BindName(env, x.arms[i].pat.name, arg) ELSE env
      guard(i) == IF x.arms[i].guard = <<>> THEN BoolValue(TRUE) ELSE Denote(x.arms[i].guard[1], inner(i), fuel)
      fit == {i \in DOMAIN x.arms : Covers(x.arms[i].pat, arg) /\ guard(i) # BoolValue(FALSE)}
      arm == CHOOSE i \in fit : \A j \in fit : i <= j
  IN  IF fuel < 0 THEN Fails
      ELSE CASE x.e = "int" -> Number(x.t, x.n)
        [] x.e = "bool" -> BoolValue(x.b)
        [] x.e = "path" -> IF x.name \in DOMAIN env THEN env[x.name]
                           ELSE Denote(program.decls[x.name].init, <<>>, fuel - 1)
        [] x.e = "unary" -> IF ~known(arg) THEN arg
                            ELSE IF arg.k = "bool" THEN BoolValue(~arg.b)
                            ELSE Number(arg.t, IF x.op = "-" THEN -arg.i ELSE -1 - arg.i)
        [] x.e = "logical" -> IF ~known(l) \/ l.b = (x.op = "||") THEN l ELSE r
        [] x.e = "binary" -> IF ~known(l) THEN l ELSE IF ~known(r) THEN r ELSE DenoteBinary(x.op, l, r)
        [] x.e = "cast" -> IF ~known(arg) THEN arg
                           ELSE Number(x.t, IF arg.k = "int" THEN arg.i ELSE IF arg.b THEN 1 ELSE 0)
        [] x.e = "if" -> IF ~known(c) THEN c ELSE DenoteBlock(IF c.b THEN x.then ELSE x.else, env, fuel)
        [] x.e = "match" -> IF ~known(arg) THEN arg
                            ELSE IF fit = {} THEN Fails
                            ELSE IF guard(arm) # BoolValue(TRUE) THEN guard(arm)
                            ELSE DenoteBlock(x.arms[arm].body, inner(arm), fuel)
        [] x.e = "block" -> DenoteBlock(x.body, env, fuel)
        [] x.e = "call" ->
             LET fn == program.fns[x.fn]
                 args == [i \in DOMAIN x.args |-> Denote(x.args[i], env, fuel)]
                 bad == {i \in DOMAIN args : ~known(args[i])}
             IN  IF ~fn.const THEN Fails
                 ELSE IF bad # {} THEN args[CHOOSE i \in bad : \A j \in bad : i <= j]
                 ELSE DenoteBlock(fn.body, CallScope(fn, args), fuel - 1)
        [] OTHER -> Unsaid

-----------------------------------------------------------------------------
(* Properties *)

Agree(v, d) ==
  v.k = d.k /\ IF v.k = "bool" THEN v.b = d.b
              ELSE v.t = d.t /\ v.n \in 0 .. 2^Bits[v.t] - 1 /\ (v.n - d.i) % 2^Bits[v.t] = 0

AnyDepth == 20

\* Every constant and static gets the value its definition means, as wrapping
\* arithmetic on integers of its type, in whatever order the declarations come
\* and whatever failed or was cached before: a value that is given is right; a
\* definition within the depth limit is given its value; one that divides by
\* zero, calls a function that is not const or depends on itself is not given
\* any, and is reported.
ConstantsAreTheirMeaning ==
  program # NoProgram =>
    \A i \in 1 .. at :
      LET name == program.order[i]
          near == Denote(program.decls[name].init, <<>>, MaxDepth)
          any == Denote(program.decls[name].init, <<>>, AnyDepth)
      IN  /\ near.k \in {"int", "bool"} => name \in DOMAIN values
          /\ name \in DOMAIN values /\ any.k # "unsaid" => Agree(values[name], any)
          /\ any.k = "fails" => name \in failed
=============================================================================
