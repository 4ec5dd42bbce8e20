-------------------------------- MODULE Lower --------------------------------
(***************************************************************************)
(* compiler/lower: a function whose body the checker accepted becomes a    *)
(* MIR function, or is refused with a diagnostic.                          *)
(*                                                                         *)
(* Each operator takes the builder and returns it; the register of the     *)
(* result is in it, and after a diagnostic nothing more is lowered.  The   *)
(* forms the lowerer has no case for stand as one, "unsupported".  Values  *)
(* of enums carry no payload.                                              *)
(***************************************************************************)
EXTENDS CheckBody, Mir
LOCAL INSTANCE SequencesExt

CONSTANT Decls      \* functions, as the bridge gives them

VARIABLES decl,     \* the function, <<>> before one is chosen
          typed,    \* its body with the checker's types, and whether it is ok
          lowered   \* the builder when the lowerer is done, <<>> before

lowerVars == <<decl, typed, lowered>>

Refused(b) == [b EXCEPT !.how = "refused", !.diags = TRUE]
Panicked(b) == [b EXCEPT !.how = "panicked"]
Onward(b, Use(_)) == IF b.how = "going" THEN Use(b) ELSE b
WithReg(b, r) == [b EXCEPT !.reg = r]

RECURSIVE LowerExpr(_, _, _)
RECURSIVE LowerBlockToReturn(_, _, _)

\* Expressions from left to right, and what follows with their registers.
Collected(regs, b) == [b |-> b, regs |-> Append(regs, b.reg)]
LowerList(b, es, env) ==
  FoldLeft(LAMBDA acc, e : IF acc.b.how # "going" THEN acc ELSE Collected(acc.regs, LowerExpr(acc.b, e, env)),
           [b |-> b, regs |-> <<>>], es)
WithAll(acc, Use(_, _)) == IF acc.b.how # "going" THEN acc.b ELSE Use(acc.b, acc.regs)

-----------------------------------------------------------------------------
(* match *)

Default == -1
Unlowerable == -2

EnumVariantIndex(enum, v) == (CHOOSE i \in DOMAIN Enums[enum] : Enums[enum][i] = v) - 1
OrIsTotal(p) == {p.alts[i].b : i \in {j \in DOMAIN p.alts : p.alts[j].p = "bool"}} = BOOLEAN

\* armDiscriminants, for one arm.
ArmDiscriminant(p) ==
  CASE p.p \in {"wild", "bind"} -> Default
    [] p.p = "bool" -> IF p.b THEN 1 ELSE 0
    [] p.p = "ctor" /\ p.variant \in Range(Enums[p.enum]) -> EnumVariantIndex(p.enum, p.variant)
    [] p.p = "or" /\ OrIsTotal(p) -> Default
    [] p.p = "at" /\ p.inner.p = "wild" -> Default
    [] OTHER -> Unlowerable

\* A single statement, `return e'.
IsReturn(stmts) == Len(stmts) = 1 /\ stmts[1].k = "return" /\ stmts[1].val # <<>>

\* The single expression a block stands for, in an arm or an inlined closure:
\* its last one, or the operand of its only statement, a return.
SingleExpr(b, block, env, stmtsToo) ==
  IF block.last # <<>> /\ (stmtsToo \/ block.stmts = <<>>) THEN LowerExpr(b, block.last[1], env)
  ELSE IF IsReturn(block.stmts) THEN LowerExpr(b, block.stmts[1].val[1], env)
  ELSE Refused(b)

\* `result = (value + 0) + 0', then on to the merge block.
EmitMoveInto(b, src, dst) ==
  LET z == ConstInt(b, 0) IN AppendInst(z, Inst("add", dst, "", <<src, z.reg>>, <<>>, 0))
MovedTo(b, result, merge) ==
  LET z == ConstInt(b, 0)
      a == Op(z, "add", <<b.reg, z.reg>>)
  IN  SealJump(EmitMoveInto(a, a.reg, result), merge)

\* One compare block per arm but a default in the last place.  The arms' blocks
\* come first, then the merge block, then the compares; the block of the
\* scrutinee is taken to be the one before the first arm's.
MatchFrom(s, m, env, scrut) ==
  LET n        == Len(m.arms)
      r        == ConstInt(s, 0)
      first    == Len(r.blocks) + 1
      merge    == first + n
      discs    == [i \in 1 .. n |-> ArmDiscriminant(m.arms[i].pat)]
      fallback == discs[n] = Default
      compares == IF fallback THEN n - 1 ELSE n
      Else(i)  == IF i < compares THEN merge + i + 1 ELSE IF fallback THEN merge - 1 ELSE merge
      Compare(b, i) ==
        IF discs[i] = Default THEN Panicked(b)
        ELSE SealIfEq(UseBlock(b, merge + i), scrut, discs[i], first + i - 1, Else(i))
      Arm(b, i) ==
        Onward(SingleExpr(UseBlock(b, first + i - 1), m.arms[i].body, env, TRUE),
               LAMBDA x : MovedTo(x, r.reg, merge))
      entered  == SealJump(UseBlock(BeginBlocks(r, n + 1 + compares), first - 1),
                           IF compares > 0 THEN merge + 1 ELSE first)
      compared == FoldLeft(LAMBDA b, i : Onward(b, LAMBDA x : Compare(x, i)), entered, [i \in 1 .. compares |-> i])
      filled   == FoldLeft(LAMBDA b, i : Onward(b, LAMBDA x : Arm(x, i)), compared, [i \in 1 .. n |-> i])
  IN  Onward(filled, LAMBDA x : WithReg(UseBlock(x, merge), r.reg))

LowerMatch(b, m, env) ==
  Onward(LowerExpr(b, m.arg, env), LAMBDA s :
    IF \E i \in DOMAIN m.arms : ArmDiscriminant(m.arms[i].pat) = Unlowerable THEN Refused(s)
    ELSE IF m.arms = <<>> THEN Panicked(s)
    ELSE MatchFrom(s, m, env, s.reg))

-----------------------------------------------------------------------------
(* `?' and `?.' *)

ErrorVariants(t) == IF t \in DOMAIN Enums THEN {i \in DOMAIN Enums[t] : Enums[t][i] \in {"Err", "None"}} ELSE {}
ErrorVariantIndex(t) == (CHOOSE i \in ErrorVariants(t) : \A j \in ErrorVariants(t) : i <= j) - 1

\* The block of the receiver is taken to be the one before the error block.
Propagated(b, recv, index) ==
  LET err == Len(b.blocks) + 1
      branch == SealIfEq(UseBlock(BeginBlocks(b, 2), err - 1), recv, index, err, err + 1)
  IN  WithReg(UseBlock(SealReturn(UseBlock(branch, err), recv), err + 1), recv)

LowerTry(b, x, env, Use(_)) ==
  Onward(LowerExpr(b, x.arg, env), LAMBDA r :
    IF ErrorVariants(x.arg.ty) = {} THEN Refused(r)
    ELSE Use(Propagated(r, r.reg, ErrorVariantIndex(x.arg.ty))))

-----------------------------------------------------------------------------
(* The other forms *)

ScalarBits == [I8 |-> 8, I32 |-> 32, I64 |-> 64, F64 |-> 64, Bool |-> 8]
IsScalarType(t) == t \in DOMAIN ScalarBits

ClassifyCast(s, t) ==
  CASE Infer \in {s, t} -> IF s = t THEN "reinterpret" ELSE "invalid"
    [] s = t -> "reinterpret"
    [] IsScalarType(s) /\ IsScalarType(t) ->
         IF s \in FloatTypes /\ t \notin FloatTypes THEN "float_to_int"
         ELSE IF s \notin FloatTypes /\ t \in FloatTypes THEN "int_to_float"
         ELSE IF ScalarBits[s] = ScalarBits[t] THEN "reinterpret"
         ELSE IF ScalarBits[s] < ScalarBits[t] THEN "widen" ELSE "narrow"
    [] s \in PtrTypes /\ t \in PtrTypes -> "reinterpret"
    [] s \in PtrTypes /\ IsScalarType(t) -> "ptr_to_int"
    [] IsScalarType(s) /\ t \in PtrTypes -> "int_to_ptr"
    [] OTHER -> "invalid"

\* A cast that cannot be classified is diagnosed, and its operand lowered again.
LowerCast(b, x, env) ==
  LET mode == ClassifyCast(x.arg.ty, x.ty)
      c == Onward(LowerExpr(b, x.arg, env), LAMBDA s :
             IF mode = "invalid" THEN Refused(s) ELSE NamedOp(s, "cast", mode, <<s.reg>>))
  IN  IF c.how = "refused" THEN LowerExpr([c EXCEPT !.how = "going"], x.arg, env) ELSE c

\* `!=' is 1 - (l == r).
LowerSemanticEquality(b, x, regs) ==
  LET e == IF IsScalarType(x.args[1].ty) THEN Op(b, "eq_scalar", regs) ELSE NamedOp(b, "eq_call", "eq", regs)
      one == ConstInt(e, 1)
  IN  IF x.op = "==" THEN e ELSE Op(one, "sub", <<one.reg, e.reg>>)

MapBinaryOp == [o \in {"+", "-", "*", "/", "%"} |->
  CASE o = "+" -> "add" [] o = "-" -> "sub" [] o = "*" -> "mul" [] o = "/" -> "div" [] o = "%" -> "mod"]

LowerBinary(b, x, env) ==
  IF x.op \in {"==", "!="}
    THEN WithAll(LowerList(b, x.args, env), LAMBDA c, regs : LowerSemanticEquality(c, x, regs))
  ELSE IF x.op \notin DOMAIN MapBinaryOp THEN Refused(b)
  ELSE WithAll(LowerList(b, x.args, env), LAMBDA c, regs : Op(c, MapBinaryOp[x.op], regs))

Bound(env, names, regs) ==
  [n \in DOMAIN env \cup Range(names) |->
     IF n \in Range(names) THEN regs[CHOOSE i \in DOMAIN names : names[i] = n /\ \A j \in DOMAIN names : names[j] = n => j <= i]
     ELSE env[n]]

\* An immediately invoked closure is inlined, in the caller's names.
LowerInlined(b, x, env) ==
  IF Len(x.args) # Len(x.params) THEN Refused(b)
  ELSE WithAll(LowerList(b, x.args, env), LAMBDA c, regs : SingleExpr(c, x.body, Bound(env, x.params, regs), FALSE))

\* Methods of ThreadHandle and Chan.  recv's value is the slot it writes to.
LowerRuntimeMethod(b, x, env) ==
  LET Needs(c, n, Use(_)) == IF Len(x.args) # n THEN Refused(c) ELSE Use(c)
      Slot(c, ch) == LET s == ConstInt(c, 0) IN WithReg(Op(s, "chan_recv", <<ch, s.reg>>), s.reg)
      Closing(c) == ConstInt(AppendInst(c, Inst("chan_close", NoReg, "", <<c.reg>>, <<>>, 0)), 0)
      OnChan(c) ==
        CASE x.name = "send" ->
               Needs(c, 1, LAMBDA d : Onward(LowerExpr(d, x.args[1], env), LAMBDA v : Op(v, "chan_send", <<c.reg, v.reg>>)))
          [] x.name = "recv" -> Needs(c, 0, LAMBDA d : Slot(d, d.reg))
          [] x.name = "close" -> Needs(c, 0, Closing)
          [] OTHER -> Refused(c)
  IN  IF x.arg.ty = "Chan" THEN Onward(LowerExpr(b, x.arg, env), OnChan)
      ELSE IF x.name # "join" \/ x.args # <<>> THEN Refused(b)
      ELSE Onward(LowerExpr(b, x.arg, env), LAMBDA h : Op(h, "thread_join", <<h.reg>>))

LowerOverflowMethod(b, x, env) ==
  IF Len(x.args) # 1 THEN Refused(b)
  ELSE WithAll(LowerList(b, <<x.arg>> \o x.args, env), LAMBDA c, regs : Op(c, x.name, regs))

LowerMethodCall(b, x, env) ==
  WithAll(LowerList(b, <<x.arg>> \o x.args, env), LAMBDA c, regs : NamedOp(c, "method_call", x.name, regs))

\* A refused runtime method is diagnosed and then lowered as an ordinary one.
LowerMethod(b, x, env) ==
  LET r == IF x.arg.ty \in {"Chan", "Thread"} THEN LowerRuntimeMethod(b, x, env) ELSE Refused(b)
      c == IF x.arg.ty \in {"Chan", "Thread"} THEN [r EXCEPT !.how = "going"] ELSE b
  IN  IF r.how # "refused" THEN r
      ELSE IF x.name \in OverflowOps THEN LowerOverflowMethod(c, x, env)
      ELSE LowerMethodCall(c, x, env)

\* Fields first, then the base, then the writes, in the order of the fields.
LowerStructLit(b, x, env) ==
  WithAll(LowerList(b, x.args \o x.base, env), LAMBDA c, regs :
    LET vals == SubSeq(regs, 1, Len(x.args))
        new  == IF x.base = <<>> THEN Emitted(c, "struct_new", x.type, <<>>, vals, 0)
                ELSE Op(c, "struct_copy", <<regs[Len(regs)]>>)
    IN  FoldLeft(LAMBDA d, i : FieldWrite(d, new.reg, x.fields[i], vals[i]), new, [i \in DOMAIN vals |-> i]))

LowerIndexRange(b, x, env) ==
  WithAll(LowerList(b, <<x.arg>> \o x.low \o x.high, env), LAMBDA c, regs :
    Emitted(c, "slice_new", "", <<regs[1]>>,
            <<IF x.low = <<>> THEN NoReg ELSE regs[2], IF x.high = <<>> THEN NoReg ELSE regs[Len(regs)]>>, 0))

\* The closure becomes a function of one parameter, lowered and validated.  Its
\* first parameter, if it has one, is bound to it, and no other.
LiftSpawnClosure(x) ==
  LET p == Emitted(NewFunction, "param", "", <<>>, <<>>, 0)
      f == LowerBlockToReturn(p, x.body, [n \in {x.params[i] : i \in DOMAIN x.params \cap {1}} |-> p.reg])
  IN  Onward(f, LAMBDA g : IF Validate(g) THEN g ELSE Refused(g))

LowerSpawn(b, x) ==
  LET f == LiftSpawnClosure(x)
      c == IF x.params = <<>> THEN WithReg(b, NoReg) ELSE ConstInt(b, 0)
      arg == IF x.params = <<>> THEN <<>> ELSE <<c.reg>>
  IN  IF f.how # "going" THEN [b EXCEPT !.how = f.how, !.diags = TRUE]
      ELSE [AppendInst(c, [Inst("spawn", c.numRegs, "entry", arg, <<>>, 0) EXCEPT !.entry = <<f>>])
              EXCEPT !.reg = c.numRegs, !.numRegs = @ + 1, !.diags = @ \/ f.diags]

LowerExpr(b, x, env) ==
  CASE x.e = "int" -> ConstInt(b, x.n)
    [] x.e = "bool" -> ConstInt(b, IF x.b THEN 1 ELSE 0)
    [] x.e = "path" -> IF x.name \in DOMAIN env THEN WithReg(b, env[x.name]) ELSE Refused(b)
    [] x.e = "variant" -> ConstInt(b, EnumVariantIndex(x.enum, x.name))
    [] x.e = "bin" -> LowerBinary(b, x, env)
    [] x.e = "call" -> WithAll(LowerList(b, x.args, env), LAMBDA c, regs : NamedOp(c, "call", x.name, regs))
    [] x.e = "inline" -> LowerInlined(b, x, env)
    [] x.e = "method" -> LowerMethod(b, x, env)
    [] x.e = "spawn" -> LowerSpawn(b, x)
    [] x.e = "ref" -> Onward(LowerExpr(b, x.arg, env), LAMBDA c : Op(c, "borrow", <<c.reg>>))
    [] x.e = "field" -> Onward(LowerExpr(b, x.arg, env), LAMBDA c : NamedOp(c, "field_read", x.name, <<c.reg>>))
    [] x.e = "optfield" -> LowerTry(b, x, env, LAMBDA c : NamedOp(c, "field_read", x.name, <<c.reg>>))
    [] x.e = "slice" -> LowerIndexRange(b, x, env)
    [] x.e = "struct" -> LowerStructLit(b, x, env)
    [] x.e = "match" -> LowerMatch(b, x, env)
    [] x.e = "try" -> LowerTry(b, x, env, LAMBDA c : c)
    [] x.e = "cast" -> LowerCast(b, x, env)
    [] OTHER -> Refused(b)

LowerBlockToReturn(b, block, env) ==
  IF block.last # <<>> \/ ~IsReturn(block.stmts) THEN Refused(b)
  ELSE Onward(LowerExpr(b, block.stmts[1].val[1], env), LAMBDA c : SealReturn(c, c.reg))

LowerFn(fn, block) ==
  LET ps == FoldLeft(LAMBDA b, i : Emitted(b, "param", "", <<>>, <<>>, i - 1), NewFunction, [i \in DOMAIN fn.params |-> i])
      f  == LowerBlockToReturn(ps, block, [n \in {fn.params[i].name : i \in DOMAIN fn.params} |->
                                             CHOOSE i \in DOMAIN fn.params : fn.params[i].name = n])
  IN  IF fn.generic THEN Refused(NewFunction)
      ELSE Onward(f, LAMBDA g : IF Validate(g) THEN g ELSE Refused(g))

-----------------------------------------------------------------------------
LowerInit == decl = <<>> /\ typed = <<>> /\ lowered = <<>>

TypeCheck ==
  /\ decl = <<>>
  /\ \E fn \in Decls : decl' = fn /\ typed' = CheckFnBody(fn)
  /\ UNCHANGED lowered

LowerDecl ==
  /\ decl # <<>> /\ lowered = <<>> /\ typed.sc.ok
  /\ lowered' = LowerFn(decl, typed.body)
  /\ UNCHANGED <<decl, typed>>

LowerNext == TypeCheck \/ LowerDecl
LowerSpec == LowerInit /\ [][LowerNext]_lowerVars
=============================================================================
