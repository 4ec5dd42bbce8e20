--------------------------------- MODULE Mir ---------------------------------
(***************************************************************************)
(* compiler/mir: the builder the lowerer drives, Function.Validate, and    *)
(* what the instructions of a function are meant to do.                    *)
(*                                                                         *)
(* An instruction reads the registers args, which it needs, and opt, of    *)
(* which some may be NoReg.  Arithmetic is done on small numbers; every    *)
(* other operation is an event with the values it was given, so two runs   *)
(* agree when they return the same value after the same events.  Lines     *)
(* for the debugger and the names of symbols are left out.                 *)
(*                                                                         *)
(* This is the meaning the lowerer counts on.  The C that compiler/codegen *)
(* emits follows it for constants, arithmetic, calls and blocks; its bodies*)
(* of the events differ (w15_emission.go): a struct_copy is an alias,      *)
(* fields are read and written at offset 0, slice_new drops the upper      *)
(* bound and a narrowing cast keeps 32 bits.                               *)
(***************************************************************************)
EXTENDS Integers, Sequences
LOCAL INSTANCE SequencesExt

NoReg == 0
NoBlock == 0
Undefined == -999  \* what an uninitialised C variable is taken to hold

Inst(op, dst, name, args, opt, imm) ==
  [op |-> op, dst |-> dst, name |-> name, args |-> args, opt |-> opt, imm |-> imm, entry |-> <<>>]
Term(t, reg, imm, to, else) == [t |-> t, reg |-> reg, imm |-> imm, to |-> to, else |-> else]
OpenBlock == [insts |-> <<>>, term |-> Term("invalid", NoReg, 0, NoBlock, NoBlock)]

ArithOps == {"add", "sub", "mul", "div", "mod"}
OverflowOps ==
  {"wrapping_add", "wrapping_sub", "wrapping_mul", "checked_add", "checked_sub", "checked_mul",
   "saturating_add", "saturating_sub", "saturating_mul"}
Effects == {"field_write", "chan_close"}  \* no destination
NamedOps ==
  {"call", "fn_ptr", "field_read", "field_write", "struct_new", "method_call", "eq_call", "spawn", "cast"}

-----------------------------------------------------------------------------
(* Builder.  reg is the register the last operation returned; how says
   whether the lowerer goes on, has refused the function or has panicked. *)

NewFunction ==
  [blocks |-> <<OpenBlock>>, current |-> 1, numRegs |-> 1, reg |-> NoReg, how |-> "going", diags |-> FALSE]

BeginBlock(b) == [b EXCEPT !.blocks = Append(@, OpenBlock), !.current = Len(b.blocks) + 1]
BeginBlocks(b, n) == [b EXCEPT !.blocks = @ \o [i \in 1 .. n |-> OpenBlock], !.current = Len(b.blocks) + n]
UseBlock(b, id) == IF id \in DOMAIN b.blocks THEN [b EXCEPT !.current = id] ELSE b

AppendInst(b, in) == [b EXCEPT !.blocks[b.current].insts = Append(@, in)]

\* A primitive with a destination: NewReg, then appendInst.
Emitted(b, op, name, args, opt, imm) ==
  [AppendInst(b, Inst(op, b.numRegs, name, args, opt, imm))
     EXCEPT !.reg = b.numRegs, !.numRegs = @ + 1]

ConstInt(b, n) == Emitted(b, "const_int", "", <<>>, <<>>, n)
Op(b, op, args) == Emitted(b, op, "", args, <<>>, 0)
NamedOp(b, op, name, args) == Emitted(b, op, name, args, <<>>, 0)
FieldWrite(b, target, name, value) ==
  AppendInst(b, Inst("field_write", NoReg, name, <<target, value>>, <<>>, 0))

\* Return, Jump and IfEq seal the current block.
Sealed(b, term) == [b EXCEPT !.blocks[b.current].term = term, !.current = NoBlock]
SealReturn(b, r) == Sealed(b, Term("return", r, 0, NoBlock, NoBlock))
SealJump(b, to) == Sealed(b, Term("jump", NoReg, 0, to, NoBlock))
SealIfEq(b, r, n, to, else) == Sealed(b, Term("if_eq", r, n, to, else))

-----------------------------------------------------------------------------
(* Validate: definitions are looked for in the order of the blocks. *)

\* What is defined before instruction i of block k.
DefinedBefore(fn, k, i) ==
  UNION {{fn.blocks[j].insts[h].dst : h \in DOMAIN fn.blocks[j].insts} : j \in 1 .. k - 1}
  \cup {fn.blocks[k].insts[h].dst : h \in 1 .. i - 1}

ValidInst(in, defined) ==
  /\ in.op \notin Effects => in.dst # NoReg
  /\ in.op \in NamedOps => in.name # ""
  /\ in.op = "method_call" => in.args # <<>>
  /\ in.op = "eq_call" => Len(in.args) = 2
  /\ \A i \in DOMAIN in.args : in.args[i] # NoReg /\ in.args[i] \in defined
  /\ \A i \in DOMAIN in.opt : in.opt[i] = NoReg \/ in.opt[i] \in defined

ValidTerm(term, defined) ==
  \/ term.t = "return" /\ term.reg # NoReg /\ term.reg \in defined
  \/ term.t = "jump" /\ term.to # NoBlock
  \/ term.t = "if_eq" /\ term.reg \in defined /\ term.to # NoBlock /\ term.else # NoBlock

\* Mutation of Validate: a block may lack its terminator.
ValidateInstsOnly(fn) ==
  \A k \in DOMAIN fn.blocks :
    \A i \in DOMAIN fn.blocks[k].insts : ValidInst(fn.blocks[k].insts[i], DefinedBefore(fn, k, i))

Validate(fn) ==
  \A k \in DOMAIN fn.blocks :
    /\ \A i \in DOMAIN fn.blocks[k].insts :
         ValidInst(fn.blocks[k].insts[i], DefinedBefore(fn, k, i))
    /\ ValidTerm(fn.blocks[k].term, DefinedBefore(fn, k, Len(fn.blocks[k].insts) + 1))

-----------------------------------------------------------------------------
(* What the instructions are meant to do.  The world answers the operations
   that leave the function: world[f] is what f returns. *)

Outcome(v, trace) == [val |-> v, trace |-> trace]
Stuck(trace) == Outcome(Undefined, Append(trace, <<"stuck">>))

TruncatedQuotient(l, r) ==
  LET q == (IF l < 0 THEN -l ELSE l) \div (IF r < 0 THEN -r ELSE r)
  IN  IF (l < 0) = (r < 0) THEN q ELSE -q

\* Numbers are too small to overflow, so the policies agree.
Computed(op, l, r) ==
  CASE op \in {"add", "wrapping_add", "checked_add", "saturating_add"} -> l + r
    [] op \in {"sub", "wrapping_sub", "checked_sub", "saturating_sub"} -> l - r
    [] op \in {"mul", "wrapping_mul", "checked_mul", "saturating_mul"} -> l * r
    [] op = "div" -> IF r = 0 THEN Undefined ELSE TruncatedQuotient(l, r)
    [] op = "mod" -> IF r = 0 THEN Undefined ELSE l - r * TruncatedQuotient(l, r)
    [] op = "eq_scalar" -> IF l = r THEN 1 ELSE 0

\* The answer to an operation other than the pure ones.
Answer(world, op, name, vals) ==
  CASE op = "call" -> world[name]
    [] op = "eq_call" -> IF vals[1] = vals[2] THEN 1 ELSE 0
    [] op = "cast" -> vals[1]
    [] op \in {"method_call", "thread_join"} -> 4
    [] op = "chan_recv" -> 5
    [] op \in {"field_read"} -> 6
    [] op \in {"chan_send"} -> 0
    [] OTHER -> 9

PureOps == ArithOps \cup OverflowOps \cup {"eq_scalar"}

RECURSIVE RunBlock(_, _, _, _, _)

\* The function on its arguments.
Run(fn, args, world) ==
  RunBlock(fn, 1, [regs |-> [r \in 0 .. fn.numRegs |-> Undefined], trace |-> <<>>, steps |-> 0], args, world)

Values(m, rs) == [i \in DOMAIN rs |-> IF rs[i] = NoReg THEN Undefined ELSE m.regs[rs[i]]]
SetReg(m, r, v) == [m EXCEPT !.regs[r] = v]
Note(m, event) == [m EXCEPT !.trace = Append(@, event)]

\* One instruction.
RunInst(m, in, args, world) ==
  LET vals == Values(m, in.args)
  IN  CASE in.op = "const_int" -> SetReg(m, in.dst, in.imm)
        [] in.op = "param" -> SetReg(m, in.dst, args[in.imm + 1])
        [] in.op \in PureOps -> SetReg(m, in.dst, Computed(in.op, vals[1], vals[2]))
        [] in.op = "chan_recv" ->
             SetReg(SetReg(Note(m, <<in.op, "", <<vals[1]>>>>), in.args[2], Answer(world, in.op, "", vals)), in.dst, 0)
        [] in.op = "spawn" ->
             SetReg(Note(m, <<in.op, Run(in.entry[1], vals \o <<0>>, world)>>), in.dst, Answer(world, in.op, "", vals))
        [] in.op \in Effects -> Note(m, <<in.op, in.name, vals>>)
        [] OTHER ->
             SetReg(Note(m, <<in.op, in.name, vals \o Values(m, in.opt)>>), in.dst,
                    Answer(world, in.op, in.name, vals))

\* A function without loops enters no block twice.
RunTerm(fn, k, m, args, world) ==
  LET t == fn.blocks[k].term
  IN  CASE t.t = "return" -> Outcome(m.regs[t.reg], m.trace)
        [] t.t = "jump" -> RunBlock(fn, t.to, m, args, world)
        [] t.t = "if_eq" -> RunBlock(fn, IF m.regs[t.reg] = t.imm THEN t.to ELSE t.else, m, args, world)
        [] OTHER -> Stuck(m.trace)

RunBlock(fn, k, m, args, world) ==
  IF m.steps > Len(fn.blocks) THEN Stuck(m.trace)
  ELSE RunTerm(fn, k,
               FoldLeft(LAMBDA acc, in : RunInst(acc, in, args, world), [m EXCEPT !.steps = @ + 1], fn.blocks[k].insts),
               args, world)
=============================================================================
