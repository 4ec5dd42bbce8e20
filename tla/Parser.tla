-------------------------------- MODULE Parser --------------------------------
(***************************************************************************)
(* compiler/parse: the recursive-descent parser.                           *)
(*                                                                         *)
(* Every parse function of the code is a production: the sequence of the   *)
(* instructions it carries out.  A stack of frames stands for Go's call    *)
(* stack, and one step of the machine is one instruction.  A token is its  *)
(* kind; the identifiers the parser knows by their text are kinds of their *)
(* own.  The syntax tree is built in postfix order: a node is its label,   *)
(* after its children, and a node with a list of children also leaves a    *)
(* mark before the first of them.  Spans and texts are left out.           *)
(***************************************************************************)
EXTENDS Naturals, Sequences, FiniteSets

CONSTANTS Inputs,           \* token streams, without the final EOF
          MaxRecursionDepth \* maxRecursionDepth, 256 in the code

ASSUME ParserAssumption == MaxRecursionDepth \in Nat \ {0}

VARIABLES toks,    \* p.toks, with its EOF
          pos,     \* p.pos, from 1
          depth,   \* p.depth
          stack,   \* frames, the running one first
          val,     \* what the last parse function returned: a label, or "nil"
          out,     \* the tree so far, in postfix order
          faulty   \* p.diags is not empty

parseVars == <<toks, pos, depth, stack, val, out, faulty>>

Names == {"id", "_", "union", "dyn", "Ptr", "pkg"}
Literals == {"int", "float", "string", "char", "true", "false"}
AssignOps == {"=", "+="}

\* The kinds of token that `expect' and `eat' are given.
Kind(t) == IF t = "id" THEN Names ELSE {t}

-----------------------------------------------------------------------------
(* Instructions *)

Advance == [op |-> "advance"]
Name == [op |-> "name"]                              \* advance over a path's head
Dots == [op |-> "dots"]                              \* `.name' while there is one
Expect(t) == [op |-> "expect", t |-> t]              \* p.expect, result ignored
Demand(t, how) == [op |-> "demand", t |-> t, how |-> how]  \* p.expect, and leave when it failed
Fault == [op |-> "fault"]                            \* p.errorAt
Parse(n) == [op |-> "parse", n |-> n]
Climb(k) == [op |-> "climb", k |-> k]                \* the operand of an operator of level k - 1
Operators(k) == [op |-> "operators", k |-> k]
Assign == [op |-> "assign"]
Prefix == [op |-> "prefix"]
If(ahead, then, else) == [op |-> "if", ahead |-> ahead, then |-> then, else |-> else]
Got(vals, then, else) == [op |-> "got", vals |-> vals, then |-> then, else |-> else]
StructLit == [op |-> "structlit"]                    \* parsePathOrStructLit's decision
Repeat(stop, body) == [op |-> "repeat", stop |-> stop, body |-> body]
While(on, body) == [op |-> "while", on |-> on, body |-> body]
Break == [op |-> "break"]
Return == [op |-> "return"]
Nil == [op |-> "nil"]
Node(l) == [op |-> "node", l |-> l]
Forbid(labels) == [op |-> "forbid", labels |-> labels]
Forget(kept) == [op |-> "forget", kept |-> kept]     \* no field takes decorators or visibility
Recover == [op |-> "recover"]                        \* to the `)' of pub(...)
Sync == [op |-> "sync"]                              \* p.synchronize
Progress == [op |-> "progress"]                      \* parseFile's guard

At(t, then, else) == If(<<Kind(t)>>, then, else)
Eat(t, then) == If(<<Kind(t)>>, <<Advance>> \o then, <<>>)
EatElse(t, then, else) == If(<<Kind(t)>>, <<Advance>> \o then, else)
Comma == EatElse(",", <<>>, <<Break>>)
OrBreak == Got({"nil"}, <<Break>>, <<>>)
OrNil == Got({"nil"}, <<Nil>>, <<>>)
OrSync == Got({"nil"}, <<Sync>>, <<>>)
Case(S, then) == [on |-> S, then |-> then]

Switch(cases, default) == [op |-> "switch", cases |-> cases, default |-> default]
Until(t, body) == Repeat({t, "EOF"}, body)

-----------------------------------------------------------------------------
(* types.go *)

TypeArgs == <<Expect("["), Node("["), Until("]", <<Parse("Type"), Comma>>), Expect("]")>>
TypeList == <<Parse("Type"), While({"+"}, <<Advance, Parse("Type"), Node("+")>>)>>

PathType == <<Name, Dots, At("[", TypeArgs, <<>>), Node("pathtype")>>
PtrType == <<Advance, Expect("["), Parse("Type"), Expect("]"), Node("ptr")>>
DynType == <<Advance>> \o TypeList \o <<Node("dyn")>>
ImplType == <<Advance, Parse("Type"), Node("impltype")>>
FnType ==
  <<Advance, Expect("("), Node("("), Until(")", <<Parse("Type"), Comma>>), Expect(")"),
    Eat("->", <<Parse("Type"), Node("returns")>>), Node("fntype")>>
ArrayOrSliceType ==
  <<Advance, Parse("Type"),
    EatElse(";", <<Parse("Expr"), Expect("]"), Node("array")>>, <<Expect("]"), Node("slice")>>)>>
\* The parentheses around a single type leave no node.
ParenOrTupleType ==
  <<Advance,
    EatElse(")", <<Node("unit")>>,
      <<Parse("Type"),
        EatElse(")", <<>>,
          <<EatElse(",", <<Node("tuple"), Until(")", <<Parse("Type"), Node("elem"), Comma>>), Expect(")")>>,
              <<Expect(")")>>)>>)>>)>>

Type ==
  <<Switch(<<Case({"("}, ParenOrTupleType), Case({"["}, ArrayOrSliceType), Case({"fn"}, FnType),
             Case({"dyn"}, DynType), Case({"Ptr"}, <<If(<<{"Ptr"}, {"["}>>, PtrType, PathType)>>),
             Case(Names \cup {"Self"}, PathType), Case({"impl"}, ImplType)>>,
           <<Fault, Nil>>)>>

-----------------------------------------------------------------------------
(* patterns.go *)

LiteralPatExpr == <<Eat("-", <<Node("-")>>), If(<<Literals>>, <<Advance, Node("lit")>>, <<Fault, Nil>>)>>
LiteralOrRangePat ==
  <<Parse("LiteralPatExpr"), OrNil,
    Switch(<<Case({".."}, <<Advance, Parse("LiteralPatExpr"), Node("range")>>),
             Case({"..="}, <<Advance, Parse("LiteralPatExpr"), Node("range=")>>)>>, <<Node("litpat")>>)>>
TuplePat(label) ==
  <<Advance, Node("("), Until(")", <<Parse("Pattern"), Comma>>), Expect(")"), Node(label)>>
CtorStructPat ==
  <<Advance, Node("{"),
    Until("}", <<Eat("..", <<Node(".."), Break>>), Demand("id", "break"),
                 EatElse(":", <<Parse("Pattern"), Node("field:")>>, <<Node("field")>>), Comma>>),
    Expect("}"), Node("ctor{}")>>
CtorPat(bare) ==
  <<Switch(<<Case({"("}, TuplePat("ctor()")), Case({"{"}, CtorStructPat)>>, bare)>>
IdentPat ==
  <<Name,
    EatElse("@", <<Parse("Pattern"), Node("at")>>,
      <<Dots>> \o CtorPat(<<Got({"dots"}, <<Node("ctor")>>, <<Node("bind")>>)>>))>>

PatternAtom ==
  <<Switch(<<Case({"_"}, <<Advance, Node("wildcard")>>), Case(Names, IdentPat),
             Case({"None"}, <<Advance, Node("ctor")>>),
             Case({"Some"}, <<Name, Dots>> \o CtorPat(<<Node("ctor")>>)),
             Case({"("}, TuplePat("tuplepat")), Case(Literals \cup {"-"}, LiteralOrRangePat)>>,
           <<Fault, Advance, Nil>>)>>
Pattern == <<Parse("PatternAtom"), OrNil, While({"|"}, <<Advance, Parse("PatternAtom"), Node("or")>>)>>

-----------------------------------------------------------------------------
(* exprs.go *)

CompareOps == {"==", "<"}

\* Mutation of Levels: `&' and `|' bind looser than the comparisons, as in C.
LevelsOfC == <<{"||"}, {"&&"}, {"|"}, {"^"}, {"&"}, CompareOps, {"<<", ">>"}, {"+", "-"}, {"*", "/"}, {"as"}>>

\* The binary operators, the loosest first.  Each level loops: it groups to
\* the left.
Levels == <<{"||"}, {"&&"}, CompareOps, {"|"}, {"^"}, {"&"}, {"<<", ">>"}, {"+", "-"}, {"*", "/"}, {"as"}>>
PrefixNode == [t \in {"!", "-", "*", "&"} |->
                 CASE t = "!" -> "not" [] t = "-" -> "neg" [] t = "*" -> "deref" [] t = "&" -> "addr"]

Expr == <<Parse("Assignment")>>
Assignment == <<Climb(1), OrNil, Assign>>
Unary == <<Prefix>>

CallTail == <<Advance, Node("("), Until(")", <<Parse("Expr"), OrBreak, Comma>>), Expect(")"), Node("call")>>
RangeEnd(label) == <<Advance, At("]", <<>>, <<Parse("Expr"), Node("high")>>), Expect("]"), Node(label)>>
Ranges(open, closed, default) == Switch(<<Case({".."}, RangeEnd(open)), Case({"..="}, RangeEnd(closed))>>, default)
IndexTail ==
  <<Advance, Ranges("..high", "..=high", <<Parse("Expr"), Ranges("low..", "low..=", <<Expect("]"), Node("index")>>)>>)>>
Postfix ==
  <<Parse("Primary"), OrNil,
    While({".", "?.", "?", "(", "["},
      <<Switch(<<Case({"."}, <<Advance, Demand("id", "return"), Node("field")>>),
                 Case({"?."}, <<Advance, Demand("id", "return"), Node("optfield")>>),
                 Case({"?"}, <<Advance, Node("try")>>), Case({"("}, CallTail)>>, IndexTail)>>)>>

ParenOrTupleExpr ==
  <<Advance,
    EatElse(")", <<Node("unit")>>,
      <<Parse("Expr"),
        EatElse(",", <<Node("tuple"),
                       EatElse(")", <<>>, <<Until(")", <<Parse("Expr"), Node("elem"), Comma>>), Expect(")")>>)>>,
          <<Expect(")"), Node("paren")>>)>>)>>
PathOrStructLit == <<Advance, Node("path"), StructLit>>
StructLitTail ==
  <<Advance, Node("{"),
    Until("}", <<Eat("..", <<Parse("Expr"), Node("base"), Break>>), Demand("id", "break"),
                 EatElse(":", <<Parse("Expr"), Node("value")>>, <<Node("shorthand")>>), Comma>>),
    Expect("}"), Node("struct")>>

Block ==
  <<Expect("{"), Node("{"),
    Until("}", <<Parse("StmtOrTrailing"), Got({"trailing"}, <<Break>>, <<>>), OrSync>>),
    Expect("}"), Node("block")>>

LetStmt ==
  <<Advance, Parse("Pattern"), Eat(":", <<Parse("Type"), Node("typed")>>),
    Eat("=", <<Parse("Expr"), Node("init")>>), Expect(";"), Node("let")>>
VarStmt ==
  <<Advance, Expect("id"), Eat(":", <<Parse("Type"), Node("typed")>>), Expect("="), Parse("Expr"),
    Expect(";"), Node("var")>>
LeaveStmt(label) == <<Advance, At(";", <<>>, <<Parse("Expr"), Node("value")>>), Expect(";"), Node(label)>>
ContinueStmt == <<Advance, Expect(";"), Node("continue")>>

BlockLike == {"block", "if", "match", "loop", "while", "for", "unsafe"}   \* isBlockExpr
ExprStmt ==
  <<Parse("Expr"), OrNil,
    EatElse(";", <<Node("expr;")>>,
      <<Got(BlockLike, <<At("}", <<Node("trailing")>>, <<Node("expr;")>>)>>, <<Node("trailing")>>)>>)>>
ItemStarts ==
  {"fn", "struct", "enum", "trait", "impl", "const", "static", "type", "extern", "@", "pub"}
StmtOrTrailing ==
  <<Switch(<<Case({"let"}, LetStmt), Case({"var"}, VarStmt), Case({"return"}, LeaveStmt("return")),
             Case({"break"}, LeaveStmt("break")), Case({"continue"}, ContinueStmt),
             Case(ItemStarts, <<Parse("Item"), OrNil, Node("item")>>)>>, ExprStmt)>>

IfExpr ==
  <<Advance, Parse("ExprNoStruct"), Parse("Block"),
    Eat("else", <<At("if", <<Parse("If")>>, <<Parse("Block")>>), Node("else")>>), Node("if")>>
MatchArm ==
  <<Parse("Pattern"), OrNil, Eat("if", <<Parse("ExprNoStruct"), Node("guard")>>),
    EatElse("=>", <<Node("{"), Parse("Expr"), Node("trailing"), Node("block")>>, <<Parse("Block")>>), Node("arm")>>
MatchExpr ==
  <<Advance, Parse("ExprNoStruct"), Expect("{"), Node("{"),
    Until("}", <<Parse("MatchArm"), Got({"nil"}, <<Sync>>, <<Eat(",", <<>>)>>)>>), Expect("}"), Node("match")>>
LoopExpr == <<Advance, Parse("Block"), Node("loop")>>
WhileExpr == <<Advance, Parse("ExprNoStruct"), Parse("Block"), Node("while")>>
ForExpr == <<Advance, Parse("Pattern"), Expect("in"), Parse("ExprNoStruct"), Parse("Block"), Node("for")>>
UnsafeExpr == <<Advance, Parse("Block"), Node("unsafe")>>

Params(variadic) ==
  <<Expect("("), Node("("), Until(")", variadic \o <<Parse("Param"), OrBreak, Comma>>), Expect(")")>>
Returns == Eat("->", <<Parse("Type"), Node("returns")>>)
\* The first token is taken for `fn', whatever it is.
Closure == <<Advance>> \o Params(<<>>) \o <<Returns, Parse("Block"), Node("closure")>>
MoveClosure == <<Advance, At("fn", <<Parse("Closure"), Node("move")>>, <<Fault, Nil>>)>>
SpawnExpr == <<Advance, Parse("Closure"), Node("spawn")>>

Primary ==
  <<Switch(<<Case(Literals \cup {"None"}, <<Advance, Node("lit")>>), Case({"("}, ParenOrTupleExpr),
             Case({"{"}, Block), Case({"if"}, IfExpr), Case({"match"}, MatchExpr),
             Case({"loop"}, LoopExpr), Case({"while"}, WhileExpr), Case({"for"}, ForExpr),
             Case({"fn"}, Closure), Case({"move"}, MoveClosure), Case({"spawn"}, SpawnExpr),
             Case({"unsafe"}, UnsafeExpr), Case(Names \cup {"self", "Self", "Some"}, PathOrStructLit)>>,
           <<Fault, Advance, Nil>>)>>

-----------------------------------------------------------------------------
(* items.go *)

GenericParams ==
  <<Expect("["), Node("["),
    Until("]", <<Demand("id", "break"), Eat(":", TypeList \o <<Node("bounds")>>), Node("generic"), Comma>>),
    Expect("]")>>
WhereClause ==
  <<Expect("where"),
    Repeat({}, <<Parse("Type"), OrBreak,
                 EatElse(":", TypeList, <<Eat("=", <<Parse("Type"), Node("equals")>>)>>), Node("where"), Comma>>)>>
Visibility ==
  <<At("pub",
      <<Advance,
        EatElse("(",
          <<Switch(<<Case({"mod"}, <<Advance, Expect(")"), Node("pub(mod)")>>),
                     Case({"pkg"}, <<Advance, Expect(")"), Node("pub(pkg)")>>)>>, <<Fault, Recover, Node("pub")>>)>>,
          <<Node("pub")>>)>>, <<>>)>>
Param ==
  <<If(<<{"ref", "mutref", "owned"}>>, <<Advance>>, <<>>),
    If(<<{"self"}>>, <<Advance, At(":", <<Advance, Parse("Type")>>, <<>>)>>,
      <<Demand("id", "nil"), Expect(":"), Parse("Type")>>), Node("param")>>

DecoratorArg == If(<<Names, {"="}>>, <<Advance, Advance, Parse("Expr"), Node("named")>>, <<Parse("Expr")>>)
Decorator ==
  <<Expect("@"), Demand("id", "nil"),
    Eat("(", <<Node("("), Until(")", <<DecoratorArg, Comma>>), Expect(")")>>), Node("decorator")>>
Decorators == <<While({"@"}, <<Parse("Decorator"), Got({"nil"}, <<Return>>, <<>>)>>)>>

FnHead(variadic) ==
  <<Expect("fn"), Expect("id"), At("[", GenericParams, <<>>)>> \o Params(variadic)
    \o <<Returns, At("where", WhereClause, <<>>)>>
FnDecl == FnHead(<<>>) \o <<Parse("Block"), Node("fn")>>
ConstFnDecl == <<Expect("const")>> \o FnDecl
ExternFn == FnHead(<<If(<<{".."}, {"."}>>, <<Advance, Advance, Node("variadic"), Break>>, <<>>)>>)
              \o <<Expect(";"), Node("fn")>>
TraitFn == FnHead(<<>>) \o <<At("{", <<Parse("Block")>>, <<Expect(";")>>), Node("fn")>>

ConstDecl ==
  <<Expect("const"), Expect("id"), Expect(":"), Parse("Type"), Expect("="), Parse("Expr"), Expect(";"), Node("const")>>
StaticDecl(init) == <<Expect("static"), Expect("id"), Expect(":"), Parse("Type")>> \o init \o <<Expect(";"), Node("static")>>
TypeDecl ==
  <<Expect("type"), Expect("id"), At("[", GenericParams, <<>>), Expect("="), Parse("Type"), Expect(";"), Node("type")>>

TypesInParens == <<Advance, Node("("), Until(")", <<Parse("Type"), OrBreak, Comma>>), Expect(")")>>
FieldList ==
  <<Node("{"), Until("}", <<Parse("Visibility"), Demand("id", "break"), Expect(":"), Parse("Type"), Node("field"), Comma>>),
    Expect("}")>>
StructDecl ==
  <<Expect("struct"), Expect("id"), At("[", GenericParams, <<>>),
    Switch(<<Case({"{"}, <<Advance>> \o FieldList), Case({"("}, TypesInParens \o <<Expect(";")>>),
             Case({";"}, <<Advance>>)>>, <<Fault>>), Node("structdecl")>>
UnionDecl == <<Advance, Expect("id"), At("[", GenericParams, <<>>), Expect("{")>> \o FieldList \o <<Node("union")>>
Variant ==
  <<Demand("id", "nil"),
    Switch(<<Case({"="}, <<Advance, Parse("Expr"), Node("explicit")>>), Case({"("}, TypesInParens),
             Case({"{"}, <<Advance>> \o FieldList)>>, <<>>), Node("variant")>>
EnumDecl ==
  <<Expect("enum"), Expect("id"), At("[", GenericParams, <<>>), Expect("{"), Node("{"),
    Until("}", <<Parse("Variant"), OrBreak, Comma>>), Expect("}"), Node("enum")>>

TraitItem ==
  <<Parse("Decorators"),
    Switch(<<Case({"fn"}, TraitFn),
             Case({"const"}, <<If(<<{"const"}, {"fn"}>>, ConstFnDecl,
                                  <<Forget({}), Expect("const"), Expect("id"), Expect(":"), Parse("Type"),
                                    Eat("=", <<Parse("Expr"), Node("init")>>), Expect(";"), Node("traitconst")>>)>>),
             Case({"type"}, <<Forget({}), Expect("type"), Expect("id"), Eat(":", TypeList \o <<Node("bounds")>>),
                              Expect(";"), Node("traittype")>>)>>,
           <<Fault, Nil>>)>>
TraitDecl ==
  <<Expect("trait"), Expect("id"), At("[", GenericParams, <<>>), Eat(":", TypeList \o <<Node("supers")>>),
    At("where", WhereClause, <<>>), Expect("{"), Node("{"),
    Until("}", <<Parse("TraitItem"), OrSync>>), Expect("}"), Node("trait")>>
ImplItem ==
  <<Parse("Decorators"), Parse("Visibility"),
    Switch(<<Case({"fn"}, FnDecl), Case({"const"}, <<If(<<{"const"}, {"fn"}>>, ConstFnDecl, ConstDecl)>>),
             Case({"type"}, <<Forget({}), Expect("type"), Expect("id"), Expect("="), Parse("Type"), Expect(";"), Node("impltypeitem")>>)>>,
           <<Fault, Nil>>)>>
ImplDecl ==
  <<Expect("impl"), At("[", GenericParams, <<>>), Parse("Type"), Eat(":", <<Parse("Type"), Node("trait:")>>),
    At("where", WhereClause, <<>>), Expect("{"), Node("{"),
    Until("}", <<Parse("ImplItem"), OrSync>>), Expect("}"), Node("impl")>>

\* On anything else parseExternDecl returns a nil *ast.ExternDecl, which its
\* caller takes for an item: an interface that holds a nil pointer is not nil.
ExternDecl ==
  <<Expect("extern"),
    Switch(<<Case({"fn"}, ExternFn \o <<Node("extern")>>), Case({"static"}, StaticDecl(<<>>) \o <<Node("extern")>>)>>,
           <<Fault, Node("typed nil")>>)>>

Visibilities == {"pub", "pub(mod)", "pub(pkg)"}

Item ==
  <<Parse("Decorators"), Parse("Visibility"),
    Switch(<<Case({"const"}, <<If(<<{"const"}, {"fn"}>>, ConstFnDecl, ConstDecl)>>),
             Case({"static"}, StaticDecl(<<Expect("="), Parse("Expr")>>)), 
             Case({"type"}, <<Forget(Visibilities)>> \o TypeDecl),
             Case({"fn"}, FnDecl), Case({"struct"}, StructDecl), Case({"enum"}, EnumDecl),
             Case({"trait"}, <<Forget(Visibilities)>> \o TraitDecl),
             Case({"impl"}, <<Forbid({"decorator"} \cup Visibilities), Forget({})>> \o ImplDecl),
             Case({"extern"}, <<Forbid({"decorator"}), Forget(Visibilities)>> \o ExternDecl),
             Case({"union"}, UnionDecl)>>,
           <<Fault, Nil>>)>>
Import ==
  <<Expect("import"), Demand("id", "nil"), While({"."}, <<Advance, Demand("id", "nil"), Node(".")>>),
    Eat("as", <<Demand("id", "nil"), Node("alias")>>), Expect(";"), Node("import")>>

\* Mutation of File: no progress is forced.
FileUnguarded == <<Until("EOF", <<At("import", <<Parse("Import")>>, <<Parse("Item")>>), OrSync>>)>>

File == <<Until("EOF", <<At("import", <<Parse("Import")>>, <<Parse("Item")>>), OrSync, Progress>>)>>

-----------------------------------------------------------------------------
(* The machine *)

Production(n) ==
  CASE n = "File" -> File [] n = "Import" -> Import [] n = "Item" -> Item
    [] n = "Decorators" -> Decorators [] n = "Decorator" -> Decorator
    [] n = "Visibility" -> Visibility [] n = "Param" -> Param [] n = "Variant" -> Variant
    [] n = "TraitItem" -> TraitItem [] n = "ImplItem" -> ImplItem
    [] n = "Type" -> Type [] n = "Pattern" -> Pattern [] n = "PatternAtom" -> PatternAtom
    [] n = "LiteralPatExpr" -> LiteralPatExpr
    [] n \in {"Expr", "ExprNoStruct"} -> Expr [] n = "Assignment" -> Assignment
    [] n = "Unary" -> Unary [] n = "Postfix" -> Postfix [] n = "Primary" -> Primary
    [] n = "StructLitTail" -> StructLitTail [] n = "Block" -> Block
    [] n = "StmtOrTrailing" -> StmtOrTrailing [] n = "If" -> IfExpr [] n = "MatchArm" -> MatchArm
    [] n = "Closure" -> Closure

\* The functions that call enter.
Guarded == {"Item", "Type", "Pattern", "Expr", "ExprNoStruct"}

Frame(code, ctx, deep) == [code |-> code, mark |-> Len(out), ctx |-> ctx, deep |-> deep, at |-> pos]
Top == Head(stack)
Rest == Tail(Top.code)
Cur == toks[pos]
Peek(k) == IF pos + k > Len(toks) THEN "EOF" ELSE toks[pos + k]
Advanced == IF Cur = "EOF" THEN pos ELSE pos + 1
Ahead(kinds) == \A i \in DOMAIN kinds : Peek(i - 1) \in kinds[i]

Running(op) == stack # <<>> /\ Top.code # <<>> /\ Head(Top.code).op = op
Ins == Head(Top.code)
Continue(code) == stack' = <<[Top EXCEPT !.code = code]>> \o Tail(stack)
Call(frames) == stack' = frames \o <<[Top EXCEPT !.code = Rest]>> \o Tail(stack)

\* The code after the loop that is running.
AfterLoop(code) ==
  LET i == CHOOSE n \in DOMAIN code : code[n].op = "repeat" /\ \A m \in 1 .. n - 1 : code[m].op # "repeat"
  IN  SubSeq(code, i + 1, Len(code))

Quiet == UNCHANGED <<toks, depth, out, faulty>>

DoAdvance ==
  /\ Running("advance") /\ pos' = Advanced /\ Continue(Rest) /\ Quiet /\ UNCHANGED val

DoName ==
  /\ Running("name") /\ pos' = Advanced /\ val' = "name" /\ Continue(Rest) /\ Quiet

DoDots ==
  /\ Running("dots")
  /\ IF Ahead(<<{"."}, Names>>)
       THEN pos' = pos + 2 /\ val' = "dots" /\ out' = Append(out, ".") /\ UNCHANGED stack
       ELSE Continue(Rest) /\ UNCHANGED <<pos, val, out>>
  /\ UNCHANGED <<toks, depth, faulty>>

DoExpect ==
  /\ Running("expect")
  /\ LET found == Cur \in Kind(Ins.t)
     IN  pos' = (IF found THEN pos + 1 ELSE pos) /\ faulty' = (faulty \/ ~found)
  /\ Continue(Rest) /\ UNCHANGED <<toks, depth, out, val>>

\* A frame is left: what it built stays, or goes with a nil.
Leave(v) ==
  /\ stack' = Tail(stack) /\ val' = v
  /\ depth' = IF Top.deep THEN depth - 1 ELSE depth
  /\ out' = IF v = "nil" THEN SubSeq(out, 1, Top.mark) ELSE out
  /\ UNCHANGED <<toks, pos>>

DoDemand ==
  /\ Running("demand")
  /\ IF Cur \in Kind(Ins.t)
       THEN pos' = pos + 1 /\ Continue(Rest) /\ UNCHANGED <<toks, depth, val, out, faulty>>
     ELSE /\ faulty' = TRUE
          /\ CASE Ins.how = "nil" -> Leave("nil")
               [] Ins.how = "return" -> Leave(val)
               [] Ins.how = "break" -> Continue(AfterLoop(Rest)) /\ UNCHANGED <<toks, pos, depth, val, out>>

DoFault ==
  /\ Running("fault") /\ faulty' = TRUE /\ Continue(Rest) /\ UNCHANGED <<toks, pos, depth, val, out>>

DoForbid ==
  /\ Running("forbid")
  /\ faulty' = (faulty \/ \E i \in Top.mark + 1 .. Len(out) : out[i] \in Ins.labels)
  /\ Continue(Rest) /\ UNCHANGED <<toks, pos, depth, val, out>>

\* Decorators, and a visibility that is not kept, leave nothing in the tree.
DoForget ==
  /\ Running("forget")
  /\ out' = SubSeq(out, 1, Top.mark)
             \o SelectSeq(SubSeq(out, Top.mark + 1, Len(out)), LAMBDA l : l \in Ins.kept)
  /\ Continue(Rest) /\ UNCHANGED <<toks, pos, depth, val, faulty>>

\* A call, with the enter of the functions that have one.
DoParse ==
  /\ Running("parse")
  /\ LET deep == Ins.n \in Guarded
         ctx == CASE Ins.n = "Expr" -> "normal" [] Ins.n = "ExprNoStruct" -> "nostruct" [] OTHER -> Top.ctx
     IN  IF deep /\ depth + 1 > MaxRecursionDepth
           THEN val' = "nil" /\ faulty' = TRUE /\ Continue(Rest) /\ UNCHANGED depth
           ELSE /\ Call(<<Frame(Production(Ins.n), ctx, deep)>>)
                /\ depth' = IF deep THEN depth + 1 ELSE depth
                /\ UNCHANGED <<val, faulty>>
  /\ UNCHANGED <<toks, pos, out>>

\* parseLogicOr down to parseUnary, from level k: each first calls the next.
DoClimb ==
  /\ Running("climb")
  /\ Call(<<Frame(Unary, Top.ctx, FALSE)>>
          \o [i \in 1 .. Len(Levels) + 1 - Ins.k |-> Frame(<<Operators(Len(Levels) + 1 - i)>>, Top.ctx, FALSE)])
  /\ Quiet /\ UNCHANGED <<pos, val>>

DoOperators ==
  /\ Running("operators")
  /\ Continue(IF val # "nil" /\ Cur \in Levels[Ins.k]
                THEN <<Advance, IF Cur = "as" THEN Parse("Type") ELSE Climb(Ins.k + 1), Node(Cur)>> \o Top.code
                ELSE Rest)
  /\ Quiet /\ UNCHANGED <<pos, val>>

\* An assignment groups to the right.
DoAssign ==
  /\ Running("assign")
  /\ Continue(IF Cur \in AssignOps THEN <<Advance, Parse("Assignment"), Node(Cur)>> \o Rest ELSE Rest)
  /\ Quiet /\ UNCHANGED <<pos, val>>

DoPrefix ==
  /\ Running("prefix")
  /\ Continue((IF Cur \in DOMAIN PrefixNode THEN <<Advance, Parse("Unary"), Node(PrefixNode[Cur])>>
               ELSE <<Parse("Postfix")>>) \o Rest)
  /\ Quiet /\ UNCHANGED <<pos, val>>

\* looksLikeStructLitBody, asked only where a struct literal may stand.
DoStructLit ==
  /\ Running("structlit")
  /\ LET looks == \E rest \in {<<{"}"}>>, <<{".."}>>, <<Names, {":", ",", "}"}>>} : Ahead(<<{"{"}>> \o rest)
     IN  Continue(IF Top.ctx = "normal" /\ looks THEN <<Parse("StructLitTail")>> \o Rest ELSE Rest)
  /\ Quiet /\ UNCHANGED <<pos, val>>

DoBranch ==
  /\ \/ Running("if") /\ Continue((IF Ahead(Ins.ahead) THEN Ins.then ELSE Ins.else) \o Rest)
     \/ Running("got") /\ Continue((IF val \in Ins.vals THEN Ins.then ELSE Ins.else) \o Rest)
     \/ /\ Running("switch")
        /\ LET hits == {i \in DOMAIN Ins.cases : Cur \in Ins.cases[i].on}
           IN  Continue((IF hits = {} THEN Ins.default
                         ELSE Ins.cases[CHOOSE i \in hits : \A j \in hits : i <= j].then) \o Rest)
  /\ Quiet /\ UNCHANGED <<pos, val>>

\* A turn of a loop notes where it begins.
DoLoop ==
  /\ \/ /\ Running("repeat")
        /\ IF Cur \in Ins.stop THEN Continue(Rest)
           ELSE stack' = <<[Top EXCEPT !.code = Ins.body \o @, !.at = pos]>> \o Tail(stack)
     \/ Running("while") /\ Continue(IF Cur \in Ins.on THEN Ins.body \o Top.code ELSE Rest)
     \/ Running("break") /\ Continue(AfterLoop(Rest))
  /\ Quiet /\ UNCHANGED <<pos, val>>

DoReturn ==
  /\ stack # <<>>
  /\ \/ Top.code = <<>> /\ Leave(val)
     \/ Running("return") /\ Leave(val)
     \/ Running("nil") /\ Leave("nil")
  /\ UNCHANGED faulty

DoNode ==
  /\ Running("node") /\ out' = Append(out, Ins.l) /\ val' = Ins.l /\ Continue(Rest)
  /\ UNCHANGED <<toks, pos, depth, faulty>>

First(S) == CHOOSE i \in pos .. Len(toks) : toks[i] \in S /\ \A j \in pos .. i - 1 : toks[j] \notin S

DoRecover ==
  /\ Running("recover")
  /\ LET i == First({")", "EOF"}) IN pos' = IF toks[i] = ")" THEN i + 1 ELSE i
  /\ Continue(Rest) /\ Quiet /\ UNCHANGED val

SyncTokens == ItemStarts \cup {";", "}", "import", "use", "mod", "EOF"}
DoSync ==
  /\ Running("sync")
  /\ LET i == First(SyncTokens) IN pos' = IF toks[i] = ";" THEN i + 1 ELSE i
  /\ Continue(Rest) /\ Quiet /\ UNCHANGED val

DoProgress ==
  /\ Running("progress") /\ pos' = (IF pos = Top.at THEN Advanced ELSE pos)
  /\ Continue(Rest) /\ Quiet /\ UNCHANGED val

ParseInit ==
  /\ toks \in {Append(s, "EOF") : s \in Inputs}
  /\ pos = 1 /\ depth = 0 /\ val = "nil" /\ out = <<>> /\ faulty = FALSE
  /\ stack = <<[code |-> File, mark |-> 0, ctx |-> "normal", deep |-> FALSE, at |-> 1]>>

ParseStep ==
  \/ DoAdvance \/ DoName \/ DoDots \/ DoExpect \/ DoDemand \/ DoFault \/ DoForbid \/ DoForget
  \/ DoParse \/ DoClimb \/ DoOperators \/ DoAssign \/ DoPrefix \/ DoStructLit
  \/ DoBranch \/ DoLoop \/ DoReturn \/ DoNode \/ DoRecover \/ DoSync \/ DoProgress

ParseSpec == ParseInit /\ [][ParseStep]_parseVars /\ WF_parseVars(ParseStep)

-----------------------------------------------------------------------------

\* parse.go and parseFile: "malformed input still terminates".  Parsing ends,
\* whatever the tokens are.
ParserTerminates == <>(stack = <<>>)
=============================================================================
