------------------------------- MODULE MCParser -------------------------------
(***************************************************************************)
(* The parser on every short stream over a few tokens, and on the printed  *)
(* forms of small programs.  A program is printed by the grammar and the   *)
(* precedences of the language reference (appendices B and C), with        *)
(* parentheses only where they are needed.                                 *)
(***************************************************************************)
EXTENDS Parser
LOCAL INSTANCE SequencesExt

\* A form is the tokens of a construct and the nodes it should give.
W(tokens) == [tokens |-> tokens, nodes |-> <<>>]
N(label) == [tokens |-> <<>>, nodes |-> <<label>>]
F(tokens, label) == [tokens |-> tokens, nodes |-> <<label>>]
Form(parts) ==
  [tokens |-> FlattenSeq([i \in DOMAIN parts |-> parts[i].tokens]),
   nodes |-> FlattenSeq([i \in DOMAIN parts |-> parts[i].nodes])]

-----------------------------------------------------------------------------
(* Expressions, as trees *)

T(k, kids) == [k |-> k, kids |-> kids]
Leaf == T("path", <<>>)

\* Appendix B, from the loosest to the tightest, with one operator of a level;
\* `as' is where appendix C has it.
Binding == <<"=", "||", "&&", "==", "^", "&", "+", "*", "as">>
Binary == ToSet(Binding)
PrefixOps == {"neg", "addr"}
PostfixOps == {"try", "field", "call", "index"}

Tightness(t) ==
  CASE t.k \in Binary -> CHOOSE i \in DOMAIN Binding : Binding[i] = t.k
    [] t.k \in PrefixOps -> Len(Binding) + 1
    [] t.k \in PostfixOps -> Len(Binding) + 2
    [] OTHER -> Len(Binding) + 3

\* The form of a tree where something at least as tight as `min' is wanted.  In
\* the head of an `if' no struct literal may stand.
RECURSIVE Show(_, _, _)
Show(t, min, ctx) ==
  LET kid(i, m) == Show(t.kids[i], m, ctx)
      inner(i) == Show(t.kids[i], 1, "normal")
      here == Tightness(t)
  IN  IF here < min \/ (t.k = "struct" /\ ctx = "nostruct")
        THEN Form(<<W(<<"(">>), Show(t, 1, "normal"), F(<<")">>, "paren")>>)
      ELSE CASE t.k = "path" -> F(<<"id">>, "path")
             [] t.k = "as" -> Form(<<kid(1, here), W(<<"as">>), F(<<"id">>, "pathtype"), N("as")>>)
             [] t.k = "=" -> Form(<<kid(1, here + 1), W(<<"=">>), kid(2, here), N("=")>>)
             [] t.k \in Binary \ {"as", "="} -> Form(<<kid(1, here), W(<<t.k>>), kid(2, here + 1), N(t.k)>>)
             [] t.k = "neg" -> Form(<<W(<<"-">>), kid(1, here), N("neg")>>)
             [] t.k = "addr" -> Form(<<W(<<"&">>), kid(1, here), N("addr")>>)
             [] t.k = "try" -> Form(<<kid(1, here), F(<<"?">>, "try")>>)
             [] t.k = "field" -> Form(<<kid(1, here), F(<<".", "id">>, "field")>>)
             [] t.k = "call" -> Form(<<kid(1, here), F(<<"(">>, "("), inner(2), F(<<")">>, "call")>>)
             [] t.k = "index" -> Form(<<kid(1, here), W(<<"[">>), inner(2), F(<<"]">>, "index")>>)
             [] t.k = "struct" ->
                  Form(<<F(<<"id">>, "path"), F(<<"{">>, "{"), W(<<"id", ":">>), inner(1), N("value"),
                         F(<<",", "id">>, "shorthand"), F(<<"}">>, "struct")>>)
             [] t.k = "if" ->
                  Form(<<W(<<"if">>), Show(t.kids[1], 1, "nostruct"), F(<<"{">>, "{"), inner(2),
                         N("trailing"), F(<<"}">>, "block"), N("if")>>)

\* One operator over given operands.
Over(ls, rs) ==
  {T(k, <<l>>) : k \in PrefixOps \cup {"as", "try", "field", "struct"}, l \in ls}
    \cup {T(k, <<l, r>>) : k \in (Binary \ {"as"}) \cup {"call", "index", "if"}, l \in ls, r \in rs}
Small == Over({Leaf}, {Leaf})
Trees == Small \cup Over(Small, {Leaf}) \cup Over({Leaf}, Small)
Exprs == {Show(t, 1, "normal") : t \in Trees}

-----------------------------------------------------------------------------
(* Types, patterns, statements and items, one construct over another *)

Id == F(<<"id">>, "path")
IdType == F(<<"id">>, "pathtype")
One == F(<<"int">>, "lit")

TypesOver(S) ==
  UNION {{Form(<<W(<<"id">>), F(<<"[">>, "["), t, W(<<",">>), IdType, F(<<"]">>, "pathtype")>>),
          Form(<<W(<<"[">>), t, W(<<"]">>), N("slice")>>),
          Form(<<W(<<"[">>), t, W(<<";">>), One, W(<<"]">>), N("array")>>),
          Form(<<W(<<"(">>), t, F(<<",">>, "tuple"), IdType, N("elem"), W(<<")">>)>>),
          Form(<<W(<<"(">>), t, W(<<")">>)>>),
          Form(<<W(<<"Ptr", "[">>), t, W(<<"]">>), N("ptr")>>),
          Form(<<W(<<"fn">>), F(<<"(">>, "("), t, W(<<")", "->">>), t, N("returns"), N("fntype")>>),
          Form(<<W(<<"dyn">>), IdType, W(<<"+">>), t, N("+"), N("dyn")>>),
          Form(<<W(<<"impl">>), t, N("impltype")>>)} : t \in S}
BaseTypes == {IdType, F(<<"Self">>, "pathtype"), F(<<"(", ")">>, "unit"), Form(<<W(<<"id">>), F(<<".", "id">>, "."), N("pathtype")>>)}
TypeForms == TypesOver(BaseTypes) \cup TypesOver(TypesOver({IdType}))

Bind == F(<<"id">>, "bind")
PatternsOver(S) ==
  UNION {{Form(<<W(<<"id", "@">>), p, N("at")>>),
          Form(<<W(<<"Some">>), F(<<"(">>, "("), p, W(<<",">>), Bind, F(<<")">>, "ctor()")>>),
          Form(<<W(<<"id">>), F(<<".", "id">>, "."), F(<<"{">>, "{"), F(<<"id">>, "field"), W(<<",", "id", ":">>), p,
                 N("field:"), F(<<",", "..">>, ".."), F(<<"}">>, "ctor{}")>>),
          Form(<<F(<<"(">>, "("), Bind, W(<<",">>), p, F(<<")">>, "tuplepat")>>),
          Form(<<Bind, W(<<"|">>), p, N("or")>>)} : p \in S}
BasePatterns ==
  {Bind, F(<<"_">>, "wildcard"), F(<<"None">>, "ctor"), Form(<<W(<<"id">>), F(<<".", "id">>, "."), N("ctor")>>),
   Form(<<F(<<"-">>, "-"), One, W(<<"..">>), One, N("range")>>), Form(<<One, W(<<"..=">>), One, N("range=")>>), Form(<<One, N("litpat")>>)}
\* An or-pattern stands only where a whole pattern does, and takes no or-pattern.
PatternForms == PatternsOver(BasePatterns)

Empty == Form(<<F(<<"{">>, "{"), F(<<"}">>, "block")>>)
Block1(s) == Form(<<F(<<"{">>, "{"), s, F(<<"}">>, "block")>>)
StmtForms ==
  {Form(<<W(<<"let">>), p, W(<<":">>), IdType, N("typed"), W(<<"=">>), Id, N("init"), F(<<";">>, "let")>>) : p \in PatternForms}
    \cup {Form(<<W(<<"var", "id", "=">>), Id, F(<<";">>, "var")>>), F(<<"return", ";">>, "return"),
          Form(<<W(<<"break">>), Id, N("value"), F(<<";">>, "break")>>), F(<<"continue", ";">>, "continue"),
          Form(<<Id, F(<<";">>, "expr;")>>), Form(<<Id, N("trailing")>>),
          Form(<<W(<<"if">>), Id, Empty, N("if"), N("expr;"), Id, N("trailing")>>),
          Form(<<W(<<"if">>), Id, Empty, W(<<"else", "if">>), Id, Empty, W(<<"else">>), Empty, N("else"), N("if"), N("else"), N("if"), N("trailing")>>),
          Form(<<W(<<"match">>), Id, F(<<"{">>, "{"), Bind, W(<<"if">>), Id, N("guard"), W(<<"=>">>), N("{"), Id, N("trailing"), N("block"),
                 F(<<",">>, "arm"), Form(<<One, N("litpat")>>), Empty, N("arm"), F(<<"}">>, "match"), N("trailing")>>),
          Form(<<W(<<"loop">>), Empty, N("loop"), N("expr;"), W(<<"while">>), Id, Empty, N("while"), N("trailing")>>),
          Form(<<W(<<"for">>), Bind, W(<<"in">>), Id, Empty, N("for"), N("trailing")>>),
          Form(<<W(<<"unsafe">>), Empty, N("unsafe"), N("trailing")>>),
          Form(<<W(<<"move", "fn">>), F(<<"(">>, "("), W(<<"owned", "id", ":">>), IdType, F(<<")">>, "param"), Empty, N("closure"), N("move"), N("trailing")>>),
          Form(<<W(<<"spawn", "fn">>), F(<<"(">>, "("), W(<<")", "->">>), IdType, N("returns"), Empty, N("closure"), N("spawn"), F(<<";">>, "expr;")>>),
          Form(<<Id, W(<<"[">>), Id, W(<<"..">>), Id, N("high"), F(<<"]">>, "low.."), N("trailing")>>),
          Form(<<Id, W(<<"[", "..=">>), Id, N("high"), F(<<"]">>, "..=high"), N("trailing")>>),
          Form(<<W(<<"(">>), Id, F(<<",">>, "tuple"), Id, N("elem"), W(<<")">>), N("trailing")>>),
          Form(<<Id, F(<<"{">>, "{"), W(<<"..">>), Id, N("base"), F(<<"}">>, "struct"), N("trailing")>>)}

Generic == Form(<<F(<<"[">>, "["), W(<<"id", ":">>), IdType, W(<<"+">>), IdType, N("+"), N("bounds"), F(<<"]">>, "generic")>>)
Where == Form(<<W(<<"where">>), IdType, W(<<":">>), IdType, N("where"), W(<<",">>), IdType, W(<<"=">>), IdType, N("equals"), N("where")>>)
Fn(block) ==
  Form(<<W(<<"fn", "id">>), Generic, F(<<"(">>, "("), F(<<"mutref", "self">>, "param"), W(<<",", "id", ":">>), IdType,
         F(<<")">>, "param"), W(<<"->">>), IdType, N("returns"), Where, block, N("fn")>>)
Const == Form(<<W(<<"const", "id", ":">>), IdType, W(<<"=">>), Id, F(<<";">>, "const")>>)
Fields == Form(<<F(<<"{">>, "{"), W(<<"pub">>), N("pub"), W(<<"id", ":">>), IdType, N("field"), W(<<",", "}">>)>>)
Bodied(words, items, label) == Form(<<W(words), F(<<"{">>, "{"), items, F(<<"}">>, label)>>)

ItemForms ==
  {Form(<<W(<<"const", "id", ":">>), IdType, W(<<"=">>), e, F(<<";">>, "const")>>) : e \in Exprs}
    \cup {Form(<<W(<<"static", "id", ":">>), t, W(<<"=">>), Id, F(<<";">>, "static")>>) : t \in TypeForms}
    \cup {Form(<<W(<<"fn", "id">>), F(<<"(">>, "("), W(<<")">>), Block1(s), N("fn")>>) : s \in StmtForms}
    \cup {Fn(Empty), Form(<<W(<<"import", "id">>), F(<<".", "id">>, "."), F(<<"as", "id">>, "alias"), F(<<";">>, "import"), Const>>),
          Form(<<W(<<"@", "id">>), F(<<"(">>, "("), W(<<"id", "=">>), Id, N("named"), W(<<",">>), Id, F(<<")">>, "decorator"),
                 F(<<"pub", "(", "mod", ")">>, "pub(mod)"), W(<<"struct", "id">>), Fields, N("structdecl")>>),
          Form(<<W(<<"struct", "id">>), F(<<"(">>, "("), IdType, F(<<")", ";">>, "structdecl"), F(<<"struct", "id", ";">>, "structdecl")>>),
          Form(<<W(<<"enum", "id">>), F(<<"{">>, "{"), W(<<"id", "=">>), Id, N("explicit"), F(<<",">>, "variant"),
                 W(<<"id">>), F(<<"(">>, "("), IdType, F(<<")">>, "variant"), W(<<",", "id">>), Fields, F(<<"}">>, "variant"), N("enum")>>),
          Bodied(<<"trait", "id">>, Form(<<Form(<<W(<<"fn", "id">>), F(<<"(">>, "("), F(<<")", ";">>, "fn")>>),
            Form(<<W(<<"type", "id", ":">>), IdType, N("bounds"), F(<<";">>, "traittype")>>),
            Form(<<W(<<"const", "id", ":">>), IdType, W(<<"=">>), Id, N("init"), F(<<";">>, "traitconst")>>)>>), "trait"),
          Form(<<W(<<"impl">>), Generic, IdType, W(<<":">>), IdType, N("trait:"),
                 Bodied(<<>>, Form(<<F(<<"pub">>, "pub"), Fn(Empty), W(<<"const">>), Fn(Empty),
                   Form(<<W(<<"type", "id", "=">>), IdType, F(<<";">>, "impltypeitem")>>), Const>>), "impl")>>),
          Form(<<W(<<"extern", "fn", "id">>), F(<<"(">>, "("), W(<<"id", ":">>), IdType, N("param"), F(<<",", "..", ".">>, "variadic"),
                 F(<<")", ";">>, "fn"), N("extern"), W(<<"extern", "static", "id", ":">>), IdType, F(<<";">>, "static"), N("extern")>>),
          Form(<<W(<<"union", "id">>), Fields, N("union"), F(<<"pub">>, "pub"), W(<<"type", "id">>), Generic, W(<<"=">>), IdType, F(<<";">>, "type")>>)}

-----------------------------------------------------------------------------
(* Streams *)

\* A prefix and then anything, to a given length.
Then(prefix, tokens, n) == {prefix \o s : s \in SeqOf(tokens, n)}
Streams ==
  Then(<<>>, {"fn", "id", "(", "{", "}", ";"}, 4)
    \cup Then(<<"fn", "id", "(", ")", "{">>, {"let", "id", "=", ";", "}", "match", "use", "{"}, 3)
    \cup Then(<<"@", "id", "pub">>, {"(", "id", "impl", "{"}, 2)
    \cup Then(<<"@", "id", "extern">>, {"fn", "id"}, 1)
    \cup Then(<<"const", "id", ":", "id", "=", "(", "(", "(", "(", "(", "(", "(", "(">>, {"(", ")", "id", ";"}, 2)
SmallInputs == {f.tokens : f \in ItemForms} \cup Streams

\* A `pub' method in a trait, as appendix C allows: trait_item = fn_decl.
PublicTraitMethod == {<<"trait", "id", "{", "pub", "fn", "id", "(", ")", ";", "}">>}

\* A printed program is parsed without a diagnostic, and into what was printed.
ParseInvertsPrint ==
  stack = <<>> /\ Len(toks) > 1 =>
    \A f \in ItemForms : toks = Append(f.tokens, "EOF") => ~faulty /\ out = f.nodes
=============================================================================
