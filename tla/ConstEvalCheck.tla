---------------------------- MODULE ConstEvalCheck ----------------------------
(***************************************************************************)
(* The programs constant evaluation is checked on.                         *)
(***************************************************************************)
EXTENDS ConstEval

\* Three widths of integers in words of five bits.
SmallBits == [I3 |-> 3, U3 |-> 3, I5 |-> 5]

Lit(t, n) == [e |-> "int", t |-> t, n |-> n]
BoolLit(b) == [e |-> "bool", b |-> b]
Ref(name) == [e |-> "path", name |-> name]
Apply(op, l, r) == [e |-> "binary", op |-> op, l |-> l, r |-> r]
Logic(op, l, r) == [e |-> "logical", op |-> op, l |-> l, r |-> r]
Trailing(x) == [stmts |-> <<>>, last |-> <<x>>]
IfElse(c, t, f) == [e |-> "if", cond |-> c, then |-> Trailing(t), else |-> Trailing(f)]
Invoke(fn, args) == [e |-> "call", fn |-> fn, args |-> args]
Do(s, n, x) == [s |-> s, name |-> n, val |-> x]
BlockOf(ss, last) == [e |-> "block", body |-> [stmts |-> ss, last |-> last]]

\* { let x = 3; let y = { let x = 4; x }; let x = x + y; x }
Shadowing ==
  BlockOf(<<Do("let", "x", Lit("I5", 3)),
            Do("let", "y", BlockOf(<<Do("let", "x", Lit("I5", 4))>>, <<Ref("x")>>)),
            Do("let", "x", Apply("+", Ref("x"), Ref("y")))>>, <<Ref("x")>>)

Operands == {<<"I3", n, m>> : n, m \in 0 .. 7} \cup {<<"U3", n, m>> : n, m \in 0 .. 7}
  \cup {<<"I5", n, m>> : n, m \in {0, 1, 15, 16, 31}}
Ops == {"+", "-", "*", "/", "%", "&", "|", "^", "<<", ">>", "==", "<"}

ConstFns ==
  [fact |-> [const |-> TRUE, params |-> <<"n">>,
             body |-> Trailing(IfElse(Apply("==", Ref("n"), Lit("I5", 0)), Lit("I5", 1),
                                   Apply("*", Ref("n"), Invoke("fact", <<Apply("-", Ref("n"), Lit("I5", 1))>>))))],
   read |-> [const |-> FALSE, params |-> <<>>, body |-> Trailing(Lit("I5", 1))],
   early |-> [const |-> TRUE, params |-> <<"n">>,
              body |-> [stmts |-> <<Do("let", "b", Ref("n")),
                                    Do("expr", "", [e |-> "loop", body |-> [stmts |-> <<Do("return", "", Ref("b"))>>, last |-> <<>>]])>>,
                        last |-> <<>>]]]

\* One constant of its own.
Alone(x) == [order |-> <<"a">>, decls |-> [a |-> [item |-> "const", init |-> x]], fns |-> ConstFns]

Turn(s) == [stmts |-> <<Do(s, "", Lit("I5", 3))>>, last |-> <<>>]

FirstArms ==
  {[t |-> t, pat |-> [p |-> "int", n |-> 7], guard |-> <<>>] : t \in {"I3", "U3"}}
  \cup {[t |-> t, pat |-> [p |-> "or", alts |-> <<[p |-> "int", n |-> 1], [p |-> "int", n |-> 6]>>], guard |-> <<>>] :
          t \in {"I3", "U3"}}
  \cup {[t |-> "U3", pat |-> [p |-> "range", lo |-> 3, hi |-> 6], guard |-> <<>>]}
  \cup {[t |-> t, pat |-> [p |-> "bind", name |-> "x"], guard |-> <<Apply("<", Ref("x"), Lit(t, 1))>>] :
          t \in {"I3", "U3"}}

SinglePrograms ==
  {Alone(Apply(op, Lit(o[1], o[2]), Lit(o[1], o[3]))) : op \in Ops, o \in Operands}
  \cup {Alone([e |-> "unary", op |-> op, arg |-> Lit(o[1], o[2])]) : op \in {"-", "!"}, o \in Operands}
  \cup {Alone([e |-> "cast", t |-> t, arg |-> Lit(o[1], o[2])]) : t \in DOMAIN SmallBits, o \in Operands}
  \cup {Alone([e |-> "match", arg |-> Lit(p.t, n),
               arms |-> <<[pat |-> p.pat, guard |-> p.guard, body |-> Trailing(Lit("I5", 1))],
                          [pat |-> q, guard |-> <<>>, body |-> Trailing(Lit("I5", 2))]>>]) :
          n \in 0 .. 7, p \in FirstArms,
          q \in {[p |-> "wildcard"], [p |-> "int", n |-> 0]}}
  \cup {Alone([e |-> "while", cond |-> c, body |-> Turn(s)]) :
          c \in {BoolLit(TRUE), BoolLit(FALSE)}, s \in {"expr", "break", "continue", "return"}}
  \cup {Alone(x) : x \in {BoolLit(TRUE), [e |-> "cast", t |-> "I3", arg |-> BoolLit(TRUE)], [e |-> "for"], Shadowing}}

\* Three declarations that refer to each other, in both orders.
ConstNames == {"a", "b", "c"}
Initialisers ==
  {Lit("I5", 2), Apply("/", Lit("I5", 1), Lit("I5", 0)), Invoke("read", <<>>)}
  \cup {Ref(n) : n \in ConstNames}
  \cup {Apply("+", Ref(n), Ref("b")) : n \in {"a", "c"}}
  \cup {IfElse(Logic("||", Apply("==", Ref("b"), Lit("I5", 2)), Apply("==", Ref("a"), Lit("I5", 2))), Ref("c"), Ref("a")),
        Invoke("fact", <<Ref("b")>>), Invoke("early", <<Ref("c")>>)}
DeclOrders == {<<"a", "b", "c">>, <<"c", "b", "a">>}
GraphPrograms ==
  {[order |-> o, decls |-> [n \in ConstNames |-> [item |-> IF n = "c" THEN k ELSE "const", init |-> f[n]]], fns |-> ConstFns] :
     o \in DeclOrders, k \in {"const", "static"}, f \in [ConstNames -> Initialisers]}
SmallPrograms == SinglePrograms \cup GraphPrograms
=============================================================================
