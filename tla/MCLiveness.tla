------------------------------ MODULE MCLiveness ------------------------------
(***************************************************************************)
(* Functions for the use-after-move check: three statements in a row, or   *)
(* one nested in a block or an if and one before and after it.  c is of a  *)
(* type that is Copy.                                                      *)
(***************************************************************************)
EXTENDS Liveness

Value(e, n) == [e |-> e, name |-> n, copy |-> n = "c"]
Stmt(s, n, v) == [s |-> s, name |-> n, val |-> v]
Bracket(s) == Stmt(s, "", Value("other", ""))
PathTo(n) == Value("path", n)
Use(n) == Stmt("expr", "", PathTo(n))
Give(n) == Stmt("owned", "", PathTo(n))
Hidden(n) == Stmt("expr", "", Value("unwalked", n))
OwnedNames == {"x", "y"}

SimpleStmts ==
  {Stmt("let", n, Value("other", "")) : n \in OwnedNames}
  \cup {Stmt("let", n, PathTo(m)) : n, m \in OwnedNames}
  \cup {Use(n) : n \in OwnedNames} \cup {Give("x"), Give("c"), Hidden("x")}
  \cup {Stmt("var", "d", PathTo("c")), Stmt("return", "", PathTo("c")), Stmt("destructure", "y", PathTo("x")),
        Stmt("let", "y", Value("none", ""))}

AtMostOne == {<<>>} \cup {<<s>> : s \in SimpleStmts}
Block(b) == <<Bracket("open")>> \o b \o <<Bracket("close")>>
EarlierStmts == {<<>>, <<Stmt("let", "y", PathTo("x"))>>}
LaterUses == {Use(n) : n \in OwnedNames}

NestedStmts ==
  {Block(b) : b \in AtMostOne}
  \cup {<<Bracket("if")>> \o Block(b) \o <<Bracket("else")>> \o Block(d) \o <<Bracket("fi")>> : b, d \in AtMostOne}

SmallBodies ==
  {<<>>} \cup {b \o n \o <<u>> : b \in EarlierStmts, n \in NestedStmts, u \in LaterUses}
  \cup {<<s, t, u>> : s, t, u \in SimpleStmts}

SmallParams == <<"x", "c">>
=============================================================================
