------------------------------- MODULE Liveness -------------------------------
(***************************************************************************)
(* compiler/liveness: the use-after-move check, which runs on every        *)
(* function of the monomorphised program, beside a run of the function.    *)
(*                                                                         *)
(* A body is listed in the order walkMove meets it.  A statement [s, name, *)
(* val] is a `let', `var' or `destructure' (a let whose pattern is not a   *)
(* single name), an `expr' or `return', or `owned', an argument of a call  *)
(* in the slot of an `owned' parameter; its value is a bare `path',        *)
(* `other', which reads no name, `unwalked', which reads one inside an     *)
(* expression of a kind walkMoveExpr does not enter (loop, match, closure, *)
(* assignment, field), or `none'.  Expressions inside a value, arguments   *)
(* included, are statements before it.  Blocks lie between `open' and      *)
(* `close', the branches of an if between `if', `else' and `fi'.           *)
(***************************************************************************)
EXTENDS Naturals, Sequences

CONSTANTS Params,      \* the names the function starts with
          Bodies       \* function bodies

VARIABLES body,        \* the function's statements
          nextStmt,          \* the one walked next, 0 before one is chosen
          env,         \* moveEnv, and the names a diagnostic was given for
          run          \* the function, run as far as it is walked

liveVars == <<body, nextStmt, env, run>>

Binders == {"let", "var", "destructure"}
Brackets == {"open", "close", "if", "else", "fi"}
BlockMark == "{"

Stmts == [s : Binders \cup {"expr", "return", "owned"} \cup Brackets, name : STRING \ {BlockMark},
          val : [e : {"path", "other", "unwalked", "none"}, name : STRING \ {BlockMark}, copy : BOOLEAN]]

ASSUME BodiesAssumption == Params \in Seq(STRING \ {BlockMark}) /\ \A b \in Bodies : b \in Seq(Stmts)

-----------------------------------------------------------------------------
(* checkUseAfterMove *)

\* Mutation of Bind: a fresh binding forgets that the name was moved.
BindAfresh(v, name) == [v EXCEPT !.live = @ \cup {name}, !.moved = @ \ {name}]

\* Only `live' is updated: a moved name stays moved, whatever is bound to it.
Bind(v, name) == [v EXCEPT !.live = @ \cup {name}]

\* isCopy is asked of the occurrence, not of the name.
Move(v, val) ==
  IF val.name \in v.live /\ ~val.copy
    THEN [v EXCEPT !.live = @ \ {val.name}, !.moved = @ \cup {val.name}] ELSE v

\* walkMoveExpr: a diagnostic for a name that was moved.
Read(v, val) == IF val.name \in v.moved THEN [v EXCEPT !.used = @ \cup {val.name}] ELSE v

\* walkMoveStmt: a binding whose value is a bare path moves the path.  One
\* environment serves the branches of an if, one after the other, and every
\* block; without a value nothing is bound.
WalkMoveStmt(v, s) ==
  LET walked == IF s.val.e = "path" THEN Read(v, s.val) ELSE v
      after  == IF s.s \in Binders /\ s.val.e = "path" THEN Move(walked, s.val) ELSE walked
  IN  IF s.s \in {"let", "var"} /\ s.val.e # "none" THEN Bind(after, s.name) ELSE after

-----------------------------------------------------------------------------
(* What the function does, with lexical scopes.  scope lists the bindings,
   inner ones last, BlockMark where a block began; skip counts the ifs that are
   being passed over; left: it has returned; bad: the moved values read. *)

Binding(n) == [name |-> n, gone |-> FALSE]
RunStart == [scope |-> [i \in DOMAIN Params |-> Binding(Params[i])], skip |-> 0, left |-> FALSE, bad |-> {}]

\* Is n bound, and is its innermost binding the one at i?
IsInnermost(scope, n, i) ==
  /\ i \in DOMAIN scope /\ scope[i].name = n
  /\ \A j \in DOMAIN scope : scope[j].name = n => j <= i

Reads(r, val) ==
  IF val.e \in {"path", "unwalked"} /\ \E i \in DOMAIN r.scope : IsInnermost(r.scope, val.name, i) /\ r.scope[i].gone
    THEN [r EXCEPT !.bad = @ \cup {val.name}] ELSE r

\* A binding takes a value from a name, and so does an owned parameter.
Moves(r, s) ==
  IF s.s \in Binders \cup {"owned"} /\ s.val.e = "path" /\ ~s.val.copy
    THEN [r EXCEPT !.scope = [i \in DOMAIN @ |->
            IF IsInnermost(@, s.val.name, i) THEN [name |-> s.val.name, gone |-> TRUE] ELSE @[i]]]
    ELSE r

Binds(r, s) == IF s.s \in Binders THEN [r EXCEPT !.scope = Append(@, Binding(s.name))] ELSE r

\* A statement, once it has been reached.
Does(r, s) == [Binds(Moves(Reads(r, s.val), s), s) EXCEPT !.left = (s.s = "return")]

EnteredBlock(r) == [r EXCEPT !.scope = Append(@, Binding(BlockMark))]
LeftBlock(r) ==
  [r EXCEPT !.scope = SubSeq(@, 1, (CHOOSE i \in DOMAIN @ : IsInnermost(@, BlockMark, i)) - 1)]

\* A branch is taken or passed over; ifs inside one that is are counted.
Taken(r) == IF r.skip = 0 THEN {r, [r EXCEPT !.skip = 1]} ELSE {[r EXCEPT !.skip = @ + 1]}
Otherwise(r) == [r EXCEPT !.skip = CASE @ = 0 -> 1 [] @ = 1 -> 0 [] OTHER -> @]
Joined(r) == [r EXCEPT !.skip = IF @ = 0 THEN 0 ELSE @ - 1]

-----------------------------------------------------------------------------
LiveInit ==
  /\ body = <<>> /\ nextStmt = 0
  /\ env = [live |-> {}, moved |-> {}, used |-> {}]
  /\ run = RunStart

\* checkUseAfterMove: the parameters are live.
CheckFn ==
  /\ nextStmt = 0
  /\ body' \in Bodies /\ nextStmt' = 1
  /\ env' = [env EXCEPT !.live = {Params[i] : i \in DOMAIN Params}]
  /\ UNCHANGED run

Running == run.skip = 0 /\ ~run.left
Onwards == nextStmt \in DOMAIN body /\ nextStmt' = nextStmt + 1 /\ UNCHANGED body

WalkStmt ==
  /\ Onwards /\ body[nextStmt].s \notin Brackets
  /\ env' = WalkMoveStmt(env, body[nextStmt])
  /\ run' = IF Running THEN Does(run, body[nextStmt]) ELSE run

\* walkMove enters a block with the environment it has.
WalkBlock ==
  /\ Onwards /\ UNCHANGED env
  /\ \/ body[nextStmt].s = "open" /\ run' = IF Running THEN EnteredBlock(run) ELSE run
     \/ body[nextStmt].s = "close" /\ run' = IF Running /\ \E i \in DOMAIN run.scope : IsInnermost(run.scope, BlockMark, i)
                                         THEN LeftBlock(run) ELSE run

WalkIf ==
  /\ Onwards /\ UNCHANGED env
  /\ \/ body[nextStmt].s = "if" /\ run' \in Taken(run)
     \/ body[nextStmt].s = "else" /\ run' = Otherwise(run)
     \/ body[nextStmt].s = "fi" /\ run' = Joined(run)

LiveNext == CheckFn \/ WalkStmt \/ WalkBlock \/ WalkIf
LiveSpec == LiveInit /\ [][LiveNext]_liveVars

-----------------------------------------------------------------------------
(* Properties *)

\* Does the walk enter every value, and meet every name that is bound?
EntersAll == \A k \in DOMAIN body :
  body[k].s # "destructure" /\ body[k].val.e # "unwalked" /\ (body[k].s \in Binders => body[k].val.e # "none")

\* Does the function pass a value it may not keep to an owned parameter?
GivesAway == \E k \in DOMAIN body : body[k].s = "owned" /\ ~body[k].val.copy

SeesAll == EntersAll /\ ~GivesAway

StraightLine == \A k \in DOMAIN body : body[k].s \notin Brackets

BindsOnce ==
  \A k \in DOMAIN body : body[k].s \in Binders =>
    /\ \A i \in DOMAIN Params : body[k].name # Params[i]
    /\ \A j \in DOMAIN body : body[j].s \in Binders /\ body[j].name = body[k].name => j = k

\* A function that passes the use-after-move check never reads a value that a
\* let or var has moved, whichever branches it takes, shadowing and inner blocks
\* included, with three exceptions: the function hands a value that is not Copy
\* to an owned parameter, which the walk reads but does not move; it reads or
\* binds a name where the walk does not enter; or the name comes out of a
\* destructuring pattern or a let without a value, which the walk does not see.
\* In straight-line code without rebinding every diagnostic is deserved, as far
\* as the function runs.
MovesAreCaught ==
  /\ SeesAll => run.bad \subseteq env.used
  /\ SeesAll /\ StraightLine /\ BindsOnce /\ ~run.left => env.used \subseteq run.bad

\* What checkUseAfterMove says of itself (liveness.go:391-393): it tracks locals
\* that have been moved, by a move expression or by being passed to an owned
\* parameter, and reports any subsequent read.
MovedReadsAreReported == run.bad \subseteq env.used
=============================================================================
