------------------------------ MODULE Algorithms ------------------------------
(***************************************************************************)
(* The sequential algorithms, each against its reference definition.  A    *)
(* behaviour runs one of them on one input.                                *)
(***************************************************************************)
EXTENDS SemverCheck, LspTextCheck, CompilerCheck, ConstEvalCheck

vars == <<semverVars, text, typeVars, monoVars, liveVars, resolveVars, constVars>>

Init == SemverInit /\ TextInit /\ TypesInit /\ MonoInit /\ LiveInit /\ ResolveInit /\ ConstInit

\* No algorithm has begun, but perhaps the one named.
Idle(name) ==
  /\ name # "semver" => SemverInit
  /\ name # "text" => text = <<>>
  /\ name # "types" => Len(types) = Len(PrimitiveOrder)
  /\ name # "mono" => phase = "start"
  /\ name # "live" => nextStmt = 0
  /\ name # "resolve" => pass.name = "start"
  /\ name # "const" => program = NoProgram

Next ==
  \/ Idle("semver")  /\ SemverNext  /\ UNCHANGED <<text, typeVars, monoVars, liveVars, resolveVars, constVars>>
  \/ Idle("text")    /\ TypeText    /\ UNCHANGED <<semverVars, typeVars, monoVars, liveVars, resolveVars, constVars>>
  \/ Idle("types")   /\ TypesNext   /\ UNCHANGED <<semverVars, text, monoVars, liveVars, resolveVars, constVars>>
  \/ Idle("mono")    /\ MonoNext    /\ UNCHANGED <<semverVars, text, typeVars, liveVars, resolveVars, constVars>>
  \/ Idle("live")    /\ LiveNext    /\ UNCHANGED <<semverVars, text, typeVars, monoVars, resolveVars, constVars>>
  \/ Idle("resolve") /\ ResolveNext /\ UNCHANGED <<semverVars, text, typeVars, monoVars, liveVars, constVars>>
  \/ Idle("const")   /\ ConstNext   /\ UNCHANGED <<semverVars, text, typeVars, monoVars, liveVars, resolveVars>>

Spec == Init /\ [][Next]_vars
=============================================================================
