------------------------------- MODULE Sources -------------------------------
(***************************************************************************)
(* The front half of the compiler: the scanner, the parser, and the        *)
(* checking and lowering of a function.  They share no state, as the       *)
(* tokens, trees and programs they are given are enumerated: a behaviour   *)
(* runs one of them on one input and the others stay at rest.              *)
(***************************************************************************)
EXTENDS MCParser, MCScanner, MCLower

VARIABLE part

sourceVars == <<part, parseVars, scanVars, lowerVars>>

\* An empty file has been parsed.
ParserAtRest ==
  /\ toks = <<"EOF">> /\ pos = 1 /\ depth = 0 /\ val = "nil" /\ out = <<>> /\ faulty = FALSE
  /\ stack = <<>>

ScannerAtRest ==
  /\ src = <<>> /\ here = TextStart /\ from = TextStart /\ mode = "start" /\ count = 0
  /\ tokens = <<>> /\ lexErrors = <<>> /\ stopped = FALSE

SourcesInit ==
  /\ part \in {"parser", "scanner", "lowerer"}
  /\ IF part = "parser" THEN ParseInit ELSE ParserAtRest
  /\ IF part = "scanner" THEN ScanInit ELSE ScannerAtRest
  /\ LowerInit

RunParser == part = "parser" /\ ParseStep /\ UNCHANGED <<part, scanVars, lowerVars>>
RunScanner == part = "scanner" /\ ScanStep /\ UNCHANGED <<part, parseVars, lowerVars>>
RunLowerer == part = "lowerer" /\ LowerNext /\ UNCHANGED <<part, parseVars, scanVars>>

SourcesSpec ==
  SourcesInit /\ [][RunParser \/ RunScanner \/ RunLowerer]_sourceVars /\ WF_sourceVars(RunParser)
=============================================================================
