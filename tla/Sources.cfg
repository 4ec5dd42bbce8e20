CONSTANTS
  Inputs <- SmallInputs
  MaxRecursionDepth = 8
  Texts <- SmallTexts
  Enums <- SmallEnums
  Fns <- SmallFns
  Structs <- SmallStructs
  Decls <- SmallDecls
SPECIFICATION SourcesSpec
CHECK_DEADLOCK FALSE
INVARIANTS ParseInvertsPrint TokensTileTheText LoweringPreservesMeaning ExhaustiveMeansTotal
PROPERTIES ParserTerminates
