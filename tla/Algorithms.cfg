SPECIFICATION Spec
CONSTANTS
  Top = 1
  MaxLen = 4
  PrimitiveOrder <- SmallPrimitives
  UnaryKinds = {"Ptr"}
  NominalKinds = {"Struct"}
  Symbols = {1}
  Lengths = {0, 1}
  MaxArity = 2
  MaxTypes = 3
  Sources <- SmallSources
  Params <- SmallParams
  Bodies <- SmallBodies
  Order <- SmallOrder
  Trees <- SmallTrees
  WordBits = 5
  Bits <- SmallBits
  SignedTypes = {"I3", "I5"}
  MaxDepth = 3
  Programs <- SmallPrograms
INVARIANTS
  ParsesAsDocumented
  IntersectIsConjunction
  SelectsTheLatest
  PositionsAgree
  EditsReplaceTheSelection
  IdentifierUnderCursor
  SameIdSameType
  OutputIsConcrete
  MovesAreCaught
  CyclesReportedOnce
  AcceptedNamesAreVisible
  ConstantsAreTheirMeaning
CHECK_DEADLOCK FALSE
