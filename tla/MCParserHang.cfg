CONSTANTS
  Inputs <- PublicTraitMethod
  MaxRecursionDepth = 8
SPECIFICATION ParseSpec
CHECK_DEADLOCK FALSE
PROPERTIES ParserTerminates
