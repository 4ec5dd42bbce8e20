CONSTANTS
  Texts <- WindowsTexts
SPECIFICATION ScanSpec
CHECK_DEADLOCK FALSE
INVARIANTS OnlyTriviaIsDropped
