SPECIFICATION LiveSpec
CONSTANTS
  Params <- SmallParams
  Bodies <- SmallBodies
INVARIANT MovedReadsAreReported
CHECK_DEADLOCK FALSE
