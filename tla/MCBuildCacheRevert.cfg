CONSTANTS
  Release = release
  Exe = exe
  Procs = {p}
  Configs = {release}
  Paths = {exe}
  BinPath <- OnePath
  MaxVersion = 1
  Revert = TRUE
  Faults = FALSE
  Deletes = FALSE
SPECIFICATION Spec
INVARIANTS CacheHitIsFresh
