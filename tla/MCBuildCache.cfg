CONSTANTS
  Release = release
  Exe = exe
  Procs = {p, q}
  Configs = {release}
  Paths = {exe}
  BinPath <- OnePath
  MaxVersion = 1
  Revert = FALSE
  Faults = TRUE
  Deletes = TRUE
SPECIFICATION Spec
SYMMETRY ProcSymmetry
INVARIANTS TypeOK CacheNamesOnlyBuilt
