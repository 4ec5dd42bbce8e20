CONSTANTS
  Shells = {p, q}
  DepNames = {a}
  MaxVersion = 1
  Faults = TRUE
SPECIFICATION CommandSpec
INVARIANTS LockMatchesManifest
