CONSTANTS
  Names <- MCNames
  Registries <- OneRegistry
  Manifests <- OneManifest
SPECIFICATION TwiceSpec
CHECK_DEADLOCK FALSE
INVARIANTS IterationOrderIrrelevant
