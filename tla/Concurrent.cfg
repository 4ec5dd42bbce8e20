CONSTANTS
  Main = m
  Producers = {p1, p2}
  Consumers = {c1, c2}
  Threads = {m, p1, p2, c1, c2}
  Values = {v1}
  Zero = zero
  NoThread = nobody
  Requested = 0
  Quota = 2
  MaxSpurious = 1
  Uris = {u}
  Letters = {"face", "nl"}
  MaxText = 2
  MaxSent = 3
  MaxGarbage = 1
  Names <- MCNames
  Registries <- MCRegistries
  Manifests <- MCManifests
  Shells = {s1, s2}
  DepNames = {a}
  MaxVersion = 1
  Faults = TRUE
  Procs = {p, q}
  Digests = {d, e}
  Initial = {"absent", "good", "bad"}
  Retries = 1
SPECIFICATION ConcurrentSpec
CHECK_DEADLOCK FALSE
INVARIANTS
  FreedIsQuiescent EveryElementDeliveredOnce
  DocumentsInSync MarkersAreCurrent AnsweredOnce
  ResolutionSound ResolutionAcyclic CycleIsReal
  CleanCommandsKeepTheLock LockIsNeverMixed
  ReturnedIsNeverCorrupt UsableUnlessCorrupt
PROPERTIES ProgramEnds ResolutionEnds CorruptionNeverSpreads
