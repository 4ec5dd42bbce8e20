CONSTANTS
  Threads = {t1, t2, t3}
  Values = {v1, v2}
  Zero = zero
  NoThread = nobody
  Requested = 2
SPECIFICATION Spec
SYMMETRY ThreadSymmetry
CHECK_DEADLOCK FALSE
INVARIANTS TypeOK RingConsistent NoLostWakeup ClosedReleasesWaiters
PROPERTIES ImplementsBoundedChannel
