CONSTANTS
  Procs = {p, q}
  Digests = {d, e}
  Initial = {"bad"}
  Retries = 1
SPECIFICATION FetchSpec
CHECK_DEADLOCK FALSE
INVARIANTS ReturnedIsUsable
