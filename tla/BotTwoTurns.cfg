\* With the janitor and a reload, nothing else.
SPECIFICATION Spec
CONSTANTS
  s1 = s1
  s2 = s2
  d1 = d1
  Sends <- MCSends
  Deletes = {}
  Nobody = Nobody
  MaxObjects = 2
  Evicts = TRUE
  Shared = FALSE
INVARIANT OneTurnPerSession
CHECK_DEADLOCK FALSE
