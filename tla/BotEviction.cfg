\* The janitor may unload the session before, under and after the send, and
\* requests load it again; another bot process shares the store.
SPECIFICATION FairSpec
CONSTANTS
  s1 = s1
  s2 = s2
  d1 = d1
  Sends = {s1}
  Deletes <- MCDeletes
  Nobody = Nobody
  MaxObjects = 2
  Evicts = TRUE
  Shared = TRUE
PROPERTIES CloseReturns QuestionsReturn
\* Finished requests and a closed bot rest.
CHECK_DEADLOCK FALSE
