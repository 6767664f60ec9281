\* The manager: no janitor (IdleTimeout < 0); another bot process shares the
\* store.  The session lock: two processes start and end, one of them is used;
\* two machines, two sessions; rows are stale after more than 0 or 1 units of time.
SPECIFICATION SessionsSpec
CONSTANTS
  s1 = s1
  s2 = s2
  d1 = d1
  p1 = p1
  h1 = h1
  Sends <- MCSends
  Deletes <- MCDeletes
  Nobody = Nobody
  MaxObjects = 1
  Evicts = FALSE
  Shared = TRUE
  Procs = {p1, p2}
  Users = {p1}
  Hosts = {h1, h2}
  Sessions = {a, b}
  Beats = {t1}
  NoOne = NoOne
  Short = 0
  Long = 1
SYMMETRY Symmetry
INVARIANTS SessionsTypeOK OneTurnPerSession TurnIsSafe QuestionsAnswerable LockStanding
PROPERTIES TurnsBracketed ToldMeansSilent
\* Finished requests, a closed bot and ended processes rest.
CHECK_DEADLOCK FALSE
