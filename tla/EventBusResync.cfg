\* One process, one bus: the transcript is copied before last_seq is read.
SPECIFICATION Spec
CONSTANTS
  c1 = c1
  Clients <- MCClients
  Replay = 2
  Buffer = 1
  MaxEvents = 3
  MaxReloads = 0
  ClockSteps = {}
INVARIANT ResyncMissesNoTurn
CHECK_DEADLOCK FALSE
