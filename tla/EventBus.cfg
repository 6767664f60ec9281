\* Ring and channel overflow, evictions, a restart, the clock set back.
SPECIFICATION FairSpec
CONSTANTS
  c1 = c1
  Clients <- MCClients
  Replay = 2
  Buffer = 1
  MaxEvents = 4
  MaxReloads = 2
  ClockSteps = {1, 3}
INVARIANTS TypeOK RingIsTail QueuedIsNext
PROPERTIES FeedSpec CatchesUp
\* The system rests once the bounded events are published and read.
CHECK_DEADLOCK FALSE
