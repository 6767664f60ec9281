\* Tool calls, wrap-ups, the breaker and cancellation over two runs of a
\* conversation; the pull request loop over two rounds and two attachments.
SPECIFICATION ChatSpec
CONSTANTS
  Tools <- MCTools
  SafeTools <- MCSafe
  Args <- MCArgs
  Batches <- MCBatches
  Limit = 2
  MaxToolCalls = 2
  TokenBudget = 4
  HasDeadline = TRUE
  KeepTail = 2
  MaxTaskCalls = 1
  Repeat <- MCRepeat
  Outcome <- MCOutcome
  MaxRuns = 2
  MaxPRRounds = 2
  MaxCycles = 2
  MaxVerdicts = 2
INVARIANTS ChatTypeOK PairedUnlessCut UnsafeOrder ResultsBooked RunCaps ReviewTrail
PROPERTIES RunEnds MergesVetted PRLoopEnds
CHECK_DEADLOCK FALSE
