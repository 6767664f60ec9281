\* A context that ends inside a serial batch, and the next line.
SPECIFICATION FairSpec
CONSTANTS
  Tools <- MCTools
  SafeTools <- MCSafe
  Args <- MCArgs
  Batches <- MCBatches
  Limit = 2
  MaxToolCalls = 2
  TokenBudget = 4
  HasDeadline = TRUE
  KeepTail = 2
  MaxTaskCalls = 1
  Repeat <- MCRepeat
  Outcome <- MCOutcome
  MaxRuns = 2
INVARIANT CallsPaired
CHECK_DEADLOCK FALSE
