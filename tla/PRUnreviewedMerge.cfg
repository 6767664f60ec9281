\* A fix of failing checks that is cut short, and the merge after it.
SPECIFICATION FairPRSpec
CONSTANTS
  MaxPRRounds = 2
  MaxCycles = 2
  MaxVerdicts = 2
PROPERTIES MergesReviewed
CHECK_DEADLOCK FALSE
