\* A crash while the first review of the last round runs: the plan is never read.
SPECIFICATION Spec
CONSTANTS
  f1 = f1
  x1 = x1
  p1 = p1
  p2 = p2
  Files <- MCFiles
  Exempt = {x1}
  Plans <- MCPlans
  NoPlan = NoPlan
  MaxDesignRounds = 1
  MaxEscDesignRounds = 1
  MaxEscalations = 1
  MaxScopeFixRounds = 0
  MaxIdleRounds = 0
  MaxReviewRounds = 0
  Git = TRUE
  Faults = {"crash"}
SYMMETRY Symmetry
PROPERTY NoPlanFailsUnread
