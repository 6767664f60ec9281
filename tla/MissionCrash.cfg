\* Crashes, failing renames, a vanishing plan; caps reduced.
SPECIFICATION Spec
CONSTANTS
  f1 = f1
  x1 = x1
  p1 = p1
  p2 = p2
  Files <- MCFiles
  Exempt = {x1}
  Plans <- MCPlans
  NoPlan = NoPlan
  MaxDesignRounds = 2
  MaxEscDesignRounds = 1
  MaxEscalations = 1
  MaxScopeFixRounds = 1
  MaxIdleRounds = 1
  MaxReviewRounds = 1
  Git = TRUE
  Faults = {"crash", "rename", "rmplan"}
SYMMETRY Symmetry
INVARIANTS OrdinaryTurnsClean LockedPlanWasPassed Budgets
PROPERTIES DoneMeansReviewed LifecycleSpec
