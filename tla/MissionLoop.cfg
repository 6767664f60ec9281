\* One process, the real caps, a git worktree, design.md may be edited under
\* its review.
SPECIFICATION FairSpec
CONSTANTS
  f1 = f1
  x1 = x1
  p1 = p1
  p2 = p2
  Files <- MCFiles
  Exempt = {x1}
  Plans <- MCPlans
  NoPlan = NoPlan
  MaxDesignRounds = 3
  MaxEscDesignRounds = 2
  MaxEscalations = 1
  MaxScopeFixRounds = 2
  MaxIdleRounds = 2
  MaxReviewRounds = 2
  Git = TRUE
  Faults = {"editplan"}
INVARIANTS TypeOK TurnContext OwedReviewComesFirst VerdictsBounded
PROPERTIES NoPlanFailsUnread LoopEnds
