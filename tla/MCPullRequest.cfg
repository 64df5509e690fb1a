CONSTANTS
  p1 = p1
  p2 = p2
  c1 = c1
  c2 = c2
  PRs = {p1, p2}
  Commits = {c1, c2}
  NumWorkers = 2
  Pushes <- MCPushes
  MaxAttempts = 2
  MaxFaults = 2
SPECIFICATION FairSpec
CHECK_DEADLOCK FALSE
INVARIANTS
  TypeOK
  ReviewBudget
  LateReviewIsExcused
PROPERTIES
  HeadsAreReviewed
  AdmitsAsPromised
  JobsKeepPromise
