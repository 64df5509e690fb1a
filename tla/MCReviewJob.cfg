CONSTANTS
  MaxRetries = 1
  NumBatches = 2
  MaxTries = 3
SPECIFICATION FairSpec
CHECK_DEADLOCK FALSE
INVARIANTS
  TypeOK
  LeaksAreExcused
  OneReviewPerAttempt
  DoneIsReviewed
PROPERTIES
  JobSettles
  KeepsPromise
