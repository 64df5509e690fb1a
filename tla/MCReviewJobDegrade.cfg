CONSTANTS
  MaxRetries = 1
  NumBatches = 2
  MaxTries = 2
SPECIFICATION Spec
CHECK_DEADLOCK FALSE
INVARIANT
  FindingsDegradeToSummary
