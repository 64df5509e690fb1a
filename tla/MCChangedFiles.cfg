CONSTANTS
  p1 = p1
  p2 = p2
  p3 = p3
  noise = noise
  odd = odd
  short = short
  Paths <- MCPaths
  NameOf <- MCNameOf
  Noise <- MCNoise
  Outputs <- MCOutputs
  MaxLines = 4
  SmallBelow = 3
  BatchLines = 4
  BatchFiles = 3
SPECIFICATION Spec
CHECK_DEADLOCK FALSE
INVARIANTS
  TypeOK
  EachChangeReviewedOnce
  BatchesHoldOwnText
  BatchLimits
