CONSTANTS
  Apis = {a1, a2}
  Workers = {w1}
  Deliveries = {d1, d2}
  Keys = {k1, k2}
  KeyOf <- TwoKeys
  JobIds = {j1, j2, j3, j4}
  MaxAttempts = 2
  ReplayLimit = 2
  WithScheduler = TRUE
  MaxFaults = 3
  MaxLapses = 0
  NoEvent = NoEvent
  NoJob = NoJob
  d1 = d1
  d2 = d2
  j1 = j1
  j2 = j2
  k1 = k1
  k2 = k2
SYMMETRY FreshSymmetry
SPECIFICATION DeadLetterSpec
CHECK_DEADLOCK FALSE
INVARIANTS
  AcknowledgedEventsAreCarried
