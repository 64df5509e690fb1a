CONSTANTS
  Apis = {a1, a2}
  Workers = {w1}
  Deliveries = {d1, d2}
  Keys = {k1}
  KeyOf <- OneKey
  JobIds = {j1, j2}
  MaxAttempts = 2
  ReplayLimit = 2
  WithScheduler = TRUE
  MaxFaults = 3
  MaxLapses = 1
  NoEvent = NoEvent
  NoJob = NoJob
  d1 = d1
  d2 = d2
  j1 = j1
  j2 = j2
  k1 = k1
  k2 = k2
SYMMETRY FullSymmetry
SPECIFICATION Spec
CHECK_DEADLOCK FALSE
INVARIANTS
  TypeOK
  DuplicatesAreExcused
  ExclusiveAdmission
  AcknowledgedEventsAreCarried
PROPERTIES
  ImplementsAdmission
