CONSTANTS
  Apis = {a1}
  Workers = {w1}
  Deliveries = {d1}
  Keys = {k1}
  KeyOf <- OneKey
  JobIds = {j1, j2}
  MaxAttempts = 3
  ReplayLimit = 2
  WithScheduler = TRUE
  MaxFaults = 5
  MaxLapses = 0
  NoEvent = NoEvent
  NoJob = NoJob
  d1 = d1
  d2 = d2
  j1 = j1
  j2 = j2
  k1 = k1
  k2 = k2
SPECIFICATION FairSpec
CHECK_DEADLOCK FALSE
INVARIANTS
  DeadLetteredOnce
  DeadLetterIsFinal
  CountersBracketed
PROPERTIES
  RetriesSettle
