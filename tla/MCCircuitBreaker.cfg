CONSTANTS
  Calls = {c1, c2, c3}
  FailureThreshold = 2
  RecoveryTimeout = 3
SPECIFICATION FairSpec
INVARIANTS
  ClosedBelowThreshold
  ProbeAfterQuietPeriod
PROPERTIES
  TransitionDiagram
  QuarantineRespected
  FailedProbeReopens
  EventuallyProbes
