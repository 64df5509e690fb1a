CONSTANTS
  c1 = c1
  c2 = c2
  Clients = {c1, c2}
  NoClient = NoClient
  MaxPushes = 2
SPECIFICATION FairSpec
INVARIANTS
  TypeOK
  ScrapeIsBracketed
PROPERTIES
  ClearAnswersTruly
  ReadinessIsCurrent
  RequestsAreAnswered
