SPECIFICATION Spec
CONSTANTS
  Peers = {1, 2, 3}
  Keys = {0, 1, 2, 3}
  Score <- MCScore
  MaxScore = 9
  Rings <- MCRings
  Requests <- MCRequests
  PageSize = 2
  ReadSharding = "auto"
  MinPages = 2
  MaxFaults = 2
INVARIANTS TypeOK BodyIsTheRange OnlyLossCuts BatchesAgreed HandledByOwner WritesInvalidate
PROPERTY AnswerIsServed
