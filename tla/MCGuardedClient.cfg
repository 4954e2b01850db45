SPECIFICATION FairSpec
CONSTANTS
  Calls = {c1, c2, c3}
  Capacity = 1
  Unit = 2
  failureThreshold = 2
  successThreshold = 2
  timeout = 2
  rollingWindow = 2
INVARIANTS
  TypeOK
  ClosedMeansFewFailures
PROPERTIES
  QuietAfterOpening
  ClosedByProof
  Recovers
