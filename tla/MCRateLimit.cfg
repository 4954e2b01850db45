SPECIFICATION Spec
CONSTANTS
  Calls = {c1, c2}
  Capacity = 1
  Unit = 2
  failureThreshold = 2
  successThreshold = 2
  timeout = 2
  rollingWindow = 2
PROPERTIES
  WaitsForToken
