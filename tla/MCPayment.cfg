SPECIFICATION FairSpec
CONSTANTS
  Trips = {t1}
  Drivers = {d1}
  Admins = {}
  Rider = rider
  Pins = {p1}
  Intents = {i1, i2}
  Tasks = {k1}
  Existing = {t1}
  Operations = {"accept", "verify", "start", "complete", "cancel"}
  Faults = {"abort", "payments"}
  None = None
PROPERTIES
  CapturedIsPaid
CHECK_DEADLOCK FALSE
