SPECIFICATION Spec
CONSTANTS
  Trips = {t1}
  Drivers = {d1, d2}
  Admins = {admin}
  Rider = rider
  Pins = {p1, p2}
  Intents = {i1, i2}
  Tasks = {k1}
  Existing = {}
  Operations = {"create", "accept", "verify", "start", "complete", "cancel"}
  Faults = {"abort", "expiry", "deletion", "publish", "payments"}
  None = None
INVARIANTS
  TypeOK
  OnePinPerAssignment
  PaidByItsOwnIntent
  CapturedIsKept
PROPERTIES
  Lifecycle
  ChangedByItsDriver
SYMMETRY Symmetry
CHECK_DEADLOCK FALSE
