SPECIFICATION Spec
CONSTANTS
  Trips = {t1}
  Drivers = {d1, d2}
  Admins = {}
  Rider = rider
  Pins = {p1}
  Intents = {i1, i2}
  Tasks = {k1, k2}
  Existing = {t1}
  Operations = {"accept", "verify", "start", "complete", "cancel"}
  Faults = {}
  None = None
PROPERTIES
  Lifecycle
SYMMETRY Symmetry
CHECK_DEADLOCK FALSE
