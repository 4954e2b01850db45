SPECIFICATION Spec
CONSTANTS
  Processes = {p1, p2}
  Ticks = {t1, t2}
  Batch = 2
  MaxEvents = 1
  MaxCrashes = 1
  Faults = {"connection", "reply", "handler", "ack"}
  None = None
SYMMETRY Symmetry
INVARIANTS
  TypeOK
  NothingLost
PROPERTIES
  KeepsPromise
CHECK_DEADLOCK FALSE
