SPECIFICATION FairSpec
CONSTANTS
  Processes = {p1}
  Ticks = {t1}
  Batch = 2
  MaxEvents = 2
  MaxCrashes = 0
  Faults = {"connection", "reply", "handler", "ack"}
  None = None
PROPERTIES
  FinallyDone
CHECK_DEADLOCK FALSE
