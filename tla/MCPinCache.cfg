SPECIFICATION Spec
CONSTANTS
  Calls = {c1, c2}
  Pins = {p1, p2}
  MAX_ATTEMPTS = 3
  MaxTries = 5
  Faults = TRUE
  None = None
INVARIANTS
  TypeOK
  NeverBlockedEarly
  CountsEveryWrongPin
SYMMETRY Symmetry
CHECK_DEADLOCK FALSE
