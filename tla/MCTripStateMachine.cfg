SPECIFICATION Spec
CONSTANTS
  Drivers = {d1, d2, d3}
  Rider = rider
  Intents = {i1, i2}
  None = None
INVARIANTS
  TypeOK
  StampsTellTheLife
  DriverIffAssigned
PROPERTIES
  HandlersFollowTable
  DriverLocked
