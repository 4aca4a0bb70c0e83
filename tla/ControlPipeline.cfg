CONSTANTS
  Slots = {s1, s2, s3}
  MaxSubmits = 6
SPECIFICATION Spec
INVARIANTS
  TypeOK
  NoReuseInFlight
  BuffersHeld
PROPERTY ImplementsRequestQueue
CHECK_DEADLOCK FALSE
