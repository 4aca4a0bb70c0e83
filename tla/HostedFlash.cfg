CONSTANTS
  Windows = {w1, w2}
  NoOne = NoOne
  Dead = Dead
  NoFile = NoFile
  MaxIssues = 2
  Size = 2
  MaxTries = 2
  MaxKills = 1
  MaxFails = 1
SPECIFICATION Spec
INVARIANTS
  BytesInPlace
  LeftToResume
  CacheUsable
PROPERTIES
  FetchedInOrder
  FlashedInTheEnd
CHECK_DEADLOCK FALSE
