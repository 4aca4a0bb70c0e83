CONSTANTS
  Last = 1
  Own = {o1, o2}
  Other = {s1}
  Broken = Broken
  MaxImages = 2
SYMMETRY Symmetry
SPECIFICATION Spec
INVARIANTS
  RollbackFirst
  RecordedFirst
  CalibrationKept
  ReportTrue
  HostedSameRobot
CHECK_DEADLOCK FALSE
