CONSTANTS
  Last = 1
  Own = {o1, o2}
  Other = {s1}
  Broken = Broken
  MaxImages = 1
SYMMETRY Symmetry
SPECIFICATION Spec
INVARIANT OwnBackupOnly
CHECK_DEADLOCK FALSE
