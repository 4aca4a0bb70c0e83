CONSTANTS
  Robots = {r1, r2}
  Copies = {}
  Files = {1, 2}
  VarFiles = {1}
  Bodies = {a, b}
  Junk = Junk
  Edits = {e1, e2}
  MaxTargets = 2
  MaxFaults = 1
SYMMETRY Symmetry
SPECIFICATION MCSpec
INVARIANTS
  TypeOK
  StatusTrue
  OneInDoubt
  VarSavedFirst
PROPERTIES
  OnlyAsReviewed
CHECK_DEADLOCK FALSE
