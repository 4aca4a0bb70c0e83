CONSTANTS
  Robots = {r1}
  Copies = {}
  Files = {1, 2}
  VarFiles = {1}
  Bodies = {a, b}
  Junk = Junk
  Edits = {e1}
  MaxTargets = 2
  MaxFaults = 1
SPECIFICATION Spec
INVARIANT
  EveryPartitionSavedFirst
CHECK_DEADLOCK FALSE
