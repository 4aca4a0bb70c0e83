CONSTANTS
  Windows = {w1, w2, w3}
  Sets = {s1}
  Parts = {var, services}
  Var = var
  NoSet = NoSet
SPECIFICATION Spec
INVARIANTS TypeOK SourceKept Restorable OnlyRecordedDeleted
PROPERTY ImplementsSavedSets
CHECK_DEADLOCK FALSE
