\* A hosted install prepares its image after the review was confirmed.
CONSTANTS
  Hosted = TRUE
  MaxVersion = 1
  MaxGeneration = 2
  MaxSteps = 4
SPECIFICATION Spec
INVARIANT NoWriteAfterClose
CHECK_DEADLOCK FALSE
