\* Installs of hosted images are among the actions.
CONSTANTS
  Hosted = TRUE
  MaxVersion = 3
  MaxGeneration = 3
  MaxSteps = 4
SPECIFICATION FairSpec
INVARIANTS
  TypeOK
  EditsEndAtClose
PROPERTIES
  NeverOlder
  NoCloseOverTransfer
  ClosingEnds
CHECK_DEADLOCK FALSE
