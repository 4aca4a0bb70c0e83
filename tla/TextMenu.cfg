CONSTANTS
  Profiles <- MCProfiles
  LoadTime = 1
  EntryTime = 3
  SettleTime = 2
  ListTime = 3
  TransferSize = 2
  PartitionSize = 5
  BlockWrap = 4
  DrainSize = 2
  MarkerSize = 5
SPECIFICATION FairSpec
INVARIANTS EntryOnTime MarkerWhole EditedOrAbsent
PROPERTY MenuReturns
