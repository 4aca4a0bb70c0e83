\* A loader without dfu-queue.patch: one write in flight, full blocks only, and
\* block numbers that wrap inside one transfer: BlockWrap blocks are fewer than
\* the partition has, as 2^16 blocks of 4 KiB are fewer than var has.  A write
\* can be cut off after exactly BlockWrap of them.
CONSTANTS
  TransferSize = 2
  PartitionSize = 9
  BlockWrap = 3
  DrainSize = 4
  QueueLoader = FALSE
  UploadDepth = 2
  WriteDepth = 2
  Sizes = {0, 2, 9, 10}
  MaxFaults = 2
  MaxAttempts = 2
SPECIFICATION Spec
INVARIANTS
  TypeOK
  UploadFaithful
  CleanFailure
PROPERTIES
  DownloadStored
  NothingMisplaced
CHECK_DEADLOCK FALSE
