\* A loader with dfu-queue.patch: both directions keep several requests queued.  Two faults
\* and the waits that run out are enough to leave the read cursor ahead and read from there.
CONSTANTS
  TransferSize = 2
  PartitionSize = 7
  BlockWrap = 8
  DrainSize = 4
  QueueLoader = TRUE
  UploadDepth = 4
  WriteDepth = 2
  Sizes = {7}
  MaxFaults = 2
  MaxAttempts = 4
SPECIFICATION FairSpec
INVARIANT OnePass
PROPERTY SessionEnds
CHECK_DEADLOCK FALSE
