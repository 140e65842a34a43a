CONSTANTS
  a = a
  b = b
  Ids = {a, b}
  Unreadable = {a}
  ACK_BATCH_THRESHOLD = 2
  MaxSeq = 2
  MaxUnnumbered = 0
  MaxDrops = 0
  MaxEnds = 0
  MaxPersistFaults = 0
  MaxWatermarkFaults = 0
SPECIFICATION FairSpec
PROPERTY EventuallyProcessed
CHECK_DEADLOCK FALSE
