CONSTANTS
  a = a
  b = b
  Ids = {a, b}
  Unreadable = {}
  ACK_BATCH_THRESHOLD = 2
  MaxSeq = 2
  MaxUnnumbered = 0
  MaxDrops = 2
  MaxEnds = 2
  MaxPersistFaults = 0
  MaxWatermarkFaults = 1
SPECIFICATION FairSpec
PROPERTIES
  EventuallyAcked
  EventuallyProcessed
\* The bounds run out and the process may stay down: quiescence is legal.
CHECK_DEADLOCK FALSE
