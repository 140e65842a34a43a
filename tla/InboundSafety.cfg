CONSTANTS
  a = a
  b = b
  c = c
  Ids = {a, b, c}
  Unreadable = {c}
  ACK_BATCH_THRESHOLD = 2
  MaxSeq = 3
  MaxUnnumbered = 1
  MaxDrops = 1
  MaxEnds = 1
  MaxPersistFaults = 1
  MaxWatermarkFaults = 1
SPECIFICATION Spec
SYMMETRY Symmetry
INVARIANTS
  TypeOK
  AckedIsDurable
  NothingPassedOver
  BatchOnlyWhenAckAware
PROPERTY MailboxSpec
\* The bounds run out and the process may stay down: quiescence is legal.
CHECK_DEADLOCK FALSE
