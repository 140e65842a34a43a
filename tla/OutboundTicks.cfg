CONSTANTS
  m1 = m1
  m2 = m2
  Msgs = {m1, m2}
  MaxDrops = 1
  MaxTimeouts = 1
  MaxRejects = 1
  MaxFailures = 1
SPECIFICATION FairSpec
INVARIANTS
  TypeOK
  NoOrphanSending
  TickIsTrue
PROPERTIES
  TicksMoveOn
  EventuallySettled
\* The bounds run out and the session may be closed: quiescence is legal.
CHECK_DEADLOCK FALSE
