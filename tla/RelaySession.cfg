CONSTANTS
  HEARTBEAT_INTERVAL = 2
  HEARTBEAT_DEAD_AFTER = 4
  AnswerWithin = 1
  MaxFaults = 2
SPECIFICATION FairSpec
INVARIANTS
  TypeOK
PROPERTIES
  WorkingIsKept
  LostIsReplaced
  StraysEnd
  DisconnectIsHeeded
\* The transport may be stopped and its tasks end: quiescence is legal.
CHECK_DEADLOCK FALSE
