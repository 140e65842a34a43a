CONSTANTS
  HEARTBEAT_INTERVAL = 2
  HEARTBEAT_DEAD_AFTER = 4
  AnswerWithin = 1
  MaxFaults = 2
SPECIFICATION FairSpec
PROPERTIES
  DeadIsReplaced
\* The transport may be stopped and its tasks end: quiescence is legal.
CHECK_DEADLOCK FALSE
