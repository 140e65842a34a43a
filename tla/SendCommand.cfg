CONSTANTS
  m = m
  o1 = o1
  Msgs = {m}
  Others = {o1}
  Nobody = Nobody
  MaxDeltas = 1
  MaxDrops = 1
  MaxFailures = 1
SPECIFICATION FairSpec
INVARIANTS
  TypeOK
  ReplyIsWhole
  AnswersUs
PROPERTY SendReturns
\* The command ends.
CHECK_DEADLOCK FALSE
