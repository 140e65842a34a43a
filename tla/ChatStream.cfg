CONSTANTS
  s1 = s1
  s2 = s2
  s3 = s3
  Streams = {s1, s2, s3}
  Legacy = {s3}
  MaxDeltas = 2
SPECIFICATION FairSpec
INVARIANTS
  TypeOK
  UndisturbedIsShown
  ShownIsTail
PROPERTY StreamLeavesScreen
