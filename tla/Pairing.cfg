CONSTANTS
  MaxHosts = 3
  MaxJoins = 2
  MaxStops = 2
  MaxLosses = 1
SPECIFICATION FairSpec
INVARIANTS
  TypeOK
  CompletedMeansJoined
  AgreeUnlessStopped
PROPERTY NobodyWaits
\* The bounds run out, and a host or a joiner may wait alone.
CHECK_DEADLOCK FALSE
