CONSTANTS
  p1 = p1
  p2 = p2
  Procs = {p1, p2}
  Releases <- MCReleases
  Bounds <- MCBounds
  Policies <- MCPolicies
  UPDATE_NAG_INTERVAL = 1
  HistoryLimit = 1
  Commands = {"chat", "send", "pair", "status", "disconnect"}
  MaxStarts = 3
  MaxEvents = 3
SPECIFICATION Spec
SYMMETRY Symmetry
INVARIANTS
  TypeOK
  IntactIsReadBack
  RemovalIsComplete
  UnreadableIsTorn
PROPERTIES
  OneDevice
  UpdatesHelp
\* The bounds run out: quiescence is legal.
CHECK_DEADLOCK FALSE
