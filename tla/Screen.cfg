CONSTANTS
  m1 = m1
  m2 = m2
  Msgs = {m1, m2}
  MaxDrops = 1
  MaxTimeouts = 0
  MaxRejects = 1
  MaxFailures = 0
  Cap = 3
  MaxPushes = 2
  MaxClears = 1
SPECIFICATION ScreenSpec
SYMMETRY Symmetry
INVARIANTS
  ScreenTypeOK
  ShownIsSo
\* The bounds run out and the session may be closed: quiescence is legal.
CHECK_DEADLOCK FALSE
