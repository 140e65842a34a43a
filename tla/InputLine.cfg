CONSTANTS
  Chars = {"s", "/"}
  Pastes <- MCPastes
  Offered <- MCOffered
  CollapseLimit = 2
  Histories <- MCHistories
  MaxEdits = 3
  MaxHistory = 2
SPECIFICATION Spec
INVARIANTS
  TypeOK
PROPERTIES
  PastesAreSent
  DraftComesBack
\* The user may leave: quiescence is legal.
CHECK_DEADLOCK FALSE
