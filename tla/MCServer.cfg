\* Three connections, any of which may listen or request, on one space with one id.
SPECIFICATION Spec
CONSTANTS
  Conns = {c1, c2, c3}
  Names = {n1}
  Passes = {p1, p2}
  Ids = {1}
  InCap = 1
  MaxMsgs = 2
  NoConn = NoConn
  NoPass = NoPass
SYMMETRY Symmetry
INVARIANTS
  TypeOK
  RegistryConsistent
  SpaceHasHead
  SendsToOpen
PROPERTIES
  SpaceEndKillsMembers
\* The server may crash, and every client may have come and gone.
CHECK_DEADLOCK FALSE
