\* Two connections with fairness; the queue may be full while a ReadLoop pushes.
SPECIFICATION FairSpec
CONSTANTS
  Conns = {c1, c2}
  Names = {n1}
  Passes = {p1}
  Ids = {1}
  InCap = 1
  MaxMsgs = 2
  NoConn = NoConn
  NoPass = NoPass
PROPERTIES
  SendCompletes
  DyingLeaves
\* The server may crash, and every client may have come and gone.
CHECK_DEADLOCK FALSE
