\* A listener whose WriteLoop has gone, and a requestor that quits.
SPECIFICATION FairSpec
CONSTANTS
  Conns = {c1, c2}
  Names = {n1}
  Passes = {p1}
  Ids = {1}
  InCap = 1
  MaxMsgs = 0
  NoConn = NoConn
  NoPass = NoPass
PROPERTIES
  QuitNoticeDelivered
CHECK_DEADLOCK FALSE
