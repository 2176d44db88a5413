\* A listener that is sent a message while it waits to send RegResp.
SPECIFICATION Spec
CONSTANTS
  Conns = {c1, c2}
  Names = {n1}
  Passes = {p1}
  Ids = {1}
  InCap = 1
  MaxMsgs = 1
  NoConn = NoConn
  NoPass = NoPass
PROPERTIES
  RegRespFirst
CHECK_DEADLOCK FALSE
