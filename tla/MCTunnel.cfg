SPECIFICATION Spec
CONSTANTS
  c1 = c1
  NoConn = NoConn
  Conns = {c1}
  Port <- OnePort
  Inner <- OneInner
  InCap = 1
  WCap = 1
  QCap = 1
  RMax = 0
  MaxData <- BothWays
  MayQuit = {"proxy"}
INVARIANTS
  TypeOK
  NoSendToClosed
  RunningIsRouted
  AllClosed
  DataAfterDial
PROPERTIES
  ArePipes
CHECK_DEADLOCK FALSE
