SPECIFICATION FairSpec
CONSTANTS
  c1 = c1
  NoConn = NoConn
  Conns = {c1}
  Port <- OnePort
  Inner <- OneInner
  InCap = 1
  WCap = 1
  QCap = 1
  RMax = 0
  MaxData <- Download
  MayQuit = {}
PROPERTY
  RefusedEnds
CHECK_DEADLOCK FALSE
