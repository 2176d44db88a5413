SPECIFICATION FairSpec
CONSTANTS
  c1 = c1
  NoConn = NoConn
  Conns = {c1}
  Port <- OnePort
  Inner <- OneInner
  InCap = 1
  WCap = 1
  QCap = 1
  RMax = 0
  MaxData <- Download
  MayQuit = {}
INVARIANTS
  OutInOrder
  EndedAfterAll
PROPERTIES
  AllWritten
  FinCloses
CHECK_DEADLOCK FALSE
