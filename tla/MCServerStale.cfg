\* Two listeners and two requestors, one after the other.
SPECIFICATION Spec
CONSTANTS
  Conns = {c1, c2, c3, c4}
  Names = {n1}
  Passes = {p1}
  Ids = {1}
  InCap = 1
  MaxMsgs = 0
  NoConn = NoConn
  NoPass = NoPass
SYMMETRY Symmetry
PROPERTIES
  QuitNoticeIsTrue
CHECK_DEADLOCK FALSE
