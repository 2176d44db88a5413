SPECIFICATION FairSpec
CONSTANTS
  lan = lan
  wan = wan
  None = None
  Paths = {lan, wan}
  Works <- HalfLan
  Nat2 <- ProxyBehindHarderNat
  Rank <- TextOrder
  MaxShakes = 1
  MaxSock = 3
  NetCap = 1
INVARIANTS
  OkOnWorkingPath
  TypeOK
  HeardByBoth
PROPERTIES
  ShakeEnds
  LostIsNoticed
  QuitEnds
CHECK_DEADLOCK FALSE
