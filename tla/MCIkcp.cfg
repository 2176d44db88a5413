SPECIFICATION Spec
CONSTANTS
  SndWnd = 2
  RcvWnd = 2
  Half = 100
  InitWnd = 1
  Sizes <- ThreeMessages
  FwdCap = 1
  BackCap = 2
INVARIANTS
  TypeOK
  WithinWindows
  InOrder
  NothingLost
  WholeMessages
PROPERTY
  IsStream
CHECK_DEADLOCK FALSE
