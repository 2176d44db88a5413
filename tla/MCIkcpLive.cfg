SPECIFICATION FairSpec
CONSTANTS
  SndWnd = 2
  RcvWnd = 2
  Half = 6
  InitWnd = 1
  Sizes <- OnceRound
  FwdCap = 1
  BackCap = 1
INVARIANT
  NothingLost
PROPERTY
  AllRead
CHECK_DEADLOCK FALSE
