SPECIFICATION Spec
CONSTANTS
  None = None
  NoDir = NoDir
  Worlds <- MCForks
  Lines <- MCLines
  Sorted <- MCSorted
INVARIANT
  RoomsReachable
CHECK_DEADLOCK FALSE
