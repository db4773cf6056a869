SPECIFICATION Spec
CONSTANTS
  None = None
  NoDir = NoDir
  Worlds <- MCWorlds
  Lines <- MCLines
  Sorted <- MCSorted
INVARIANTS
  TypeOK
  Earned
  PanelConsistent
  RewardsConsistent
  LookMeansDone
PROPERTY
  HintPlayable
CHECK_DEADLOCK FALSE
