SPECIFICATION BotSpec
CONSTANTS
  None = None
  NoDir = NoDir
  Worlds <- MCReserved
  Lines <- MCLines
  Sorted <- MCSorted
PROPERTY
  AnswersOpen
