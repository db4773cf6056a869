SPECIFICATION BotSpec
CONSTANTS
  None = None
  NoDir = NoDir
  Worlds <- MCWorlds
  Lines <- MCLines
  Sorted <- MCSorted
PROPERTIES
  GuideSettles
  GuideCompletes
