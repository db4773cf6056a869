SPECIFICATION FairSpec
CONSTANTS
  g1 = g1
  g2 = g2
  NoFile = NoFile
  Emitters = {g1, g2}
  QueueCap = 2
  MaxBytes = 4
  MaxEvents = 6
  MaxRestarts = 2
  FullLength <- MCFullLength
  CutLength <- MCCutLength
INVARIANTS
  TypeOK
  NoSendOnClosed
  FilesBounded
  RetainedIsRecent
  RetainsAFile
  CloseStoresAll
PROPERTIES
  ImplementsJournal
  CloseReturns
  AcceptedIsStored
CHECK_DEADLOCK FALSE
