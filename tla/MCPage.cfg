SPECIFICATION DashSpec
CONSTANTS
  g1 = g1
  c1 = c1
  c2 = c2
  NoFile = NoFile
  NoSession = NoSession
  Emitters = {g1}
  QueueCap = 1
  MaxBytes = 6
  MaxEvents = 5
  MaxRestarts = 1
  FullLength <- MCFullLength
  CutLength <- MCCutLength
  Conns = {c1}
  ListenerSlots = 1
  HandlerSlots = 1
  TailBytes = 5
  MaxToken = 4
  Window = 2
  Keep = 2
  PageSize = 1
  TimeOf <- MCTimeOf
  SessionOf <- MCSessionOf
  KindOf <- MCKindOf
INVARIANT LastSessions
CHECK_DEADLOCK FALSE
