CONSTANTS
  HandshakeTimeout = 2
  IdleTimeout = 2
  MaxLifetime = 3
  ProbeTimeout = 1
  MaxTime = 4
  MaxRead = 7
  MaxWrite = 5
  LineMax = 3
  CommandsPerMinute = 2
  Minute = 2
  SessionCommands = 4
  HeaderMax = 6
  MaxSends = 3
  QueueCap = 1
  MaxGlobals = 1
  MaxBefore = 2
  MaxDuring = 1
  MaxPackets = 4
  Kinds = {"tcp", "tls", "ssh"}
  Openings <- MCOpenings
  Fragments <- MCFragments
  Typing <- MCTyping
SPECIFICATION Spec
INVARIANTS StreamIntact ServedAsAsked OpeningBounded LinesOfStream CommandsBounded SessionEndsFirst
PROPERTIES CutWhenIdle ConnectionEnds
CHECK_DEADLOCK FALSE
