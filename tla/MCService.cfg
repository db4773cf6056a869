SPECIFICATION Spec
CONSTANTS
  unit = unit
  hand = hand
  Procs = {unit, hand}
  Managed = unit
  MaxFaults = 2
  Absent = Absent
  Short = Short
  None = None
INVARIANTS
  OneIdentity
PROPERTIES
  ComesBack
CHECK_DEADLOCK FALSE
