SPECIFICATION Spec
CONSTANTS
  Interfaces = {i1, i2}
  Families = {v4, v6}
  InitialOptions <- OffOrOpen
  MaxStarts = 2
  MaxFaults = 1
  MaxCrashes = 1
  MaxMeddles = 1
SYMMETRY Alike
INVARIANTS  JournalTellsTruth
PROPERTIES HandoverOrder NoWayBack AdminPreserved
CHECK_DEADLOCK FALSE
