SPECIFICATION Spec
CONSTANTS
  MaxKills = 0
  MaxFaults = 0
INVARIANT HandoffHonoured
CHECK_DEADLOCK FALSE
