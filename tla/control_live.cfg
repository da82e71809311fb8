SPECIFICATION FairSpec
CONSTANTS
  N = 2
  Kind <- MixedKind
  Resource <- OneResource
  Lanes <- OneLane
  LaneOf <- OneLaneOf
  LaneCap <- OneLaneSlots
  LaneWorkers <- OneLaneWorkers
  MaxReceipts = 3
  MaxFaults = 0
  MaxMishaps = 1
INVARIANT RunningIsOwned
PROPERTIES  PollingGoesOn
