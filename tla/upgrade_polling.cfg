SPECIFICATION FairSpec
CONSTANTS
  N = 1
  Kind <- UpgradeKind
  Resource <- OneResource
  Lanes <- OneLane
  LaneOf <- OneLaneOf
  LaneCap <- OneLaneSlots
  LaneWorkers <- OneLaneWorkers
  MaxReceipts = 4
  MaxFaults = 0
  MaxMishaps = 0
PROPERTY PollingGoesOn
