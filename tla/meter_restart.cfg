SPECIFICATION FairSpec
CONSTANTS
  Snapshots <- OneCounter
  Capacity = 1
  MaxBatches = 2
  Enabled <- Both
  MaxEvents = 2
  MaxExits = 1
  MaxFaults = 0
  MaxTelemetry = 0
PROPERTIES ServesAgain
