SPECIFICATION FairSpec
CONSTANTS
  Snapshots <- TwoCounters
  Capacity = 1
  MaxBatches = 2
  Enabled <- Both
  MaxEvents = 1
  MaxExits = 2
  MaxFaults = 1
  MaxTelemetry = 1
INVARIANTS UsageSubtractable BaselineBacked IncidentsTruthful SequencesIncrease
 
