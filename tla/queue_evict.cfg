SPECIFICATION Spec
CONSTANTS
  Batches = {"a", "b", "large"}
  Size <- SizeByName
  MaxBytes = 2
  DropOldest = TRUE
  Delayed = FALSE
  MaxSeq = 4
  MaxCrashes = 0
  MaxFaults = 1
  MaxDenials = 0
  MaxEpoch = 0
INVARIANTS  WithinBudget
CHECK_DEADLOCK FALSE
