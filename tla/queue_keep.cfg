SPECIFICATION FairSpec
CONSTANTS
  Batches = {"a", "b"}
  Size <- SizeByName
  MaxBytes = 2
  DropOldest = FALSE
  Delayed = TRUE
  MaxSeq = 3
  MaxCrashes = 1
  MaxFaults = 1
  MaxDenials = 1
  MaxEpoch = 1
INVARIANTS NoLoss RebuiltExactly
PROPERTY AcceptedIsSettled
CHECK_DEADLOCK FALSE
