SPECIFICATION Spec
CONSTANTS
  N = 2
  Kind <- MutateKind
  Resource <- OneResource
  Lanes <- OneLane
  LaneOf <- OneLaneOf
  LaneCap <- OneLaneSlots
  LaneWorkers <- OneLaneWorkers
  MaxReceipts = 3
  MaxFaults = 1
  MaxMishaps = 1
INVARIANTS TypeOK AtMostOnceExecution   CursorBehindReceipts AuditPrecedesReceipt
PROPERTIES TerminalIsFinal ImplementsLedger
