SPECIFICATION Spec
CONSTANTS
  MaxFaults = 3
  MaxActs = 2
INVARIANTS OriginalSurvives
PROPERTIES NoDanglingReference OutcomeIsTrue 
CHECK_DEADLOCK FALSE
