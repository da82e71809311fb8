SPECIFICATION FairSpec
CONSTANTS
  MaxKills = 2
  MaxFaults = 1
INVARIANTS NoEarlyAnswer SuccessIsEarned 
PROPERTY UpgradeAnswered
CHECK_DEADLOCK FALSE
