CONSTANTS
  Work <- AllJobs
  MaxAttempts = 3
  MaxTries = 3
  MaxFaults = 4

SPECIFICATION FairSpec
CHECK_DEADLOCK FALSE

INVARIANTS
  SuccessIsTrue
  RefusalsComeFirst
  
  CopiesComeFromLostAnswers

PROPERTIES
  EveryDeliveryEnds
