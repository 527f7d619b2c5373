SPECIFICATION FairSpec
CONSTANTS
  None = None
  REMOVAL_POLL_ATTEMPTS = 3
  MaxRuns = 5
  MaxFaults = 4
INVARIANTS
  TypeOK
  CreateFindsNone
  UninstalledForGood
PROPERTIES
  EveryCommandEnds
  ContractSpec
