SPECIFICATION FairSpec
CONSTANTS
  Requests = {r1}
  Doctors = {d1}
  None = None
  TIER_TIMEOUT = 3
  PROBE_TIMEOUT = 2
INVARIANTS
  TypeOK
  PlaintextIsLast
  VerdictTrue
  FailureExplained
PROPERTIES
  EveryLookupEnds
