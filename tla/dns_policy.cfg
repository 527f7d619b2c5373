SPECIFICATION Spec
CONSTANTS
  None = None
  Queries <- MCQueries
INVARIANTS
  TypeOK
  Policy
  OrdinaryFitsUdp
