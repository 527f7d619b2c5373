SPECIFICATION Spec
CONSTANTS
  None = None
  Junk = Junk
  MaxRuns = 4
  VendorUnit = {TRUE, FALSE}
  Sources = {"elsewhere", "staged"}
  Faults <- AllFaults
  MayDie = TRUE
INVARIANTS
  TypeOK
  OkIsInForce
  OldProcessWasCarried
  GoneAfterUninstall
PROPERTIES
  ContractSpec
