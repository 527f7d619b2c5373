SPECIFICATION Spec
CONSTANTS
  Ips = {ip1, ip2}
  Never = Never
  Elsewhere = Elsewhere
  Oses <- AllOses
  Priors <- AllPriors
  MaxRuns = 3
  MaxFaults = 2
SYMMETRY Symmetric
INVARIANTS
  TypeOK
  ZeroResidue
  ActivationLasts
PROPERTIES
  OthersKept
  RerunChangesNothing
CHECK_DEADLOCK FALSE
