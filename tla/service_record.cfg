SPECIFICATION Spec
CONSTANTS
  Procs <- MCProcs
  Scm = {"service"}
  Privileged <- MCProcs
  Override = FALSE
  MaxFaults = 0
INVARIANT RecordWhileServing
CHECK_DEADLOCK FALSE
