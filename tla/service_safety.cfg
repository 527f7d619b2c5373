SPECIFICATION Spec
CONSTANTS
  Procs <- MCProcs
  Scm = {"service"}
  Privileged <- MCProcs
  Override = FALSE
  MaxFaults = 1
INVARIANTS TypeOK SocketsAccounted RecordAccounted ScmToldTheTruth
CHECK_DEADLOCK FALSE
