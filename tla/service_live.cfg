SPECIFICATION FairSpec
CONSTANTS
  Procs <- MCProcs
  Scm = {"service"}
  Privileged = {"service"}
  Override = TRUE
  MaxFaults = 2
PROPERTIES StopCompletes BringUpSettles EnsureSettles
CHECK_DEADLOCK FALSE
