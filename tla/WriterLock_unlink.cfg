SPECIFICATION FairLockSpec
CONSTANTS
  w1 = w1
  w2 = w2
  w3 = w3
  Procs = {w1, w2}
  None = None
  HostOf <- OneHost
  MaxPolls = 1
  Crashes = TRUE
  Exits = TRUE
  Ages = FALSE
  WriteErrors = FALSE
  UnlinkErrors = TRUE
PROPERTY
  AcquireTerminates
CHECK_DEADLOCK FALSE
