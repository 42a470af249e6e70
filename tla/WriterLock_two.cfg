SPECIFICATION RemovableLockSpec
CONSTANTS
  w1 = w1
  w2 = w2
  w3 = w3
  Procs = {w1, w2}
  None = None
  HostOf <- OneHost
  MaxPolls = 2
  Crashes = TRUE
  Exits = TRUE
  Ages = FALSE
  WriteErrors = TRUE
  UnlinkErrors = TRUE
INVARIANTS
  HolderOwnsFile
  MutualExclusion
PROPERTIES
  TakeOverIsSafe
  ImplementsStoreLock
  AcquireTerminates
CHECK_DEADLOCK FALSE
