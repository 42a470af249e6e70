CONSTANTS
  Names <- MCNames
  Scans <- MCScans
  Broken = Broken
  MaxRemovals = 1
SPECIFICATION Spec
INVARIANTS
  SourcesAreListed
  PackagesOwnTheirFiles
CHECK_DEADLOCK FALSE
