SPECIFICATION Spec
CONSTANTS
  MBR_MAX_LOGICAL_PARTITIONS = 5
  None = None
  Blank = TRUE
  Machines <- MCMachines
  DefaultRoots <- MCRoots
  Fold <- MCFold
  NameOrder <- MCNameOrder
INVARIANTS
  RawScanStaysOnBootMedia
CHECK_DEADLOCK FALSE
