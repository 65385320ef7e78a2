SPECIFICATION Spec
CONSTANTS
  MBR_MAX_LOGICAL_PARTITIONS = 5
  None = None
  Blank = FALSE
  Machines <- MCMachines
  DefaultRoots <- MCRoots
  Fold <- MCFold
  NameOrder <- MCNameOrder
INVARIANTS
  ExtentsReachTheImage
  ListedOnce
  BootMediaComplete
  LinksReachTheirPartition
