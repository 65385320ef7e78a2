\* A disk that could not be built is not used: the attempt ends.
CHECK_DEADLOCK FALSE
CONSTANTS
  Volumes <- MCVolumes
  Plugins <- MCPlugins
  Listing <- MCListing
  PhysicalBlock = 2
  DeviceBlocks = 31
  IsoSector = 4
  VhdBitmap = 1
  ChunkRatio = 2
  MaxParentDepth = 3
  MaxRead = 3
SPECIFICATION Spec
INVARIANTS
  ReadsReturnTheImage
  ReadableEverywhere
  ReplacementsAreIntact
