CONSTANTS
  Starts <- MCStarts
  Sizes <- CloneSizes
  EntryBytes = 16384
  HeapOffset = 104
  SectorsPerCluster = 2
  FatLength = 80
  U32Max = 16384
  MaxFaults = 1
  MaxClones = 1
SPECIFICATION Spec
INVARIANTS
  TypeOK
  VolumeInsidePartition
  BitmapCoversClusters
  ReportedAtCapacity
  GrownIsDurable
  OneBootRegionValid
PROPERTIES
  BackupGptMissesData
  NeverShrinks
  GrowableBootGrows
  ImplementsGrowableVolume
