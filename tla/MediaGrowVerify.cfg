CONSTANTS
  Starts <- SoundStarts
  Sizes <- CloneSizes
  EntryBytes = 16384
  HeapOffset = 104
  SectorsPerCluster = 2
  FatLength = 80
  U32Max = 16384
  MaxFaults = 1
  MaxClones = 0
SPECIFICATION Spec
INVARIANTS
  AlreadyGrownVerifies
