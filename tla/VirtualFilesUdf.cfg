SPECIFICATION Spec
CONSTANTS
  BlockSize = 2
  Heap = 3
  PartitionStart = 5
  DirectBlocks = 2
  IndirectBlocks = 1
  ExtentLimit = 3
  LeafStart = 3
  NameOrder <- MCNameOrder
  Lower <- MCLower
  MCKinds = {"udf"}
  Volumes <- MCVolumes
  Paths <- MCPaths
  Requests <- MCRequests
  Lengths = {1, 3, 12}
  Handles = {"h1", "h2"}
  Replaced <- MCReplaced
INVARIANT
  UdfReadsAtAnyOffset
