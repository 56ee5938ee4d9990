\* Ample blocks, directories that grow, no power failure.
SPECIFICATION Spec
CONSTANTS
  BLOCK_SIZE = 36
  BLOCKS_PER_GROUP = 15
  INODES_PER_GROUP = 4
  INODES_TABLE_BLOCK_COUNT = 1
  INITIAL_USED_INODES = 2
  GROUPS_COUNT = 2
  NDirect = 2
  NIndirect = 1
  Names = {"a", "b"}
  NameLen <- MCNameLen
  Chunks = {1, 2, 3}
  Contents <- ShortContents
  Kinds = {"file", "dir"}
  DeleteNames = {"a", "b"}
  MaxCrashes = 0
  FormatByKernel = TRUE
INVARIANTS
  RecordsTile DotsLeadHome NothingLeaks
PROPERTIES
  ImplementsFileSystem
