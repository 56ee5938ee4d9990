\* Power failures between any two block writes, on a disk the inserter has
\* formatted, with directory blocks that hold every name.
SPECIFICATION Spec
CONSTANTS
  BLOCK_SIZE = 64
  BLOCKS_PER_GROUP = 17
  INODES_PER_GROUP = 5
  INODES_TABLE_BLOCK_COUNT = 1
  INITIAL_USED_INODES = 2
  GROUPS_COUNT = 2
  NDirect = 1
  NIndirect = 1
  Names = {"a"}
  NameLen <- MCNameLen
  Chunks = {1, 2, 3}
  Contents <- TwoBlocks
  Kinds = {"file", "dir"}
  DeleteNames = {"a"}
  MaxCrashes = 2
  FormatByKernel = FALSE
INVARIANTS
  BlocksOwnedOnce NamesResolve MappedBlocksWritten CountersTrackBitmaps
PROPERTIES
  ImplementsFileSystem
