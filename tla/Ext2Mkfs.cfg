\* Power failure while the kernel formats a blank disk.
SPECIFICATION Spec
CONSTANTS
  BLOCK_SIZE = 28
  BLOCKS_PER_GROUP = 12
  INODES_PER_GROUP = 5
  INODES_TABLE_BLOCK_COUNT = 1
  INITIAL_USED_INODES = 2
  GROUPS_COUNT = 2
  NDirect = 2
  NIndirect = 2
  Names = {"a", "b"}
  NameLen <- MCNameLen
  Chunks = {1, 2, 3}
  Contents <- LongContents
  Kinds = {"file"}
  DeleteNames = {"a", "b"}
  MaxCrashes = 1
  FormatByKernel = TRUE
INVARIANT
  MountedHasRoot
