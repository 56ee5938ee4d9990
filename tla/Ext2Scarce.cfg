\* Files only, on a disk that fills up: few blocks, few inodes, one block of
\* names beside the one that holds "." and "..".
SPECIFICATION FairSpec
CONSTANTS
  BLOCK_SIZE = 28
  BLOCKS_PER_GROUP = 12
  INODES_PER_GROUP = 5
  INODES_TABLE_BLOCK_COUNT = 1
  INITIAL_USED_INODES = 2
  GROUPS_COUNT = 2
  NDirect = 2
  NIndirect = 2
  Names = {"a", "b"}
  NameLen <- MCNameLen
  Chunks = {1, 2, 3}
  Contents <- LongContents
  Kinds = {"file"}
  DeleteNames = {"a", "b"}
  MaxCrashes = 0
  FormatByKernel = FALSE
INVARIANTS
  IndicesInBounds CountersTrackBitmaps
PROPERTIES
  ImplementsTruncatingFileSystem CallsReturn
