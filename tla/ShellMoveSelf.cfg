\* mv f f.
SPECIFICATION ShellSpec
CONSTANTS
  BLOCK_SIZE = 100
  BLOCKS_PER_GROUP = 11
  INODES_PER_GROUP = 5
  INODES_TABLE_BLOCK_COUNT = 1
  INITIAL_USED_INODES = 2
  GROUPS_COUNT = 2
  NDirect = 1
  NIndirect = 1
  Names = {"d", "f"}
  NameLen <- MCNameLen
  Chunks = {"x", "0"}
  Contents <- MCContents
  Kinds = {"file", "dir"}
  DeleteNames = {"d", "f"}
  MaxCrashes = 0
  FormatByKernel = FALSE
  Commands <- Renaming
  DIR_BUFFER_BLOCKS = 1
  FILE_BUFFER_BLOCKS = 1
  FIND_MAX_DEPTH = 3
  ZeroChunk = "0"
  MaxPath = 1
INVARIANTS
  MovedIsThere
