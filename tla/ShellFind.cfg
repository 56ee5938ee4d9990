\* Two directories in a root of two blocks, each with room for one name beside
\* the dots, and a search for a name that is not there.
SPECIFICATION ShellFairSpec
CONSTANTS
  BLOCK_SIZE = 36
  BLOCKS_PER_GROUP = 14
  INODES_PER_GROUP = 5
  INODES_TABLE_BLOCK_COUNT = 1
  INITIAL_USED_INODES = 2
  GROUPS_COUNT = 2
  NDirect = 2
  NIndirect = 1
  Names = {"d", "f", "x"}
  NameLen <- MCNameLen
  Chunks = {"x", "0"}
  Contents <- MCContents
  Kinds = {"file", "dir"}
  DeleteNames = {"d", "f", "x"}
  MaxCrashes = 0
  FormatByKernel = FALSE
  Commands <- Searching
  DIR_BUFFER_BLOCKS = 2
  FILE_BUFFER_BLOCKS = 1
  FIND_MAX_DEPTH = 3
  ZeroChunk = "0"
  MaxPath = 1
PROPERTIES
  FindEnds
