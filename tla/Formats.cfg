SPECIFICATION Spec
CONSTANTS
  kLogBlockSize = 10
  kHeaderSize = 3
  Lengths = {0, 1, 4, 7, 16}
  MaxRecords = 3
  Uint64 = 524288
  Tags = {1, 2}
  MaxByte = 2
  MaxTag = 3
  BlockSizes = {16, 30}
  block_restart_interval = 2
  kFilterBase = 8
  bits_per_key = 4
  MinBits = 8
  HashBits = 8
  MaxEntries = 4
  FailingAppends = {0, 3}
  Numbers = {0, 3, 4, 524286}
  Levels = {0, 6}
  kNumLevels = 7
  MaxOps = 2
  B = 4
  Uint32 = 512
  Digits = {0, 2, 4, 5, 7, 8}
  MaxDigits = 6
  kArenaBlockSize = 16
  align = 4
  Sizes = {1, 3, 4, 5, 9}
  MaxAllocations = 4
  BlockLen = 4
  NumSeqs = 3
  Keys = {1, 2}
INVARIANTS LogExact TableExact RecordsReadBack PiecesExact IteratorsExact
PROPERTIES ErrorSticks
CHECK_DEADLOCK FALSE
