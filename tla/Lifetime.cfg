\* A memtable of three entries with a reader; a client, a flush, a compaction and file
\* deletion over three tables and a cache of one; two threads on two names of the MemEnv.
SPECIFICATION AnySpec
CONSTRAINT FewTables
CONSTANTS
  NULL = NULL
  kMaxHeight = 2
  Readers = {r1}
  head_ = head
  Garbage = Garbage
  Keys = {1, 2}
  MaxSequence = 3
  MaxMoves = 2
  Handles = {1, 2, 3, 4, 5, 6}
  Hash <- FileHash
  kMinLength = 1
  capacity_ = 1
  Clients = {c1}
  Objects = {1, 2, 3}
  MaxFile = 3
  MaxReads = 1
  MaxMerges = 1
  Names = {x, y}
  States = {1, 2}
  Threads = {11, 12}
  kBlockSize = 2
  Sizes = {1, 3}
  MaxSize = 3
INVARIANTS MemoryReadsExact ReferencesExact CacheExact FilesInTime InMemoryFilesExact
CHECK_DEADLOCK FALSE
