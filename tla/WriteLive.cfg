\* Writers and manual compactions with every kind of I/O failure, until the database is closed.
SPECIFICATION FairSpec
CONSTANTS
  t1 = t1  t2 = t2  t3 = t3
  Threads = {t1, t2}
  NULL = NULL
  Calls <- ManualCalls
  MaxCalls = 2
  MaxCount = 2
  Faults = {"append", "sync", "newlog", "table", "manifest", "merge"}
  write_buffer_size = 1
  kSmallGroup = 2
  kMaxGroup = 4
  kL0_CompactionTrigger = 1
  kL0_SlowdownWritesTrigger = 1
  kL0_StopWritesTrigger = 2
INVARIANTS CancelledOnlyAfterError
PROPERTIES EverybodyReturns
