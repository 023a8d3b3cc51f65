\* Group commit, memtable switches, flushes, compactions and close with every kind of I/O
\* failure: three calls in all by up to three threads.
SPECIFICATION Spec
CONSTRAINT FewCalls
CONSTANTS
  t1 = t1  t2 = t2  t3 = t3
  Threads = {t1, t2, t3}
  NULL = NULL
  Calls <- GroupCalls
  MaxCalls = 2
  MaxCount = 2
  Faults = {"append", "sync", "newlog", "table", "manifest", "merge"}
  write_buffer_size = 1
  kSmallGroup = 2
  kMaxGroup = 4
  kL0_CompactionTrigger = 1
  kL0_SlowdownWritesTrigger = 1
  kL0_StopWritesTrigger = 1
SYMMETRY Symmetry
INVARIANTS TypeOK NoLostWakeup OneLogger FreshNumbers SyncHonoured AckedIsReadable
  WorkIsScheduled OneJob Level0Bounded
PROPERTIES StableReads
