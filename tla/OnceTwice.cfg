\* The initializer runs in two threads.
SPECIFICATION Spec
CONSTANTS
  Threads = {t1, t2, t3, t4}
  ONCE_STATE_UNINITIALIZED = 0
  ONCE_STATE_EXECUTING_CLOSURE = 1
  ONCE_STATE_DONE = 2
INVARIANTS RunsOnce
