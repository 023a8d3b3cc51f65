\* SignalAll with two waiters, as bg_cv_ can have.
SPECIFICATION CondFairSpec
CONSTANTS
  Threads = {1, 2, 3}
  NULL = 0
  Waiters = {1, 2}
  MaxAll = 2
CHECK_DEADLOCK FALSE
PROPERTIES SignalAllReturns
