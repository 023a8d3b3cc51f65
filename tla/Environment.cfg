\* Ten items on the background thread; Signal with up to four waiters, SignalAll with one as
\* a Writer's cv and the Env's bgsignal_ have; three users of the LOCK file; two mapped files.
SPECIFICATION EnvSpec
CONSTANTS
  MaxItems = 10
  Threads = {1, 2, 3, 4, 5}
  NULL = 0
  Waiters = {1, 2, 3, 4}
  MaxAll = 1
  Users <- ThreeUsers
  Inodes = {1, 2, 3, 4}
  Openers = {1, 2, 3, 4}
  MaxMaps = 2
INVARIANTS NoSleepOverWork RunsInOrder LockExact MapsBounded
PROPERTIES ImplementsContract SignalsReturn RunsAll
