\* Crashes of the process and of the machine, POSIX rename, no I/O errors.
CONSTANTS
  Env = "posix"
  Crashes = {"process", "machine"}
  Faults = {}
  paranoid_checks = FALSE
  MaxSequence = 3
  MaxCrashes = 2
  MaxMoves = 1
  MaxFile = 9
SPECIFICATION PosixSpec
INVARIANTS Recoverable Survives FreshNumbers
CHECK_DEADLOCK FALSE
