\* port/env_win.cc RenameFile: the database is reopened while CURRENT is away.
CONSTANTS
  Env = "win"
  Crashes = {"process"}
  Faults = {}
  paranoid_checks = FALSE
  MaxSequence = 1
  MaxCrashes = 2
  MaxMoves = 0
  MaxFile = 9
SPECIFICATION Spec
INVARIANTS Survives
CHECK_DEADLOCK FALSE
