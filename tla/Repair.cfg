\* Failing writes of logs and MANIFEST files on Windows, a crash, and repairs.
CONSTANTS
  Env = "win"
  Crashes = {"process"}
  Faults = {"append", "manifest"}
  paranoid_checks = FALSE
  MaxSequence = 2
  MaxCrashes = 1
  MaxMoves = 0
  MaxFile = 9
  MaxRepairs = 2
  MaxDamage = 1
SPECIFICATION RSpec
INVARIANTS LostOnlyBehindTorn RepairRepeatable RepairedOpens
PROPERTIES NoTableOverwritten
CHECK_DEADLOCK FALSE
