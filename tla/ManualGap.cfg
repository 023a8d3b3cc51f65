\* A manual compaction of two tables, and a flush into the gap between them.
SPECIFICATION Spec
CONSTANTS
  Keys = {1, 2, 3}
  Types = {"value"}
  kNumLevels = 4
  kMaxMemCompactLevel = 2
  Manual = TRUE
  MaxSequence = 4
  MaxSnapshots = 0
  MaxCuts = 1
CHECK_DEADLOCK FALSE
INVARIANTS LevelsDisjoint
