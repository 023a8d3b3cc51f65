\* Snapshots, deletions and flushes in the middle of compactions; outputs cut into files and
\* manual compactions of any range.
SPECIFICATION LevelsSpec
CONSTRAINT FewWrites
CONSTANTS
  Keys = {1, 2, 3}
  Types = {"value", "deletion"}
  kNumLevels = 4
  kMaxMemCompactLevel = 2
  Manual = TRUE
  MaxSequence = 4
  MaxSnapshots = 1
  MaxCuts = 1
INVARIANTS ReadsCorrect NewerAbove LevelsDisjoint
CHECK_DEADLOCK FALSE
