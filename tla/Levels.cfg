\* Three user keys, four writes, a snapshot and three compactions.
SPECIFICATION Spec
CONSTANTS
  Keys = {1, 2, 3}
  Top = 3
  MaxMemLevel = 2
  Trigger = 2
  LevelSize = 2
  FileSize = 2
  OverlapLimit = 1
  ExpandLimit = 6
  MaxWrites = 4
  MaxSnapshots = 1
  MaxCompactions = 3
INVARIANTS
  LevelsDisjoint
  ReadsNewestIfWhole
CHECK_DEADLOCK FALSE
