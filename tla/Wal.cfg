\* Records of up to three blocks, failures of every kind.
SPECIFICATION Spec
CONSTANTS
  BlockSize = 6
  HeaderSize = 3
  Lengths = {0, 1, 3, 7}
  MaxRecords = 3
  MaxFailures = 1
  MaxDamage = 1
  ReuseLogs = TRUE
INVARIANTS
  WholeRecords
  ReadBack
  DamageConfined
  StartAnywhere
CHECK_DEADLOCK FALSE
