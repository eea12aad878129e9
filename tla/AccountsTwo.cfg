\* Two devices, one tap each, a lost connection and a killed process.
SPECIFICATION Spec
CONSTANTS
  Devices = {d1, d2}
  Names = {ann, bob}
  Passwords = {pw}
  Stat = stat
  Missing = missing
  Fields <- MCFields
  FieldOrder <- MCFieldOrder
  MaxTaps = 1
  MaxScreens = 1
  MaxKills = 1
  MaxDrops = 1
INVARIANTS
  DenseIds
  IncompleteHeals
  UncontestedSurvive
CHECK_DEADLOCK FALSE
