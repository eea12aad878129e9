\* Two devices sign up at the same time.
SPECIFICATION Spec
CONSTANTS
  Devices = {d1, d2}
  Names = {ann, bob}
  Passwords = {pw}
  Stat = stat
  Missing = missing
  Fields <- MCFields
  FieldOrder <- MCFieldOrder
  MaxTaps = 1
  MaxScreens = 1
  MaxKills = 0
  MaxDrops = 0
INVARIANTS
  SuccessMeansAccount
CHECK_DEADLOCK FALSE
