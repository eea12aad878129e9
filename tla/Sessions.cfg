\* Two devices, an account with a location and one without.
SPECIFICATION Spec
CONSTANTS
  Devices = {d1, d2}
  Ids = {u1, u2}
  Passwords = {p1, p2}
  FirstPassword = p1
  Places = {here, there}
  Unlocated = {u2}
  Played = {u1}
  Missing = missing
  Fields <- MCFields
  MaxTaps = 4
  MaxKills = 1
  MaxDrops = 1
SYMMETRY MCSymmetry
INVARIANTS
  TypeOK
  EarnedIsStored
  NothingInvented
  PasswordIsChosen
  LocationHeals
  OwnPasswordHolds
CHECK_DEADLOCK FALSE
