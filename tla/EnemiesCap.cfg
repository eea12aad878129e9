\* Two devices side by side; one firing of the timer each.
SPECIFICATION Spec
CONSTANTS
  d1 = d1
  d2 = d2
  Devices = {d1, d2}
  Fields <- MCFields
  FieldOrder <- MCFieldOrder
  LocationFields <- MCLocationFields
  Places <- MCPlaces
  Distance <- MCDistance
  UserPlaces <- MCPlaces
  Stat = stat
  Missing = missing
  Limit = 1
  MaxSpawns = 2
  MaxTicks <- MCOneEach
  MaxVisits <- MCNone
  MaxKills = 0
  MaxDrops = 0
  Buttons = {}
SYMMETRY Symmetry
INVARIANTS
  NearLimit
CHECK_DEADLOCK FALSE
