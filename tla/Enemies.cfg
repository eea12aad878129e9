\* Two devices: the timer of one finds an enemy, the user of the other may battle it or
\* add one with the button; a lost connection and a killed process.
SPECIFICATION FairSpec
CONSTANTS
  d1 = d1
  d2 = d2
  Devices = {d1, d2}
  Fields <- MCFields
  FieldOrder <- MCFieldOrder
  LocationFields <- MCLocationFields
  Places <- MCPlaces
  Distance <- MCDistance
  UserPlaces <- MCPlaces
  Stat = stat
  Missing = missing
  Limit = 1
  MaxSpawns = 1
  MaxTicks <- MCTickOfOne
  MaxVisits <- MCVisitOfOther
  MaxKills = 1
  MaxDrops = 1
  Buttons = {d2}
INVARIANTS
  TypeOK
  IncompleteHeals
  DefeatedStayAway
  UndefeatedSurvive
PROPERTIES
  SpawnedIsStored
  DefeatedIsGone
CHECK_DEADLOCK FALSE
