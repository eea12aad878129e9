\* One device: two taps, a lost connection and a killed process.
SPECIFICATION FairSpec
CONSTANTS
  Devices = {d1}
  Names = {ann, bob}
  Passwords = {pw}
  Stat = stat
  Missing = missing
  Fields <- MCFields
  FieldOrder <- MCFieldOrder
  MaxTaps = 2
  MaxScreens = 2
  MaxKills = 1
  MaxDrops = 1
INVARIANTS
  SuccessMeansAccount
  OverlayIsReplay
  ReadsOwnAccount
PROPERTIES
  RequestsAnswered
  AnnouncedIsStored
CHECK_DEADLOCK FALSE
