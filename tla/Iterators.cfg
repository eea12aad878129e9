\* Two user keys, two entries in the table and two more written while the user walks.
SPECIFICATION Spec
CONSTANTS
  UserKeys = {1, 2}
  TableSize = 2
  Layouts <- MCLayouts
  MaxWrites = 2
  MaxHeight = 2
  Keys <- MCKeys
  Less <- MCLess
  Head = Head
  Nil = Nil
INVARIANTS
  ListsInOrder
PROPERTIES
  ImplementsCursor
  SnapshotStays
  WalksSnapshot
CHECK_DEADLOCK FALSE
