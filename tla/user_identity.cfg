\* Two users whose entries change, one step by hand and one failure.
CONSTANTS
  None = None
  alice = alice
  bob = bob
  lab = lab
  UserOrder <- Names
  Projects = {lab}
  MaxId = 4
  Rows <- UserRows
  FirstDoc <- StartDoc
  MaxEdits = 3
  MaxByHand = 1
  MaxFaults = 1
CHECK_DEADLOCK FALSE
SPECIFICATION Spec
INVARIANTS TypeOK TombstoneKeepsUid
PROPERTIES ReturnsAsHimself SyncReconciles
