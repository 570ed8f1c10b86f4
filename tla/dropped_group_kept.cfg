\* A group that leaves users.yml together with its membership.
CONSTANTS
  None = None
  alice = alice
  bob = bob
  lab = lab
  UserOrder <- Names
  Projects = {lab}
  MaxId = 4
  Rows <- MemberRows
  FirstDoc <- StartDoc
  MaxEdits = 4
  MaxByHand = 0
  MaxFaults = 0
CHECK_DEADLOCK FALSE
SPECIFICATION Spec
PROPERTY GroupsFieldIsAuthoritative
