CONSTANTS
  None = None
  Procs = {p1}
  Slots = {j1, j2}
  BackupRequired = TRUE
  HookInstalled = TRUE
  WaiverAllowed = FALSE
  UserLeaves = FALSE
  Faults <- StaleFaults
  MaxFaults = 3
  MaxEdits = 3
  MaxHome = 0
SPECIFICATION Spec
PROPERTY RemovalAfterOwnJob
