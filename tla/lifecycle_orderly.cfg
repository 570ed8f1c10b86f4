\* Failures that leave no orphaned archive job, and a user who has left.
CONSTANTS
  None = None
  Procs = {p1}
  Slots = {j1}
  BackupRequired = TRUE
  HookInstalled = TRUE
  WaiverAllowed = TRUE
  UserLeaves = TRUE
  Faults <- OrderlyFaults
  MaxFaults = 2
  MaxEdits = 3
  MaxHome = 1
SPECIFICATION FairSpec
PROPERTIES RemovedHomeIsCurrent PruneOnlyWhileLocked Converges
