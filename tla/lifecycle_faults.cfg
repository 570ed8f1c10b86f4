\* Every kind of failure, twice.
CONSTANTS
  None = None
  Procs = {p1}
  Slots = {j1, j2}
  BackupRequired = TRUE
  HookInstalled = TRUE
  WaiverAllowed = TRUE
  UserLeaves = TRUE
  Faults <- FaultKinds
  MaxFaults = 2
  MaxEdits = 2
  MaxHome = 0
SYMMETRY SlotSymmetry
SPECIFICATION Spec
INVARIANTS TypeOK ReportsAreTrue RemovedUserIsRestorable
PROPERTIES RemovalHasEvidence KeepsPromise
