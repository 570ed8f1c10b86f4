\* One command at a time, with every failure, twice.
CONSTANTS
  None = None
  Procs = {w1}
  CpuJobs = {c1}
  GpuJobs = {g1}
  Modes <- AllModes
  Kinds <- AllKinds
  SmokeTests = TRUE
  Faults <- FaultKinds
  MaxFaults = 2
  MaxRuns = 3
SPECIFICATION FairSpec
INVARIANTS TypeOK DrainedMeansIdle OperatorDrainSurvives DrainIsUndoneOrReported OverlayIsOnRecord
PROPERTIES HeldJobsComeBack NoJobStartsBesideWork CommandsEnd
