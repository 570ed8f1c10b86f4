\* Two cleanup commands with one token, reports and links that change under them.
CONSTANTS
  None = None
  u1 = u1
  tmp1 = tmp1
  tmp2 = tmp2
  home1 = home1
  plan1 = plan1
  Users = {u1}
  Entries = {tmp1, tmp2, home1, plan1}
  Place <- MCPlace
  Owner <- MCOwner
  Fixtures = {home1}
  Artifacts = {plan1}
  Tokens = {t1}
  Commands = {p1, p2}
  Kinds <- MCKinds
  Bodies <- MCBodies
  Risks <- MCRisks
  Configs = {h1}
  MaxCrashes = 1
  MaxEvents = 2
  MaxFaults = 1
SPECIFICATION Spec
INVARIANTS TypeOK SingleUse AdmittedAsReviewed
PROPERTIES DeletedWasReviewed SteadyJobsKeepFiles KeepsTokenProtocol
SYMMETRY Interchangeable
CHECK_DEADLOCK FALSE
