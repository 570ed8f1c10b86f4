\* Prologs and epilogs of two jobs of one user beside a health check and mode switches.
CONSTANTS
  u1 = u1
  g1 = g1
  g2 = g2
  Users = {u1}
  Jobs = {g1, g2}
  GpuJobs = {g1, g2}
  Owner <- OneOwner
  MaxChanges = 3
  MaxFaults = 1
SPECIFICATION FairSpec
INVARIANTS TypeOK GrantedJobKeepsAcl AclEndsWithJobs
PROPERTIES MarkerFollowsScratch
