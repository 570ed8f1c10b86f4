\* Two users and two tiers; the row of one user is edited twice, his tier is changed once,
\* one command fails and one night passes, at most three of these together.
CONSTANTS
  None = None
  Users = {u1, u2}
  Restless = {u1}
  Tiers = {t1, t2}
  MaxUid = 3
  MaxDay = 1
  MaxWork = 1
  MaxEdits = 2
  MaxTierChanges = 1
  MaxFaults = 1
  MaxEvents = 3
SPECIFICATION FairSpec
INVARIANTS TypeOK
PROPERTIES DeletedHomeIsArchived SyncReconciles Converges
