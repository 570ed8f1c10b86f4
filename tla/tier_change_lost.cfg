\* A sync that runs beside one tier change; nobody edits, nothing fails.
CONSTANTS
  None = None
  Users = {u1, u2}
  Restless = {u1}
  Tiers = {t1, t2}
  MaxUid = 3
  MaxDay = 0
  MaxWork = 0
  MaxEdits = 0
  MaxTierChanges = 1
  MaxFaults = 0
  MaxEvents = 3
SPECIFICATION Spec
PROPERTY TierChangeStays
