\* Two mounts, every starting state of their quotas, failures and reboots.
CONSTANTS
  None = None
  Mounts = {m1, m2}
  MaxFaults = 2
  MaxEvents = 2
SPECIFICATION FairSpec
INVARIANTS TypeOK ActivationIsPersistent
PROPERTIES EnabledIsTrue RestoredIsTrue RecoveryUndoes EnablingConverges
