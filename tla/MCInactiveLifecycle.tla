------------------------ MODULE MCInactiveLifecycle ------------------------
(***************************************************************************)
(* Instances of InactiveLifecycle for TLC: which failures may happen.      *)
(***************************************************************************)
EXTENDS InactiveLifecycle, TLC

\* Failures a rerun has to cope with: all but those that leave an archive job
\* of an earlier run behind, or the account unlocked.
OrderlyFaults == FaultKinds \ {"crash", "squeue", "timeout", "joblost", "usermod"}
StaleFaults == {"squeue", "userdel"}
NoFaults == {}

\* Archive jobs are interchangeable; used for safety properties only.
SlotSymmetry == Permutations(Slots)
=============================================================================
