------------------------- MODULE AccountRetirement -------------------------
(***************************************************************************)
(* What the offboarding of a user promises, without saying how.  A home    *)
(* directory is stored as an archive, an archive may be replicated by the  *)
(* site's backup hook, and the local account disappears only on the        *)
(* strength of an archive that is replicated, or that an administrator has *)
(* waived replication for.  Archives are kept for ever.                    *)
(* docs/decisions.md:416-417 states the promise; InactiveLifecycle is the  *)
(* code that has to keep it.                                               *)
(***************************************************************************)
CONSTANTS Archives,        \* the archive files a user can have
          BackupRequired   \* does the storage policy ask for replication?

VARIABLES account,      \* does the local account exist?
          stored,       \* the archives that are on disk
          replicated,   \* the archives a backup hook has copied away
          waived        \* the archives replication is waived for, now

vars == <<account, stored, replicated, waived>>

Init ==
  /\ account = TRUE
  /\ stored = {}
  /\ replicated = {}
  /\ waived = {}

Store(a) ==
  /\ stored' = stored \union {a}
  /\ UNCHANGED <<account, replicated, waived>>

Replicate(a) ==
  /\ a \in stored
  /\ replicated' = replicated \union {a}
  /\ UNCHANGED <<account, stored, waived>>

\* An administrator reviews a local-only token, or a review ends.
Review ==
  /\ waived' \in SUBSET Archives
  /\ UNCHANGED <<account, stored, replicated>>

Sufficient(a) == a \in stored /\ (BackupRequired => a \in replicated \union waived)

Remove(a) ==
  /\ account
  /\ Sufficient(a)
  /\ account' = FALSE
  /\ UNCHANGED <<stored, replicated, waived>>

Recreate ==
  /\ account' = TRUE
  /\ UNCHANGED <<stored, replicated, waived>>

Next ==
  \/ \E a \in Archives : Store(a) \/ Replicate(a) \/ Remove(a)
  \/ Review
  \/ Recreate

Spec == Init /\ [][Next]_vars
=============================================================================
