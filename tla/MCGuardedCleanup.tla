-------------------------- MODULE MCGuardedCleanup --------------------------
(***************************************************************************)
(* An instance of GuardedCleanup for TLC: two files of a user, a fixture   *)
(* directory below /scratch, and an artifact in a production root.         *)
(***************************************************************************)
EXTENDS GuardedCleanup, TLC

CONSTANTS u1, tmp1, tmp2, home1, plan1

MCPlace == [e \in Entries |-> CASE e = home1 -> "scratch" [] e = plan1 -> "prod" [] OTHER -> "user"]
MCOwner == [e \in Entries |-> u1]
MCBodies == [root : Roots, users : SUBSET Users, candidates : SUBSET Entries]
MCKinds == {"scratch", "retention"}
MCRisks == {"scratch_cleanup", "fixture_scratch_cleanup", "retention_delete"}
Interchangeable == Permutations(Tokens) \cup Permutations(Commands) \cup Permutations({tmp1, tmp2})
=============================================================================
