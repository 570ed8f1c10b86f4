----------------------------- MODULE MCJobScratch ---------------------------
(***************************************************************************)
(* An instance of JobScratch for TLC: jobs of one user.  Jobs of different *)
(* users share the marker and nothing else.                                *)
(***************************************************************************)
EXTENDS JobScratch

CONSTANTS u1, g1, g2

OneOwner == [j \in Jobs |-> u1]
=============================================================================
