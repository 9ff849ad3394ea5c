---------------------------- MODULE MCBuildJobs ----------------------------
(***************************************************************************)
(* Instances of BuildJobs for TLC.  Commits are interchangeable.           *)
(***************************************************************************)
EXTENDS BuildJobs, TLC

Symmetry == Permutations(Commits)
============================================================================
