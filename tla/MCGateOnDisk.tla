---------------------------- MODULE MCGateOnDisk ----------------------------
(***************************************************************************)
(* An instance of GateOnDisk for TLC.                                      *)
(***************************************************************************)
EXTENDS GateOnDisk, TLC

\* No definition chooses among slugs, artifacts, hashes, tasks or uploads.
Symmetric == Permutations(Slugs) \cup Permutations(Artifacts)
             \cup Permutations(Hashes) \cup Permutations(Tasks)
             \cup Permutations(Uploaders)
=============================================================================
