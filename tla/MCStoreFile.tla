----------------------------- MODULE MCStoreFile -----------------------------
(***************************************************************************)
(* An instance of StoreFile, and of PowerLoss on top of it, for TLC.       *)
(***************************************************************************)
EXTENDS PowerLoss, TLC

\* No definition chooses among tasks, or among contents other than Empty.
Symmetric == Permutations(Tasks) \cup Permutations(Contents \ {Empty})
=============================================================================
