---------------------------- MODULE MCCleanupQueue ----------------------------
(* Instances of CleanupQueue for TLC: a claim does not take all the records, *)
(* and processes start at the same time or minutes apart.                   *)
EXTENDS CleanupQueue, TLC

Interchangeable == Permutations(Records) \cup Permutations(Files) \cup Permutations(Workers)
=============================================================================
