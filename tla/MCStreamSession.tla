---------------------------- MODULE MCStreamSession ----------------------------
(***************************************************************************)
(* Instances of StreamSession for TLC.                                     *)
(***************************************************************************)
EXTENDS StreamSession, TLC

Interchangeable == Permutations(Streams) \cup Permutations(Sessions)
=============================================================================
