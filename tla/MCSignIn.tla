------------------------------- MODULE MCSignIn -------------------------------
(* Instances of SignIn for TLC.  The limits are scaled down: 3 failures     *)
(* within 2 instants block for 3.                                          *)
EXTENDS SignIn, TLC

Interchangeable == Permutations(Sessions) \cup Permutations(Handlers)
=============================================================================
