--------------------------- MODULE MCConfiguration ---------------------------
(* Instances of Configuration for TLC: two updates, over two values of each *)
(* group of settings.                                                      *)
EXTENDS Configuration, TLC

RequestSymmetry == Permutations(Requests)
=============================================================================
