----------------------------- MODULE MCTagWrites -----------------------------
(***************************************************************************)
(* The instance of TagWrites for TLC: three transactions are enough for a  *)
(* circle of two and of three, two tags for a wrong order.                 *)
(***************************************************************************)
EXTENDS TagWrites, Sequences

CONSTANTS x1, x2, x3, b1, b2, s1

\* Transactions differ in nothing but their names, and none is obliged to begin.
Order == <<x1, x2, x3>>
BegunInOrder ==
  \A i, j \in 1..3 : i < j /\ ~At(Order[j], "idle") => ~At(Order[i], "idle")
=============================================================================
