--------------------------- MODULE MCCaptureDrafts ---------------------------
(***************************************************************************)
(* The instance of CaptureDrafts for TLC: one draft, and as many requests  *)
(* as a start, two retries and two saves take.                             *)
(***************************************************************************)
EXTENDS CaptureDrafts, Sequences

CONSTANTS r1, r2, r3, r4, r5

\* Requests differ in nothing but their names, and none is obliged to begin: it
\* is enough to let them begin in one order.  (TLC checks no liveness under a
\* SYMMETRY.)  Bound: where all five have begun, nothing fails.
Order == <<r1, r2, r3, r4, r5>>
BegunInOrder ==
  /\ \A i, j \in 1..5 : i < j /\ ~At(Order[j], "idle") => ~At(Order[i], "idle")
  /\ ~At(r5, "idle") => faults = {}
=============================================================================
