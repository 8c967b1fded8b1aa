----------------------------- MODULE MCProcessStart -----------------------------
(***************************************************************************)
(* The instance of ProcessStart for TLC: one process migrates, another     *)
(* has found the database empty, and a third comes later.                  *)
(***************************************************************************)
EXTENDS ProcessStart

CONSTANTS p1, p2, p3
=================================================================================
