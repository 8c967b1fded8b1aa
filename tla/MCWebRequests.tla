---------------------------- MODULE MCWebRequests ----------------------------
(***************************************************************************)
(* Instances of WebRequests for TLC: two tabs, and sessions for two        *)
(* sign-ins, each after its login page, with one more left: a form of the  *)
(* first can then be sent after the second.                                *)
(***************************************************************************)
EXTENDS WebRequests, TLC

CONSTANTS t1, t2, s1, s2, s3, s4, s5

MCTabs == {t1, t2}
MCSessions == {s1, s2, s3, s4, s5}
Symmetry == Permutations(MCTabs) \cup Permutations(MCSessions)
==============================================================================
