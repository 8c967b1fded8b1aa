---------------------------- MODULE MCCapturePool ----------------------------
(* Instances of CapturePool for TLC: two slots, and more captures than that, *)
(* two of them retries of one draft.                                        *)
EXTENDS CapturePool

CONSTANTS c1, c2, c3, c4, d1, d2, d3

MCSession == [c \in Captures |-> CASE c = c1 -> d1 [] c = c2 -> d1 [] c = c3 -> d2 [] OTHER -> d3]
=============================================================================
