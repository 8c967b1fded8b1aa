----------------------------- MODULE MCCaptureForm -----------------------------
(***************************************************************************)
(* The instances of CaptureForm for TLC: the add page, and the edit page   *)
(* of a bookmark.  Two captures are enough for one in the form and one     *)
(* under way, or for one under way and one queued behind it.               *)
(***************************************************************************)
EXTENDS CaptureForm, TLC

CONSTANTS a, b, c1, c2

MCUrls == {a, b}
MCCaptures == {c1, c2}
\* The add page, and the edit page of a bookmark.
MCBookmarkUrls == {NoUrl, a, b}
Symmetry == {p @@ q : p \in Permutations(MCCaptures), q \in Permutations(MCUrls)}
=============================================================================
