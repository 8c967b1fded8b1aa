--------------------------- MODULE MCBookmarkFiles ---------------------------
(***************************************************************************)
(* Instances of BookmarkFiles for TLC: one seeded bookmark, a draft        *)
(* started for it with another URL, and a second draft.                    *)
(***************************************************************************)
EXTENDS BookmarkFiles, TLC

CONSTANTS b1, d1, d2, home, moved

\* d1 was captured when the form of b1 was given the URL "moved"; d2 shows
\* "home" and is bound to b1 too.
MCSeedUrl == b1 :> home
MCDraftUrl == [d \in Drafts |-> IF d = d1 THEN moved ELSE home]
MCDraftBookmark == [d \in Drafts |-> b1]

RequestSymmetry == Permutations(Requests)
=============================================================================
