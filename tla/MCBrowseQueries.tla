--------------------------- MODULE MCBrowseQueries ---------------------------
(***************************************************************************)
(* Instances of BrowseQueries for TLC: two of the bookmarks have the same  *)
(* creation time, so that their ids decide.                                *)
(***************************************************************************)
EXTENDS BrowseQueries

CreatedTogether == [b \in Bookmarks |-> IF b < 3 THEN b ELSE b - 1]
=============================================================================
