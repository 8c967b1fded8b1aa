SPECIFICATION FormSpec
CONSTANTS
  a = a
  b = b
  c1 = c1
  c2 = c2
  Urls <- MCUrls
  Captures <- MCCaptures
  BookmarkUrls <- MCBookmarkUrls
  NoUrl = NoUrl
  NoCapture = NoCapture
  NoRequest = NoRequest
  Refusals = {"refusal"}
SYMMETRY Symmetry
CHECK_DEADLOCK FALSE
INVARIANT ShotsBelong
INVARIANT ShownIsStored
