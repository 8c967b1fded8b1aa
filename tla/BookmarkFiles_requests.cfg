SPECIFICATION Spec
CONSTANTS
  Requests = {r1, r2, r3}
  Seeds = {b1}
  Drafts = {d1, d2}
  Urls = {home, moved}
  b1 = b1
  d1 = d1
  d2 = d2
  home = home
  moved = moved
  SeedUrl <- MCSeedUrl
  DraftUrl <- MCDraftUrl
  DraftBookmark <- MCDraftBookmark
  Faults = {"db", "lost_reply", "rename", "restore", "unlink", "crash"}
  MaxFaults = 2
  NoKey = NoKey
  NoDraft = NoDraft
  NoBookmark = NoBookmark
SYMMETRY RequestSymmetry
INVARIANT ReferencedImageSurvives
INVARIANT DoomedFilesAreUnreferenced
INVARIANT DraftSpentOnce
INVARIANT ScreenshotShowsUrl
INVARIANT NothingLeaks
INVARIANT NothingDangles
PROPERTY KeyIsGivenOnce
CHECK_DEADLOCK FALSE
