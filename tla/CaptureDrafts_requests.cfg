SPECIFICATION FairSpec
CONSTANTS
  Drafts = {d1}
  Requests = {r1, r2, r3, r4, r5}
  Faults = {"client", "db", "unlink", "crash"}
  MaxFaults = 1
  NoKey = NoKey
  NoDraft = NoDraft
  d1 = d1
  r1 = r1
  r2 = r2
  r3 = r3
  r4 = r4
  r5 = r5
INVARIANT PreviewLastsUntilTaken
INVARIANT ImageSavedOnce
INVARIANT DraftSavedOnce
PROPERTY FollowsLifecycle
PROPERTY CapturingEnds
CONSTRAINT BegunInOrder
CHECK_DEADLOCK FALSE
