SPECIFICATION PoolSpec
CONSTANTS
  c1 = c1
  c2 = c2
  c3 = c3
  c4 = c4
  d1 = d1
  d2 = d2
  d3 = d3
  Captures = {c1, c2, c3, c4}
  Session <- MCSession
  MaxConcurrent = 2
INVARIANT BrowsersBounded
PROPERTY OnlyAHungCloseKeepsASlot
CHECK_DEADLOCK FALSE
