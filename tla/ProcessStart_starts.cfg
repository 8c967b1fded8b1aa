SPECIFICATION FairStartSpec
CONSTANTS
  Processes = {p1, p2, p3}
  p1 = p1
  p2 = p2
  p3 = p3
  NoProcess = NoProcess
INVARIANT SchemaBeforeService
PROPERTY StartEnds
CHECK_DEADLOCK FALSE
