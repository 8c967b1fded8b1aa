SPECIFICATION Spec
CONSTANTS
  Pairs = {p1}
  Sessions = {s1, s2, s3}
  Handlers = {h1, h2}
  p1 = p1
  s1 = s1
  s2 = s2
  s3 = s3
  h1 = h1
  h2 = h2
  ThrottleFailures = 3
  ThrottleWindow = 2
  BlockDuration = 3
  Faults = {"db"}
  MaxClock = 4
  NoSession = NoSession
  NoPair = NoPair
SYMMETRY Interchangeable
INVARIANT GuessesBounded
PROPERTY BlockedPairVerifiesNothing
PROPERTY BlockStands
PROPERTY SignInRotates
CHECK_DEADLOCK FALSE
