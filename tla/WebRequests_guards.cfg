SPECIFICATION WebSpec
CONSTANTS
  t1 = t1
  t2 = t2
  s1 = s1
  s2 = s2
  s3 = s3
  s4 = s4
  s5 = s5
  Tabs <- MCTabs
  Sessions <- MCSessions
  Faults = {"db"}
  NoSession = NoSession
SYMMETRY Symmetry
INVARIANT WritesFromOwnPages
PROPERTY RevokedWritesNothing
