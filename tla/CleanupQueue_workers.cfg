SPECIFICATION Spec
CONSTANTS
  Records = {k1, k2, k3}
  Files = {f1, f2}
  Workers = {w1, w2}
  k1 = k1
  k2 = k2
  k3 = k3
  f1 = f1
  f2 = f2
  w1 = w1
  w2 = w2
  Limit = 2
  MaximumAttempts = 2
  Faults = {"db", "crash"}
  MaxClock = 2
  NoRecord = NoRecord
  NoFile = NoFile
SYMMETRY Interchangeable
INVARIANT ClaimedOnce
INVARIANT OutcomeIsTrue
INVARIANT UndisturbedRunningIsWorkedOn
CHECK_DEADLOCK FALSE
