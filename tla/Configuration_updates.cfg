SPECIFICATION Spec
CONSTANTS
  Requests = {r1, r2}
  r1 = r1
  r2 = r2
  Values = {old, new}
  old = old
  new = new
  Default = old
  Faults = {"stage", "rename", "sync"}
  MaxEdits = 2
  Operator = Operator
SYMMETRY RequestSymmetry
INVARIANT OneCandidateWins
INVARIANT OperatorEditKept
INVARIANT RefusedBeforeRenameChangesNothing
INVARIANT DatabaseChangeIsAnnounced
CHECK_DEADLOCK FALSE
