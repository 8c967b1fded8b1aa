SPECIFICATION StreamSpec
CONSTANTS
  Streams = {x, y}
  Sessions = {s1, s2, s3}
  x = x
  y = y
  s1 = s1
  s2 = s2
  s3 = s3
  Faults = {"db"}
  MaxLines = 5
  NoSession = NoSession
  NoStream = NoStream
SYMMETRY Interchangeable
INVARIANT OneAnswerPerLine
INVARIANT SessionIsAsTold
CHECK_DEADLOCK FALSE
