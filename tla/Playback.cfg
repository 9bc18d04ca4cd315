SPECIFICATION Spec
CONSTANTS
  a = a
  b = b
  Songs = {a, b}
  None = None
  Duration = 2
  Interval = 1
  BackoffBase = 1
  BackoffCap = 2
  RetryAfterCap = 3
  RetryAfters = {0, 4}
  Latency = 1
SYMMETRY SongSymmetry
INVARIANTS
  TypeOK
  CapturesWithinLatency
  FailuresAreForewarned
  PollsOnTime
CHECK_DEADLOCK FALSE
