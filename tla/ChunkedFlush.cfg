SPECIFICATION Spec
CONSTANTS
  p1 = p1  p2 = p2  p3 = p3  s1 = s1  s2 = s2
  Point = {p1, p2, p3}
  Segment = {s1, s2}
  Home <- HomeShared
  Ops <- OpsShared
  KeepFrom = {}
  QueueSize = 3
  Interval = 2
  AppliedSeqActive = FALSE
  ChunkedOps = TRUE
  LateFailures = FALSE
  TryRecover = FALSE
  Truncation = FALSE
  MaxOps = 2
  MaxCrashes = 1
  MaxFails = 0
INVARIANTS
  Recoverable
