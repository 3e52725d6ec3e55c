SPECIFICATION Spec
CONSTANTS
  p1 = p1  p2 = p2  p3 = p3  s1 = s1  s2 = s2
  Point = {p1}
  Segment = {s1}
  Home <- HomeSingle
  Ops <- OpsRefused
  KeepFrom = {}
  QueueSize = 10
  Interval = 1
  AppliedSeqActive = TRUE
  ChunkedOps = FALSE
  LateFailures = FALSE
  TryRecover = FALSE
  Truncation = FALSE
  MaxOps = 3
  MaxCrashes = 1
  MaxFails = 0
INVARIANTS
  ReplayTargetNotBehind
