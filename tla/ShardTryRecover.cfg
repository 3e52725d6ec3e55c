SPECIFICATION Spec
CONSTANTS
  p1 = p1  p2 = p2  p3 = p3  s1 = s1  s2 = s2
  Point = {p1, p2}
  Segment = {s1}
  Home <- HomeTogether
  Ops <- OpsUpsertDelete
  KeepFrom = {}
  QueueSize = 3
  Interval = 1
  AppliedSeqActive = TRUE
  ChunkedOps = FALSE
  LateFailures = FALSE
  TryRecover = TRUE
  Truncation = FALSE
  MaxOps = 3
  MaxCrashes = 1
  MaxFails = 1
INVARIANTS
  
  RefusesOnlyWhileFailed
