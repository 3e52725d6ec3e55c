SPECIFICATION Spec
CONSTANTS
  p1 = p1  p2 = p2  p3 = p3  s1 = s1  s2 = s2
  Point = {p1, p2, p3}
  Segment = {s1, s2}
  Home <- HomeShared
  Ops <- OpsHold
  KeepFrom = {0}
  QueueSize = 3
  Interval = 2
  AppliedSeqActive = FALSE
  ChunkedOps = FALSE
  LateFailures = FALSE
  TryRecover = FALSE
  Truncation = TRUE
  MaxOps = 2
  MaxCrashes = 2
  MaxFails = 1
INVARIANTS
  TypeOK
  IInv
PROPERTIES
  TruncatesOnlyUnapplied
