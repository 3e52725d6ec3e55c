SPECIFICATION FairSpec
CONSTANTS
  p1 = p1  p2 = p2  p3 = p3  s1 = s1  s2 = s2
  Point = {p1, p2}
  Segment = {s1, s2}
  Home <- HomeApart
  Ops <- OpsMixed
  KeepFrom = {}
  QueueSize = 1
  Interval = 2
  AppliedSeqActive = FALSE
  ChunkedOps = FALSE
  LateFailures = FALSE
  TryRecover = FALSE
  Truncation = FALSE
  MaxOps = 2
  MaxCrashes = 2
  MaxFails = 0
INVARIANTS
  Recoverable
  
  QuiescentContents
  PendingNotAcknowledged
PROPERTIES
  EventuallyDurable
