SPECIFICATION Spec
CONSTANTS
  NumPoints = 5
  AliveSets <- MCAlive
  Scores <- MCScores
  ThreadCounts = {1, 2}
  S = 2
  Schedules <- MCSchedules
  ReverseEdgeCaps = {2, 3}
  M0 = 2
INVARIANTS
  TypeOK
  ScoresAgree
  OldSettled
  LinksComplete
  
PROPERTIES
  EdgesReplaced
CHECK_DEADLOCK FALSE
