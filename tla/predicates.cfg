SPECIFICATION FairSpec
CONSTANTS
  p1 = p1
  p2 = p2
  Values <- Data
  Properties = {p1, p2}
  MaxNodes = 90
  Tasks <- LoopTasks
CHECK_DEADLOCK FALSE
INVARIANTS UniqueTrace NoException Precise
PROPERTIES RefinesAlways KeepsPromise Ends
