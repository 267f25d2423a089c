SPECIFICATION FairSpec
CONSTANTS
  i1 = i1
  i2 = i2
  p1 = p1
  p2 = p2
  Inputs = {i1, i2}
  Properties = {p1, p2}
  MaxNodes = 20
  Tasks <- AllTasks
CHECK_DEADLOCK FALSE
INVARIANTS TypeOK Represented Precise Sound Connected OnePerControl NoException FrontierConsistent
PROPERTIES Ends KeepsPromise
