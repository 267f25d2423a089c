SPECIFICATION Spec
CONSTANTS
  i1 = i1
  i2 = i2
  p1 = p1
  p2 = p2
  Inputs = {i1, i2}
  Properties = {p1}
  MaxNodes = 40
  Tasks <- CycleTasks
CHECK_DEADLOCK FALSE
INVARIANTS NoException
