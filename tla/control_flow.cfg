SPECIFICATION Spec
CONSTANTS
  Statements = {1}
  Kinds = {"if", "until", "forever", "signal"}
  MaxSize = 3
  MaxDepth = 4
  MaxWord = 4
  MaxAnyOrder = 9
CHECK_DEADLOCK FALSE
INVARIANTS TypeOK SameWords ClassesComplete InShape
