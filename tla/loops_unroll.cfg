SPECIFICATION Spec
CONSTANTS
  Relations <- IfBeforeLoop
  MaxStack = 3
CHECK_DEADLOCK FALSE
INVARIANT Unrolls
