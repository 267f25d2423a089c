SPECIFICATION Spec
CONSTANTS
  Relations <- TwoSignals
  MaxStack = 3
CHECK_DEADLOCK FALSE
INVARIANT DominatorsRight
