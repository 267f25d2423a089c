SPECIFICATION Spec
CONSTANTS
  Tasks <- Programs
  Self = 3
CHECK_DEADLOCK FALSE
INVARIANTS MeetsAwaited Decided
