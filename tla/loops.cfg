SPECIFICATION Spec
CONSTANTS
  Relations <- Programs
  MaxStack = 3
CHECK_DEADLOCK FALSE
INVARIANTS MeetsWait Unrolls BodiesRight DominatorsImplied
