SPECIFICATION Spec
CONSTANTS
  a = a
  b = b
  Variables = {a, b}
  Values <- Bits
  Assignments <- Operations
  Conditions <- Tests
  Precisions <- Predicates
  MaxVersion = 2
  MaxStates = 5
CHECK_DEADLOCK FALSE
INVARIANTS SummariesCover
PROPERTIES ImplementsBlocks
