SPECIFICATION GoSpec
CONSTANTS
  MaxPath = 3
  Paths = 1
INVARIANTS QuotedPathsArrive
CHECK_DEADLOCK FALSE
