SPECIFICATION Spec
CONSTANTS
  Language = "go"
  Protocol = 1
  Names = {f, g}
  MultiLine = {}
  MaxCommands = 4
  MayDie = FALSE
INVARIANTS SuccessReported
CHECK_DEADLOCK FALSE
