SPECIFICATION FairSpec
CONSTANTS
  Language = "rust"
  Protocol = 2
  Names = {f, g}
  MultiLine = {}
  MaxCommands = 4
  MayDie = TRUE
INVARIANTS TypeOK InStep SuccessReported
PROPERTIES CommandsReturn AgentEnds
CHECK_DEADLOCK FALSE
