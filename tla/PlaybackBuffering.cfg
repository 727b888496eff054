SPECIFICATION Spec
CHECK_DEADLOCK FALSE
CONSTANTS
  MaxChunks = 2
  MaxSessions = 1
  MaxCommands = 2
  MaxEvents = 1
  MinChunks = 1
INVARIANT BufferingIsSilent
