SPECIFICATION Spec
CHECK_DEADLOCK FALSE
CONSTANTS
  MaxChunks = 2
  MaxSessions = 2
  MaxCommands = 3
  MaxEvents = 1
  MinChunks = 1
INVARIANT TypeOK
INVARIANT OnePlayInFlight
INVARIANT HighlightMatchesAudio
INVARIANT SilentWhenQuiet
INVARIANT NoOrphanedPlay
PROPERTY StopIsFinalUnlessDeciding
