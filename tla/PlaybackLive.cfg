SPECIFICATION FairSpec
CHECK_DEADLOCK FALSE
CONSTANTS
  MaxChunks = 2
  MaxSessions = 1
  MaxCommands = 3
  MaxEvents = 2
  MinChunks = 1
INVARIANT NeverParkedForGood
PROPERTY NeverHangsByItself
