SPECIFICATION Spec
CONSTANTS
  MaxChunks = 3
  Keys = {0, 1}
  KeyOf <- SharedKeys
  maxConcurrentTtsJobs = 1
  prefetchChunks = 1
  maxRetries = 1
  retryBackoffMs <- FullBackoff
  retryJitterMs = 2
  LateChunks = {0}
  EvictedKeys = {}
  ClearedKeys = {}
INVARIANT TypeOK
INVARIANT JobBudget
INVARIANT OneOwner
INVARIANT RetryBudget
INVARIANT NoLostWakeup
INVARIANT PinsInWindow
INVARIANT NoSecondSynthesis
PROPERTY CancelledStaysQuiet
PROPERTY WaitAnswered
