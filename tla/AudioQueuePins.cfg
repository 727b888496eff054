SPECIFICATION Spec
CONSTANTS
  MaxChunks = 3
  Keys = {0, 1}
  KeyOf <- SharedKeys
  maxConcurrentTtsJobs = 1
  prefetchChunks = 1
  maxRetries = 0
  retryBackoffMs <- FullBackoff
  retryJitterMs = 0
  LateChunks = {}
  EvictedKeys = {0, 1}
  ClearedKeys = {}
INVARIANT PlayableAudioKept
