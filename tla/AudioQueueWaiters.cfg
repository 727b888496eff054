SPECIFICATION FairSpec
CONSTANTS
  MaxChunks = 1
  Keys = {0}
  KeyOf <- SingleKey
  maxConcurrentTtsJobs = 1
  prefetchChunks = 0
  maxRetries = 1
  retryBackoffMs <- FullBackoff
  retryJitterMs = 0
  LateChunks = {}
  EvictedKeys = {}
  ClearedKeys = {}
PROPERTY WaitersAreServed
