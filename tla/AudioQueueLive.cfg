SPECIFICATION FairSpec
CONSTANTS
  MaxChunks = 2
  Keys = {0, 1}
  KeyOf <- DistinctKeys
  maxConcurrentTtsJobs = 2
  prefetchChunks = 1
  maxRetries = 1
  retryBackoffMs <- PromptBackoff
  retryJitterMs = 2
  LateChunks = {0}
  EvictedKeys = {1}
  ClearedKeys = {1}
INVARIANT TrackedAudioKept
PROPERTY KeepsPromise
PROPERTY WaitersAreServedUnlessStranded
