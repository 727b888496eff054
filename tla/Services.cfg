SPECIFICATION ServicesSpec
CONSTANTS
  Keys = {k1, k2}
  Tasks = {t1, t2}
  MaxBytes = 1
  Messages = {m1}
  Scans = {s1, s2}
  Hooks = {"lint", "format"}
  Edits <- ServiceEdits
  HookCalls = {h1, h2}
  Ids = {a, b}
  Callers = {c1, c2}
  Wizards = {w1}
  Installers = {i1, i2}
  Speakers = {p1}
  MaxRedirects = 1
  MaxWords = 2
  Speeches <- ServiceSpeeches
  Fetches = {f1}
  Profiles <- ServiceProfiles
  Readers = {r1, r2}
  MaxInstances = 2
  Documents <- ServiceDocuments
  Policies <- ServicePolicies
  GroupSize = 2
  MaxNarrated = 2
  Views = {v1}
  Chunks = {x1, x2}
  MaxPosted = 2
  MaxTold = 1
INVARIANTS ServicesTypeOK CacheBudgetWhenQuiet LocalVoiceWhole UploadedOnce LocalStaysLocal NothingSkipped SurfaceObeys
PROPERTIES PinnedBeforeSweepKept ReadMarkKept EveryMessageListed ProfilesKept HooksOfOthersKept VoiceKept
CHECK_DEADLOCK FALSE
