SPECIFICATION Spec
CONSTANTS
  NoThread = NoThread
  ChildThread = child
  Threads = {t1, t2}
  CacheSize = 2
  MaxRequest = 2
  ReseedInterval = 2
  Requests = {1, 3}
  MaxCalls = 3
INVARIANTS
  AbortOnlyAtEndOfLife
