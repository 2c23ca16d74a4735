SPECIFICATION FairSpec
CONSTANTS
  NoThread = NoThread
  ChildThread = child
  Threads = {t1, t2}
  CacheSize = 2
  MaxRequest = 2
  ReseedInterval = 1
  Requests = {1, 2, 5}
  MaxCalls = 2
INVARIANTS
  OutputDistinct
  LockOwned
  OutputComplete
PROPERTIES
  CallsEnd
