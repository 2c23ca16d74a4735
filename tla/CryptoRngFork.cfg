SPECIFICATION Spec
CONSTANTS
  NoThread = NoThread
  ChildThread = child
  Threads = {t1}
  CacheSize = 2
  MaxRequest = 2
  ReseedInterval = 2
  Requests = {1}
  MaxCalls = 3
INVARIANTS
  ProcessesDiffer
