SPECIFICATION Spec
CONSTANTS
  NoThread = NoThread
  Threads = {t1, t2}
  NPOOLS = 2
  MinSamples = 4
  U32 = 6
  U64 = 2
  SampleCounts = {3}
  PthreadTryLock = TRUE
  MaxSched = 3
  MaxInputs = 5
INVARIANTS
  LockOwned
