SPECIFICATION MCSpec
CONSTANTS
  NoThread = NoThread
  Threads = {t1, t2}
  NPOOLS = 3
  KprngPools = 2
  MinSamples = 2
  U32 = 5
  U64 = 2
  SampleCounts = {1}
  PthreadTryLock = FALSE
  MaxSched = 4
  MaxInputs = 10
  KprngInputs = 5
  CacheSize = 2
  MaxRequest = 2
  MaxRetry = 2
  ReseedInterval = 50
  ProvidesAbort = TRUE
  DrbgFails = FALSE
  Requests = {1}
  MaxCalls = 2
  UserSeedResults = {"CCERR_OK", "CCDRBG_STATUS_PARAM_ERROR"}
INVARIANTS
  TypeOK
  LockOwned
  SeededAtOutput
  InputsConserved
  DrainSchedule
  BoundedDelay
  SeededInTime
  NoLostReseed
  PromptReseed
  PanicOnlyOnFailure
PROPERTIES
  ImplementsMixer
  LocksReleased
