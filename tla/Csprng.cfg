SPECIFICATION MCSpec
CONSTANTS
  NoThread = NoThread
  Threads = {t1, t2}
  CacheSize = 2
  MaxRequest = 3
  MaxRetry = 2
  ReseedInterval = 2
  ProvidesAbort = FALSE
  DrbgFails = TRUE
  Requests = {0, 1, 2, 5}
  MaxCalls = 2
  SeedSize = 3
  MaxBoots = 3
  Size = 3
  MaxInterrupts = 2
  Descriptors = {0, 1, 2}
INVARIANTS
  NoReuse
  Erased
  OutputComplete
  LoadedInFull
  FileIsOneSeed
  SeedUsedOnce
  FilledOnSuccess
PROPERTIES
  FreshAfterReseed
  StatusHonest
  CallsEnd
  CallReturns
  ImplementsStandard
