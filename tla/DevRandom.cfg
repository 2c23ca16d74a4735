SPECIFICATION Spec
CONSTANTS
  Size = 2
  MaxInterrupts = 2
  Descriptors = {0, 1, 2}
  MaxCalls = 2
INVARIANTS
  NoNeedToClose
