SPECIFICATION Spec
CONSTANTS
  Contexts = {a, b}
  Passwords = {w, u}
  Iterations = 2
  Batches = {1, 2}
  MaxFailures = 1
INVARIANTS
  KeysOnVerification
CHECK_DEADLOCK FALSE
