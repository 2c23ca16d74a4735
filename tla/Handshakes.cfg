SPECIFICATION MCSpec
CONSTANTS
  Contexts = {p1, p2, c}
  Passwords = {w, u}
  Iterations = 2
  Batches = {1, 2}
  MaxFailures = 1
  Provers = {p1, p2}
  Verifiers = {v1, v2}
  Initiators = {p1, p2}
  Responders = {r1}
  Texts = {t1, t2}
  MaxKeys = 3
  MaxScalars = 6
  MaxSealed = 2
  CounterBits = 2
SYMMETRY Symmetry
INVARIANTS
  ConfirmedAgreement
  PartnersAccept
  SpakeAgreement
  SrpAgreement
  SigmaAgreement
  CkgAgreement
PROPERTIES
  ImplementsChannel
CHECK_DEADLOCK FALSE
