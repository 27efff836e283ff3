SPECIFICATION Spec
CONSTANTS
  a = a
  b = b
  c = c
  Task = {t1, t2}
  Main = t1
  Manager = {a, b, c}
  NoManager = NoManager
  Programs <- MixedPrograms
  Request = {r1, r2, r3}
  NoRequest = NoRequest
  CallsMayFail = TRUE
SYMMETRY Symmetry
CHECK_DEADLOCK FALSE
INVARIANT TypeOK
INVARIANT ContextNests
INVARIANT RegistrationMatches
INVARIANT ReadsOwnData
INVARIANT PoolSound
