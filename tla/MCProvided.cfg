SPECIFICATION Spec
CONSTANTS
  a = a
  b = b
  c = c
  Task = {t1, t2}
  Main = t1
  Manager = {a, b, c}
  NoManager = NoManager
  Programs <- ProvidedPrograms
  Request = {r1, r2}
  NoRequest = NoRequest
  CallsMayFail = TRUE
CHECK_DEADLOCK FALSE
INVARIANT ReadsOwnData
