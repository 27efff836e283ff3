SPECIFICATION Spec
CONSTANTS
  Size = 2
  Future = {f1, f2, f3}
  NoFuture = NoFuture
  Ops <- ReadOps
  Timeouts = {"optional"}
  SubmitMayFail = FALSE
  SQEntries = 3
  CQEntries = 2
  MaxShots = 2
CHECK_DEADLOCK FALSE
INVARIANT AnsweredByOwn
