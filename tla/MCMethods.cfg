SPECIFICATION Spec
CONSTANTS
  Size = 2
  Future = {f1, f2}
  NoFuture = NoFuture
  Ops <- EveryMethod
  Timeouts = {"none"}
  SubmitMayFail = FALSE
  SQEntries = 3
  CQEntries = 2
  MaxShots = 2
CHECK_DEADLOCK FALSE
INVARIANT AnsweredByOwn
INVARIANT InFlightOwned
INVARIANT BufferLive
SYMMETRY Symmetry
