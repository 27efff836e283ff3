SPECIFICATION FairSpec
CONSTANTS
  Size = 2
  Future = {f1, f2, f3}
  NoFuture = NoFuture
  Ops <- PlainOps
  Timeouts = {"none"}
  SubmitMayFail = FALSE
  SQEntries = 3
  CQEntries = 2
  MaxShots = 2
CHECK_DEADLOCK FALSE
INVARIANT TypeOK
INVARIANT AnsweredByOwn
INVARIANT InFlightOwned
INVARIANT MemoryLive
 
INVARIANT PayloadAccounting
INVARIANT NeverAborts
PROPERTY Delivered
PROPERTY CloseCompletes
