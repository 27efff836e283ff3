SPECIFICATION Spec
CONSTANTS
  Size = 2
  Future = {f1, f2, f3}
  NoFuture = NoFuture
  Ops <- FaultOps
  Timeouts = {"required"}
  SubmitMayFail = TRUE
  SQEntries = 3
  CQEntries = 1
  MaxShots = 2
CHECK_DEADLOCK FALSE
INVARIANT NoLostSlot
INVARIANT OpenPartition
SYMMETRY Symmetry
