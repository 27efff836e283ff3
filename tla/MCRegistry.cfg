SPECIFICATION RegistrySpec
CONSTANTS
  Size = 4
  Future = {f1, f2, f3, f4, f5}
  NoFuture = NoFuture
INVARIANT RegistryTypeOK
INVARIANT StackPartition
INVARIANT NeverAborts
PROPERTY ImplementsPool
