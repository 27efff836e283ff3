SPECIFICATION Spec
CONSTANTS
  Handle = {"a", "t"}
  ThreadHandle = {"t"}
  Second = 2
  MaxWait = 4
  Delays = {1, 5}
  MaxLate = 1
INVARIANT WriteWakes
