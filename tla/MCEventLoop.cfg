SPECIFICATION FairSpec
CONSTANTS
  Handle = {"a", "b", "t"}
  ThreadHandle = {"t"}
  Second = 2
  MaxWait = 4
  Delays = {1, 3, 7}
  MaxLate = 1
INVARIANT TypeOK
INVARIANT NoSleepOnOwn
INVARIANT NeverOversleeps
INVARIANT DrainInBounds
PROPERTY CompletionRead
PROPERTY ReadyRuns
PROPERTY TimerRuns
