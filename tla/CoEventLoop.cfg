CONSTANTS
  Events = {c1, c2}
  Fds = {3, 4}
  MaxWaits = 2
  MaxMessages = 1
SPECIFICATION CoSpec
INVARIANTS HeldAreWoken ClosedByItself
PROPERTY EveryCoroutineRuns
CHECK_DEADLOCK FALSE
