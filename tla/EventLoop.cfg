\* Two callers against the loop; the pipe fills up after one byte.
CONSTANTS
  Caller = {c1, c2}
  NoCaller = NoCaller
  Task = {t1, t2}
  Timer = {local, remote}
  RemoteTimer = {remote}
  PipeCap = 1
SPECIFICATION FairSpec
INVARIANTS NoLostWakeup
PROPERTIES ImplementsTaskQueue AnnouncedTaskRuns
CHECK_DEADLOCK FALSE
