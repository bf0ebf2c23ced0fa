CONSTANTS
  Timers = {t1, t2}
  WheelSize = 3
  Layers = 2
  TickUnits = 2
  SecondTicks = 1
  Intervals = {1, 5}
  Repeats = {0, 1}
  MaxNow = 10
  Events = {e1, e2, e3, e4}
  Fds = {3, 4, 5}
  Align = 2
  Classes = 3
  BlockSize = 12
  Sizes = {3, 7}
  MaxBlocks = 2
  Shapes <- Shapes_
  MaxBytes = 6
  kCheapPrepend = 1
  kInitialSize = 2
  ExtraSize = 3
  Clients = {c1, c2}
  Nanos = {n1, n2}
  MaxLocks = 4
  Characters = {"%", "x", "c", "n", "s"}
  PatternSize = 5
  Infos <- Infos_
  Answers <- Answers_
  MaxAnswers = 2
  INT_MAX = 31
INIT PartsInit
NEXT PartsNext
SYMMETRY Sym
INVARIANTS ListsMatchTimers FiresInTime PollsWhatIsWanted ObjectsAreDisjoint StreamIsKept BufferIsFifo LockIsKept LineAsPattern AnswersAreRead
PROPERTIES LostOnlyAfterRest
CHECK_DEADLOCK FALSE
