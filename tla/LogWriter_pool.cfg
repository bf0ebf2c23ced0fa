\* Two threads log three records; a pool of three slots holds two LogInfos.
CONSTANTS
  Main = main
  Writer = writer
  Thread = {main, writer, l1, l2}
  MultiplePusher = {writer}
  MultiplePopper = {l1, l2}
  SinglePopper = {}
  Value = {i1, i2, i3}
  NoValue = NoValue
  Capacity = 3
  Record = {r1, r2, r3}
  NoRecord = NoRecord
  Appender = {a1, a2}
  NoAppender = NoAppender
  NoThread = NoThread
SPECIFICATION LogSpec
INVARIANTS InfosAreKept RecordKeptOnce PipesAreServed
SYMMETRY LogSymmetry
CHECK_DEADLOCK FALSE
