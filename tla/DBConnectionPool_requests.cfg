\* Two requests at a time and a pool of two connections in three slots.
CONSTANTS
  Main = main
  Thread = {main, r1, r2}
  MultiplePusher = {main, r1, r2}
  MultiplePopper = {r1, r2}
  SinglePopper = {}
  Value = {v1, v2, v3}
  NoValue = NoValue
  NoThread = NoThread
  Capacity = 3
SPECIFICATION PoolFairSpec
INVARIANTS PoolInv
PROPERTIES SleeperLooksAgain
CHECK_DEADLOCK FALSE
