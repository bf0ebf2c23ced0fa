\* Several threads push and one pops, by either operation.
CONSTANTS
  Thread = {p1, p2, r}
  MultiplePusher = {p1, p2}
  MultiplePopper = {r}
  SinglePopper = {r}
  Value = {v1, v2}
  NoValue = NoValue
  Capacity = 3
SPECIFICATION FairSpec
INVARIANTS QueueInv
PROPERTIES ImplementsFifoQueue ClaimedPushCompletes
CHECK_DEADLOCK FALSE
