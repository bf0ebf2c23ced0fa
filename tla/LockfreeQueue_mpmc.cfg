\* One pusher and two poppers, as in the repository's test.
CONSTANTS
  Thread = {p, r1, r2}
  MultiplePusher = {p}
  MultiplePopper = {r1, r2}
  SinglePopper = {}
  Value = {v1, v2, v3}
  NoValue = NoValue
  Capacity = 2
SPECIFICATION Spec
INVARIANT NoValueLost
SYMMETRY ValueSymmetry
CHECK_DEADLOCK FALSE
