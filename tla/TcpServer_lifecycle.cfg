\* Two connections on two worker loops.
CONSTANTS
  c1 = c1
  c2 = c2
  Conn = {c1, c2}
  NoConn = NoConn
  Workers = 2
  MaxRequests <- Requests_
  MaxParts = 2
SPECIFICATION FairSpec
INVARIANTS ConnectionInv EndsOnce
PROPERTIES ClosedIsDestroyed SilentConnectionCloses
CHECK_DEADLOCK FALSE
