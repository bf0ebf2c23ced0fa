CONSTANTS
  Sessions = {s1}
  Requests <- Requests_
  MaxRequests <- MaxRequests_
  Cuts <- Cuts_
INIT SessionInit
NEXT SessionNext
INVARIANTS UrlsAreWhole
CHECK_DEADLOCK FALSE
