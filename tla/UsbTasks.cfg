SPECIFICATION Spec
CONSTANTS
  UrlSize = 3
  Char = {1, 2}
  Requests <- MCRequests
  MaxChunk = 2
  MaxRequests = 3
INVARIANTS
  ReadsInBounds
  FirstReadExact
PROPERTY
  EachCarriedOut
CHECK_DEADLOCK FALSE
