SPECIFICATION FairSpec
CONSTANTS
  Worker = {w1}
  Client = {c1, c2}
  Request <- OneRequest
  Promise <- OkPromise
PROPERTIES
  Served
  StopReturns
CHECK_DEADLOCK FALSE
