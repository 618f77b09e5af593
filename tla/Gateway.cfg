SPECIFICATION FairSpec
CONSTANTS
  c1 = c1
  c2 = c2
  Worker = {w1}
  Client = {c1, c2}
  Promise <- MCPromise
  RequestOf <- MCRequestOf
  MaxAttempts = 3
  MaxFaults = 2
INVARIANTS
  AnsweredKept
  OneDuplicatePerFault
PROPERTY EventuallyDelivered
