SPECIFICATION Spec
CONSTANTS
  Worker = {w1, w2}
  Client = {c1, c2}
  Request <- AllRequests
  Promise <- AnyPromise
SYMMETRY Symmetry
INVARIANTS
  TypeOK
  StatusTruthful
  AcceptChain
