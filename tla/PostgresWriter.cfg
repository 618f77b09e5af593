SPECIFICATION FairSpec
CONSTANTS
  Thread = {t1, t2}
  RECONNECT_RETRIES = 2
  MaxFaults = 4
INVARIANTS
  TypeOK
  LossMasked
PROPERTIES
  WriterSpec
  WriteReturns
