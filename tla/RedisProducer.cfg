SPECIFICATION FairSpec
CONSTANTS
  TimestampShift = 2
  IdBits = 5
  ProducerChunk = 2
  Entry <- MCEntry
  MaxFaults = 4
INVARIANTS
  LossMasked
PROPERTIES
  ProducerSpec
  Drained
