SPECIFICATION FairSpec
CONSTANTS
  ProducerChunk = 2
  Id = {1, 2, 3}
  MaxFaults = 4
INVARIANTS
  TypeOK
  TwoThrows
PROPERTIES
  ProducerSpec
  Drained
