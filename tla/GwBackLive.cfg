SPECIFICATION FairSpec
CONSTANTS
  Id <- ThreeIds
  Length <- ThirdLonger
  IdMax = 9
  ConsumerChunk = 2
  ProducerChunk = 2
  Ordered = TRUE
  MaxEvents <- StopAfterFaults
PROPERTIES
  Drained
  QuietTail
  EventuallySaved
  StopTerminates
