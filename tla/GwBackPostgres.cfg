SPECIFICATION Spec
CONSTANTS
  Id <- ThreeIds
  Length <- ThirdLonger
  IdMax = 9
  ConsumerChunk = 2
  ProducerChunk = 2
  Ordered = FALSE
  MaxEvents <- EveryEvent
INVARIANTS
  NoRedelivery
  ChunkInHand
  NothingLost
PROPERTY AtLeastOnceSpec
