SPECIFICATION Spec
CONSTANTS
  Id <- ThreeIds
  Length <- OneLength
  IdMax = 9
  ConsumerChunk = 3
  ProducerChunk = 3
  Ordered = FALSE
  MaxEvents <- StorageFaults
INVARIANT PersistentState
