SPECIFICATION Spec
CONSTANTS
  Id <- FourIds
  Length <- OneLength
  IdMax = 9
  ConsumerChunk = 3
  ProducerChunk = 3
  Ordered = TRUE
  MaxEvents <- StorageAndDiskFaults
INVARIANTS
  TypeOK
  NothingLost
  InOrder
  NamesCoverContents
