SPECIFICATION FairSpec
CONSTANTS
  MaxStrands = 5
  MaxCapacity = 3
  ChunkSize = 2
  StrandsPerTask = 2
  Modulus = 11
INVARIANTS EachStrandOnce ThrowsForAStrand KeptInOrder
PROPERTIES CallEnds
