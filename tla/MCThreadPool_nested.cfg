SPECIFICATION FairSpec
CONSTANTS
  w1 = w1
  w2 = w2
  client1 = client1
  client2 = client2
  outer = outer
  other = other
  left = left
  right = right
  Workers = {w1, w2}
  Clients = {client1}
  Owner = Owner
  NoThread = NoThread
  Calls = {outer, left, right}
  TaskCount <- NestedCount
  MayCall <- NestedMayCall
  MayThrow <- NestedMayThrow
  MaxSpurious = 1
INVARIANTS ReturnsAfterAllJobs DestroyedMeansDrained
PROPERTIES ImplementsParallelFor EveryCallReturns DestroyReturns
