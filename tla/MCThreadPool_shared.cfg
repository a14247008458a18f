SPECIFICATION Spec
CONSTANTS
  w1 = w1
  w2 = w2
  client1 = client1
  client2 = client2
  outer = outer
  other = other
  left = left
  right = right
  Workers = {w1, w2}
  Clients = {client1, client2}
  Owner = Owner
  NoThread = NoThread
  Calls = {outer, other, left, right}
  TaskCount <- SharedCount
  MayCall <- SharedMayCall
  MayThrow <- SharedMayThrow
  MaxSpurious = 1
INVARIANTS NoLostWakeup NoLostCompletion NoCircularWait
