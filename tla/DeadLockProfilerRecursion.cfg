\* One thread at a time is enough: A, B and A again.
SPECIFICATION Spec
CONSTANTS
  t1 = t1
  t2 = t2
  t3 = t3
  l1 = l1
  l2 = l2
  l3 = l3
  l4 = l4
  NoThread = NoThread
  NoLock = NoLock
  Threads <- TwoThreads
  Locks <- TwoLocks
  Class <- OwnClass
  Depth = 3
PROPERTIES
  RecursionPassedOver
