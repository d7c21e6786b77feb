\* Three threads and three classes, one of them of two locks, taken in any
\* order.
SPECIFICATION Spec
CONSTANTS
  t1 = t1
  t2 = t2
  t3 = t3
  l1 = l1
  l2 = l2
  l3 = l3
  l4 = l4
  NoThread = NoThread
  NoLock = NoLock
  Threads <- ThreeThreads
  Locks <- FourLocks
  Class <- SharedClass
  Depth = 3
SYMMETRY Symmetry
INVARIANTS
  FindsCycles
  ReportIsCycle
  NoCircularWait
  StackNamesHolds
