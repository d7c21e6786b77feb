\* WSASend may fail with an error that HandleError only logs.
SPECIFICATION Spec
CONSTANTS
  t1 = t1
  t2 = t2
  t3 = t3
  b1 = b1
  b2 = b2
  b3 = b3
  b4 = b4
  NoThread = NoThread
  NoBuffer = NoBuffer
  Threads <- TwoThreads
  Buffers <- TwoBuffers
  Errors = {"reset", "other"}
SYMMETRY Symmetry
INVARIANTS
  QueueServed
