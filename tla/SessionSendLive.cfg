\* No symmetry; WSASend fails at once only with a reset, which disconnects.
SPECIFICATION FairSpec
CONSTANTS
  t1 = t1
  t2 = t2
  t3 = t3
  b1 = b1
  b2 = b2
  b3 = b3
  b4 = b4
  NoThread = NoThread
  NoBuffer = NoBuffer
  Threads <- ThreeThreads
  Buffers <- ThreeBuffers
  Errors = {"reset"}
INVARIANTS
  QueueServed
PROPERTIES
  QueuedSettles
