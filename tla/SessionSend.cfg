\* Three threads, four calls of Send, every way WSASend can fail.
SPECIFICATION Spec
CONSTANTS
  t1 = t1
  t2 = t2
  t3 = t3
  b1 = b1
  b2 = b2
  b3 = b3
  b4 = b4
  NoThread = NoThread
  NoBuffer = NoBuffer
  Threads <- ThreeThreads
  Buffers <- FourBuffers
  Errors = {"reset", "other"}
SYMMETRY Symmetry
INVARIANTS
  TypeOK
  OneSendInFlight
  SendEventHeld
  NeverEmptyGather
PROPERTIES
  ImplementsOutbox
