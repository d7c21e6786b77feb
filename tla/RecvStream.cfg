\* A buffer of 12 cells, long enough streams to go through it several times.
SPECIFICATION FairSpec
CONSTANTS
  BufferSize = 4
  BufferCount = 3
  HeaderSize = 2
  Sizes = {2, 3, 4}
  MaxPackets = 4
  Errors = {"reset", "other"}
  Stale = Stale
INVARIANTS
  BufferHoldsStream
  WindowFits
  CopyDisjoint
PROPERTIES
  SentIsDelivered
  NoOverflow
  ImplementsPacketChannel
