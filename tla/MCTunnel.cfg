\* Each end sends up to three bytes through buffers of two.
SPECIFICATION FairSpec
CONSTANTS
  MaxSent = 3
  MaxRecv = 2
  BufferSize = 2
INVARIANTS TypeOK NoByteLost LastBytesPassedOn
PROPERTIES BytesArrive ImplementsStreams
