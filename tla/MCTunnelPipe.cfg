\* A send to an end that has gone.
SPECIFICATION Spec
CONSTANTS
  MaxSent = 2
  MaxRecv = 2
  BufferSize = 2
INVARIANTS SendFailureThrows
