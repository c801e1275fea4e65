\* A response may be stored without its body.
SPECIFICATION Spec
CONSTANTS
  Messages <- MCMessages
  Noise = {}
  Updates = {}
  IntMax <- MCIntMax
  LongMax <- MCLongMax
INVARIANTS StoredCopyIsWhole
