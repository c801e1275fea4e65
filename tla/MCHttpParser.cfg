\* Every message, and every message with one lexeme replaced or removed.
SPECIFICATION Spec
CONSTANTS
  Messages <- MCMessages
  Noise <- MCNoise
  Updates <- MCUpdates
  IntMax <- MCIntMax
  LongMax <- MCLongMax
INVARIANTS
  ParsedIsSent AcceptedIsDelimited StoredIsFramed ReplayIsFaithful ConditionalAsksAboutStored
