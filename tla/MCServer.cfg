\* Two connection threads and three descriptors: the listening socket and the
\* connections of one request, or of two clients, fill the table.
SPECIFICATION FairSpec
CONSTANTS
  Handlers = {h1, h2}
  Main = m
  MaxDescriptors = 3
  MaxAddresses = 2
  Backlog = 1
  AllocFails = TRUE
  NULL = NULL
INVARIANTS Inv
PROPERTIES LostOnlyThere HandlersProceed ConnectionsAccepted
CHECK_DEADLOCK FALSE
