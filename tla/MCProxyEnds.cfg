\* Every method, every path of a handler; the origin of b need not answer,
\* and the clients that ask it need not read.
SPECIFICATION FairSpec
CONSTANTS
  Threads = {t1, t2}
  Keys = {a, b}
  Nodes = {n1, n2}
  head = head
  tail = tail
  Capacity = 1
  NULL = NULL
  Dangling = Dangling
  Requests <- AllRequests
  Reading <- SomeRead
  Kinds = {"ok", "chunked", "notmodified", "error", "garbled"}
  Lifetimes <- BadLives
  Answering = {a}
  MaxClock = 0
  MaxVersion = 1
PROPERTIES EveryRequestEnds
