\* The comment at proxy.cpp:350.
SPECIFICATION Spec
CONSTANTS
  Threads = {t1, t2, t3}
  Keys = {a, b}
  Nodes = {n1, n2}
  head = head
  tail = tail
  Capacity = 1
  NULL = NULL
  Dangling = Dangling
  Requests <- PlainGets
  Reading <- PlainGets
  Kinds = {"ok", "notmodified"}
  Lifetimes <- AlwaysStale
  Answering = {a, b}
  MaxClock = 0
  MaxVersion = 1
SYMMETRY Symmetry
INVARIANTS FreshensCachedResponse
