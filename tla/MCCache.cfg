\* Three URIs compete for two places: insertions evict.  Allocations may fail;
\* the cache is locked for ever then, and the proxy may come to a standstill.
SPECIFICATION Spec
CONSTANTS
  Threads = {t1, t2, t3}
  Keys = {a, b, c}
  Responses = {r1, r2}
  Nodes = {n1, n2, n3}
  head = head
  tail = tail
  Capacity = 2
  AllocFails = TRUE
  NULL = NULL
  Dangling = Dangling
SYMMETRY Symmetry
INVARIANTS IInv NodesLostOnlyWhenFull
PROPERTIES ImplementsLRU IteratorsSurvive
CHECK_DEADLOCK FALSE
