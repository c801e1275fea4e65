\* Two resources that change compete for one place in the cache, and are served
\* from it while fresh: two handlers at a time, any number one after the other.
SPECIFICATION Spec
CONSTANTS
  Threads = {t1, t2}
  Keys = {a, b}
  Nodes = {n1, n2}
  head = head
  tail = tail
  Capacity = 1
  NULL = NULL
  Dangling = Dangling
  Requests <- PatientGets
  Reading <- PatientGets
  Kinds = {"ok", "notmodified"}
  Lifetimes <- Lives
  Answering = {a, b}
  MaxClock = 1
  MaxVersion = 2
SYMMETRY Symmetry
INVARIANTS Inv ReplyNotStale
