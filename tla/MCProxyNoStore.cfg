\* What testcases.txt and the log say is not cacheable.
SPECIFICATION Spec
CONSTANTS
  Threads = {t1, t2}
  Keys = {a}
  Nodes = {n1, n2}
  head = head
  tail = tail
  Capacity = 1
  NULL = NULL
  Dangling = Dangling
  Requests <- PlainGets
  Reading <- PlainGets
  Kinds = {"ok", "private"}
  Lifetimes <- AlwaysStale
  Answering = {a}
  MaxClock = 0
  MaxVersion = 1
SYMMETRY Symmetry
INVARIANTS OnlyStorableStored
