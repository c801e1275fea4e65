\* What testcases.txt says of the expiry times in the log.
SPECIFICATION Spec
CONSTANTS
  Threads = {t1, t2}
  Lifetimes = {1}
  MaxClock = 1
  Torn = Torn
  NULL = NULL
INVARIANTS ExpiryShownCorrectly
