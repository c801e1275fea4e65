\* Every combination of explicit lifetimes and request directives, on a host
\* whose conversions of dates are right, or late by one.
SPECIFICATION Spec
CONSTANTS
  ResponseControls <- MCResponseControls
  RequestControls <- MCRequestControls
  Dates <- MCDates
  Ages <- MCAges
  Garbage <- MCGarbage
  MinShift = 0
  MaxShift = 1
  LongMax = 15
  Horizon = 4
  NoHeader = NoHeader
  Junk = Junk
INVARIANTS ServedIsAcceptable
PROPERTIES StaleForever
