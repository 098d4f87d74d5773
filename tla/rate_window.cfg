SPECIFICATION RateSpec
CONSTANTS
  WindowSeconds = 3
  MaxRequests = 2
  MaxExcess = 1
  MaxTime = 7
INVARIANT LimitInWindow
\* The time of the clock is bounded.
CHECK_DEADLOCK FALSE
