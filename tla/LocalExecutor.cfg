\* Two programs that may fork and a cancel_all at any time.
SPECIFICATION FairSpec
CONSTANTS
  Thread = {w1, w2}
  Canceller = {c1}
  Nobody = nobody
  Forks = TRUE
  MaxLaunches = 2
INVARIANTS NothingLeftBehind SweepIsDeadly
PROPERTY CallReturns
CHECK_DEADLOCK FALSE
