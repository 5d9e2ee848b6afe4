SPECIFICATION FairSpec
CONSTANTS
  Bearer = TRUE
  Lawyers = {l1}
  Containers = {l1}
  Headless = {l1}
  ErrorCap = 1
INVARIANTS NothingLeftBehind ResumableIsCompleted
PROPERTIES CancelledRunReturns
\* A run that has returned, its lawyers settled, rests.
CHECK_DEADLOCK FALSE
