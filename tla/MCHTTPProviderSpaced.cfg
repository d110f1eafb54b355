SPECIFICATION Spec
CONSTANTS
  c1 = c1  c2 = c2
  Callers = {c1, c2}
  Interval = 2
  StopAfter = 2
  Backoff <- ShortBackoff
  MaxClock = 7
INVARIANTS
  Spaced
\* the model's clock stops
CHECK_DEADLOCK FALSE
