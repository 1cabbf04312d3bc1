\* Two sessions: does the lock serialize them?
SPECIFICATION Spec
CONSTANTS
  Writer = {w1, w2}
  NoRow = NoRow
  MaxRows = 3
  MaxTime = 0
INVARIANTS
  SeededForkFree
\* All ids are handed out and the clock is at its bound.
CHECK_DEADLOCK FALSE
