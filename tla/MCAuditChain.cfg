\* Two sessions, one after the other or at once.
SPECIFICATION FairSpec
CONSTANTS
  Writer = {w1, w2}
  NoRow = NoRow
  MaxRows = 5
  MaxTime = 2
INVARIANTS
  LinksSound
  WindowsVerify
PROPERTIES
  IsOneChain
  NoWriterStarves
\* All ids are handed out and the clock is at its bound.
CHECK_DEADLOCK FALSE
