\* Two tracks, two zones, frames up to one tick late, restarts.
SPECIFICATION FairSceneSpec
CONSTANTS
  z1 = z1
  z2 = z2
  Tracks = 2
  Zone = {z1, z2}
  Outside = Outside
  NoRow = NoRow
  Unread = Unread
  Rows <- MCRows
  CacheTTL = 1
  HeadTTL = 1
  MaxLag = 1
INVARIANTS
  HeadsCountedOnce
PROPERTIES
  FramesSeeTheRecent
  OffendersReported
