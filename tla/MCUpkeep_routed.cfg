\* What jobs.py says of the alerts its jobs raise.
SPECIFICATION UpkeepSpec
CONSTANTS
  NoRow = NoRow
  WinId = {w1, w2}
  WindowRow <- MCWindowRow
  Event <- MCEvent
  TTL = 3
  Unknown = Unknown
  HeightFull = 1080
  HeightMid = 720
  FpsFull = 4
  FpsMid = 2
  FocusFull = 30
  FocusMid = 15
  Duration = 1
  Samples = 4
  Patience = 1
  SkewLimit = 4
  Request = {r1, r2}
  Stream <- MCStream
  NoSession = NoSession
  Override <- MCOverride
  Correction <- MCCorrection
  MaxRequests = 3
  Birth = 22
  Horizon = 31
  Late = 3
  MaxRows = 2
  StartAhead = 3
  JobAhead = 2
  Worker = {v1, v2}
  BeatLife = 3
  BeatEvery = 1
  AuditId = {1, 2}
  MaxAlerts = 2
  a = a
  b = b
  z1 = z1
  z2 = z2
  NoTrack = NoTrack
  Outside = Outside
  Track = {a, b}
  Zone = {z1, z2}
  Frame <- MCFrame
  Factory = "expiring"
  EvictEvery = 2
  MaxFrames = 3
  MaxEpoch = 1
INVARIANT
  CriticalRouted
CHECK_DEADLOCK FALSE
