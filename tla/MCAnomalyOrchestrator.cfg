\* Every frame, twice read after a crash, with failing detectors, failing
\* inserts and failing publications.
SPECIFICATION FairOrchestratorSpec
CONSTANTS
  intrusion = intrusion
  crowd = crowd
  NoRow = NoRow
  NoEntry = NoEntry
  NoEvent = NoEvent
  WinId = {}
  WindowRow = {}
  TTL = 1
  Key <- MCKey
  Event <- MCEvent
  Sustain <- MCSustain
  MaxTime = 1
  MaxAlerts = 2
  Durable = TRUE
  Detectors = 2
  KeysOf <- MCKeysOf
  Frame <- MCFrame
  MaxErrors = 1
  EvictEvery = 2
  MaxFrames = 3
INVARIANTS
  SustainEvidence
  
PROPERTIES
  ImplementsAlertFSM
  EveryFrameHandled
