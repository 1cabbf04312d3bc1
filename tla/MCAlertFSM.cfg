\* The FSM over a database every session and every later process sees.
SPECIFICATION Spec
CONSTANTS
  loiter = loiter
  unknown = unknown
  NoRow = NoRow
  NoEntry = NoEntry
  WinId = {w1}
  WindowRow <- MCWindowRow
  TTL = 1
  Key <- MCKey
  Event <- MCEvent
  Sustain <- MCSustain
  MaxTime = 1
  MaxAlerts = 3
  Durable = TRUE
INVARIANTS
  DedupSound
  AnnouncedInOrder
  AnnouncedIsDeduped
PROPERTIES
  SerialRows
