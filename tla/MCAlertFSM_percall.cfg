\* Rows flushed in a session of their own are gone with it.
SPECIFICATION Spec
CONSTANTS
  loiter = loiter
  unknown = unknown
  NoRow = NoRow
  NoEntry = NoEntry
  WinId = {w1}
  WindowRow <- MCWindowRow
  TTL = 1
  Key <- MCKey
  Event <- MCEvent
  Sustain <- MCSustain
  MaxTime = 1
  MaxAlerts = 3
  Durable = FALSE
INVARIANT
  AnnouncedIsDeduped
