\* A client that leaves responses as bytes; everything may fail, and the
\* cursor key may be lost.
SPECIFICATION FairSpec
CONSTANTS
  hookAll = hookAll
  chatZone = chatZone
  hookCritical = hookCritical
  Any = Any
  NoRule = NoRule
  Rule = {hookAll, chatZone, hookCritical}
  Routing <- MCRouting
  AlertKind <- MCAlertKind
  Senders = {"WEBHOOK", "SLACK"}
  MaxAttempts = 2
  StrCursor = FALSE
  Failures = {"channel", "escape", "database", "redis", "message", "crash", "reset"}
  MaxMessages = 2
INVARIANTS
  RecordsSound
  DeadLetterBacked
  PassedIsAccounted
PROPERTIES
  EveryAlertHandled
