\* The client of the API process decodes responses; nothing else fails.
SPECIFICATION FairSpec
CONSTANTS
  hookAll = hookAll
  chatZone = chatZone
  hookCritical = hookCritical
  Any = Any
  NoRule = NoRule
  Rule = {hookAll}
  Routing <- MCRouting
  AlertKind <- MCAlertKind
  Senders = {"WEBHOOK", "SLACK"}
  MaxAttempts = 2
  StrCursor = TRUE
  Failures = {}
  MaxMessages = 2
PROPERTIES
  EveryAlertHandled
\* At the bound on the stream an idle loop has nothing left to do.
CHECK_DEADLOCK FALSE
