\* Enrolments and purges over a stream that may be trimmed; sightings, evictions,
\* badges and restarts in every order.
SPECIFICATION PeopleSpec
CONSTANTS
  Face = {f1}
  Pictured = {p1}
  Blank = Blank
  Request = {r1, r2}
  MaxLen = 2
  MaxRows = 2
  MaxMessages = 3
  v1 = v1
  p1 = p1
  p2 = p2
  b1 = b1
  Key <- MCKey
  Person = {p1, p2}
  Nobody = Nobody
  Vector = {v1}
  NoVector = NoVector
  Sim <- MCSim
  Quality = {1}
  Settings <- MCSettings
  Transit <- MCTransit
  Badge <- MCBadge
  MaxTime = 2
  MaxGid = 1
  BleMaxLen = 1
  ReadCount = 2
  MaxBadges = 3
  Windows <- MCWindows
  Grade = {0, 1, 2}
  Pause = {0, 1, 2}
  FirstSeen = 10
  MaxCrops = 4
  Division <- MCDivision
  Foot = {0, 1, 2, 3, 4, 5, 6, 7, 8}
  Slack = 1
INVARIANTS
  PurgeLeavesNothing
  ReadIsIndexed
  OnePersonPerGid
  BadgesStoredOnce
  IdentityRulesHold
PROPERTIES
  FaceIdentityStands
  ConsumersCatchUp
\* At the bounds a process with nothing to forget has nothing left to do.
CHECK_DEADLOCK FALSE
