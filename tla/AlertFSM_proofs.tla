--------------------------- MODULE AlertFSM_proofs ---------------------------
(***************************************************************************)
(* Theorems about the alert FSM, for every choice of keys, events, windows *)
(* and bounds, and for both values of Durable.                             *)
(***************************************************************************)
EXTENDS AlertFSM, TLAPS

(***************************************************************************)
(* Lemmas on the helpers the actions are built from.                       *)
(***************************************************************************)

\* The lookup returns rows of the table, so the cache stays well typed.
LEMMA ConsultedType ==
  ASSUME CalendarTypeOK
  PROVE  Consulted \in [WinId -> WindowRow \cup {NoRow}]
BY DEF CalendarTypeOK, Consulted, ActiveWindows

LEMMA RefreshType ==
  ASSUME CalendarTypeOK, MaybeRefresh
  PROVE  CalendarTypeOK'
BY ConsultedType, CalendarAssumption DEF CalendarTypeOK, MaybeRefresh

\* A first event is its own beginning; a later one keeps the entry's.
LEMMA FirstSeenType ==
  ASSUME TypeOK, NEW e \in Event
  PROVE  FirstSeen(e) \in Time
BY FSMAssumption DEF TypeOK, FirstSeen, Entry

LEMMA RememberType ==
  ASSUME TypeOK, NEW e \in Event, NEW id \in 0..MaxAlerts, Remember(e, id)
  PROVE  entries' \in [Key -> Entry \cup {NoEntry}]
<1>1. [first |-> FirstSeen(e), alert |-> id] \in Entry
  BY FirstSeenType DEF Entry
<1> QED
  BY <1>1, FSMAssumption DEF TypeOK, Remember

\* One more row, at the end, with everything before it unchanged.
LEMMA InsertedRow ==
  ASSUME TypeOK, NEW e \in Event, NEW s \in AlertState, InsertRow(e, s)
  PROVE  /\ alerts' \in Seq(AlertRow) /\ Len(alerts') = Len(alerts) + 1
         /\ Len(alerts') <= MaxAlerts
         /\ DOMAIN alerts' = DOMAIN alerts \cup {Len(alerts) + 1}
         /\ Len(alerts) + 1 \notin DOMAIN alerts
         /\ \A id \in DOMAIN alerts : alerts'[id] = alerts[id]
         /\ alerts'[Len(alerts) + 1].key = e.key
         /\ alerts'[Len(alerts) + 1].state \in {s, "rolled_back"}
         /\ Len(alerts) + 1 \in 1..MaxAlerts
<1> DEFINE row == [key |-> e.key, ts |-> e.ts,
                   state |-> IF Durable THEN s ELSE "rolled_back"]
<1>1. row \in AlertRow
  BY FSMAssumption DEF AlertRow, AlertState
<1>2. alerts' = Append(alerts, row) /\ Len(alerts) < MaxAlerts
  BY DEF InsertRow
<1>3. Len(alerts) \in Nat /\ alerts \in Seq(AlertRow)
  BY DEF TypeOK
<1>4. MaxAlerts \in Nat
  BY FSMAssumption
<1> HIDE DEF row
<1>5. /\ alerts' \in Seq(AlertRow) /\ Len(alerts') = Len(alerts) + 1
      /\ \A id \in 1..Len(alerts) : alerts'[id] = alerts[id]
      /\ alerts'[Len(alerts) + 1] = row
  BY <1>1, <1>2, <1>3
<1>6. /\ DOMAIN alerts = 1..Len(alerts)
      /\ DOMAIN alerts' = 1..Len(alerts')
  BY <1>3, <1>5
<1>7. /\ row.key = e.key
      /\ row.state \in {s, "rolled_back"}
  BY DEF row
<1> QED
  BY <1>2, <1>3, <1>4, <1>5, <1>6, <1>7

\* The state change of the API routes and of the clock.
LEMMA CalendarStepType ==
  ASSUME CalendarTypeOK, CalendarStep
  PROVE  CalendarTypeOK'
<1>1. ASSUME NEW i \in WinId, SaveWindow(i)
      PROVE  CalendarTypeOK'
  BY <1>1, CalendarAssumption
     DEF CalendarTypeOK, SaveWindow, CreateWindow, UpdateWindow, DeleteWindow
<1>2. ASSUME Tick
      PROVE  CalendarTypeOK'
  BY <1>2, CalendarAssumption DEF CalendarTypeOK, Tick
<1> QED
  BY <1>1, <1>2 DEF CalendarStep

\* What an operator does: one row changes its state, nothing else moves.
LEMMA SetStateEffect ==
  ASSUME TypeOK, NEW id \in DOMAIN alerts,
         NEW from, NEW to \in {"acknowledged", "resolved"}, SetState(id, from, to)
  PROVE  /\ alerts' \in Seq(AlertRow) /\ Len(alerts') = Len(alerts)
         /\ DOMAIN alerts' = DOMAIN alerts
         /\ \A j \in DOMAIN alerts : /\ alerts'[j].key = alerts[j].key
                                     /\ j # id => alerts'[j] = alerts[j]
         /\ alerts'[id].state = to
<1>1. alerts' = [alerts EXCEPT ![id].state = to]
  BY DEF SetState
<1>2. alerts \in Seq(AlertRow) /\ to \in AlertState
  BY DEF TypeOK, AlertState
<1>3. alerts[id] \in AlertRow
  BY <1>2
<1>4. [alerts[id] EXCEPT !.state = to] \in AlertRow
  BY <1>2, <1>3 DEF AlertRow
<1> QED
  BY <1>1, <1>2, <1>3, <1>4 DEF AlertRow

\* An active row is a row of the table.
LEMMA ActiveRow ==
  ASSUME TypeOK
  PROVE  \A id \in ActiveIds : /\ id \in DOMAIN alerts /\ id \in 1..MaxAlerts
                               /\ alerts[id] \in AlertRow /\ alerts[id].key \in Key
<1>1. /\ alerts \in Seq(AlertRow) /\ Len(alerts) \in Nat
      /\ Len(alerts) <= MaxAlerts /\ MaxAlerts \in Nat
  BY FSMAssumption DEF TypeOK
<1>2. ASSUME NEW id \in DOMAIN alerts
      PROVE  id \in 1..MaxAlerts /\ alerts[id] \in AlertRow
  BY <1>1, <1>2
<1>3. \A r \in AlertRow : r.key \in Key
  BY DEF AlertRow
<1> QED
  BY <1>2, <1>3 DEF ActiveIds

\* rebuild_from_db gives every active row an entry, its own when no other
\* active row has the same key.
LEMMA RebuiltEntries ==
  ASSUME TypeOK, OneActivePerKey
  PROVE  /\ Rebuilt \in [Key -> Entry \cup {NoEntry}]
         /\ \A id \in ActiveIds : /\ Rebuilt[alerts[id].key] # NoEntry
                                  /\ Rebuilt[alerts[id].key].alert = id
<1>1. ASSUME NEW id \in ActiveIds
      PROVE  LatestActive(alerts[id].key) = id
  <2>1. id \in Nat
    BY ActiveRow, FSMAssumption
  <2>2. \A j \in ActiveIds : alerts[j].key = alerts[id].key => j = id
    BY DEF OneActivePerKey
  <2>3. IsLatest(id, alerts[id].key)
    BY <2>1, <2>2 DEF IsLatest
  <2>4. \A i \in ActiveIds : IsLatest(i, alerts[id].key) => i = id
    BY <2>2 DEF IsLatest
  <2> QED
    BY <2>3, <2>4, Zenon DEF LatestActive
<1>2. ASSUME NEW id \in ActiveIds
      PROVE  /\ alerts[id].key \in Key
             /\ Rebuilt[alerts[id].key] = [first |-> alerts[id].ts, alert |-> id]
             /\ [first |-> alerts[id].ts, alert |-> id] \in Entry
  <2>1. /\ alerts[id].key \in Key /\ alerts[id].ts \in Time
        /\ id \in 1..MaxAlerts
    BY ActiveRow DEF AlertRow
  <2>2. [first |-> alerts[id].ts, alert |-> id] \in Entry
    BY <2>1, FSMAssumption DEF Entry
  <2> QED
    BY <1>1, <2>1, <2>2, Zenon DEF Rebuilt
<1>3. ASSUME NEW k \in Key
      PROVE  Rebuilt[k] \in Entry \cup {NoEntry}
  <2>1. CASE \E id \in ActiveIds : alerts[id].key = k
    <3>1. PICK id \in ActiveIds : alerts[id].key = k
      BY <2>1
    <3> QED
      BY <1>2, <3>1
  <2>2. CASE ~ \E id \in ActiveIds : alerts[id].key = k
    BY <2>2 DEF Rebuilt
  <2> QED
    BY <2>1, <2>2
<1>4. Rebuilt \in [Key -> Entry \cup {NoEntry}]
  <2>1. Rebuilt = [k \in Key |-> Rebuilt[k]]
    BY Zenon DEF Rebuilt
  <2> QED
    BY <1>3, <2>1
<1>5. ASSUME NEW id \in ActiveIds
      PROVE  /\ Rebuilt[alerts[id].key] # NoEntry
             /\ Rebuilt[alerts[id].key].alert = id
  <2> DEFINE entry == [first |-> alerts[id].ts, alert |-> id]
  <2>1. Rebuilt[alerts[id].key] = entry /\ entry \in Entry
    BY <1>2
  <2>2. entry # NoEntry
    BY <2>1, NoEntryAssumption
  <2>3. entry.alert = id
    OBVIOUS
  <2> QED
    BY <2>1, <2>2, <2>3
<1> QED
  BY <1>4, <1>5
-----------------------------------------------------------------------------
(***************************************************************************)
(* OneActivePerKey is not inductive: nothing in it stops a step from       *)
(* firing for a key that has an active row.  What stops it is that the     *)
(* key's entry holds that row's id, which is ActiveRowsTracked.            *)
(***************************************************************************)
IInv == TypeOK /\ OneActivePerKey /\ ActiveRowsTracked

\* An event that is due belongs to a key with no active row.
LEMMA DueKeyIsFree ==
  ASSUME TypeOK, ActiveRowsTracked, Idle, NEW e \in Event, ~Deduped(e)
  PROVE  \A id \in ActiveIds : alerts[id].key # e.key
BY DEF TypeOK, ActiveRowsTracked, Idle, Deduped, ActiveIds, NoAlert

\* Both ways to fire add a row for a free key and put its id in the entry.
LEMMA FirePreserves ==
  ASSUME IInv, Idle, NEW e \in Event, ~Deduped(e), up' = up,
         NEW s \in AlertState, InsertRow(e, s)
  PROVE  OneActivePerKey' /\ ActiveRowsTracked'
<1> DEFINE new == Len(alerts) + 1
<1>1. \A id \in ActiveIds : alerts[id].key # e.key
  BY DueKeyIsFree DEF IInv
<1>2. /\ DOMAIN alerts' = DOMAIN alerts \cup {new}
      /\ new \notin DOMAIN alerts
      /\ \A id \in DOMAIN alerts : alerts'[id] = alerts[id]
      /\ alerts'[new].key = e.key
      /\ new \in 1..MaxAlerts
  BY InsertedRow DEF IInv
<1> HIDE DEF new
<1>3. ActiveIds' \subseteq ActiveIds \cup {new}
  BY <1>2 DEF ActiveIds, Active
<1>4. \A id \in ActiveIds : id \in DOMAIN alerts /\ alerts'[id] = alerts[id]
  BY <1>2 DEF ActiveIds
<1>5. OneActivePerKey'
  BY <1>1, <1>2, <1>3, <1>4 DEF OneActivePerKey, IInv
<1>6. entries' = [entries EXCEPT ![e.key] = [first |-> FirstSeen(e), alert |-> new]]
  BY DEF InsertRow, Remember, new
<1>7. e.key \in Key /\ entries \in [Key -> Entry \cup {NoEntry}]
  BY FSMAssumption DEF IInv, TypeOK
<1>8. [first |-> FirstSeen(e), alert |-> new] # NoEntry
  <2>1. [first |-> FirstSeen(e), alert |-> new] \in Entry
    BY <1>2, FirstSeenType, FSMAssumption DEF Entry, IInv
  <2> QED
    BY <2>1, NoEntryAssumption
<1>9. ASSUME NEW id \in ActiveIds'
      PROVE  /\ entries'[alerts'[id].key] # NoEntry
             /\ entries'[alerts'[id].key].alert = id
  <2>1. CASE id = new
    BY <1>2, <1>6, <1>7, <1>8, <2>1
  <2>2. CASE id \in ActiveIds
    <3>1. /\ entries[alerts[id].key] # NoEntry
          /\ entries[alerts[id].key].alert = id
      BY <2>2 DEF IInv, ActiveRowsTracked, Idle
    <3>2. alerts'[id].key = alerts[id].key /\ alerts[id].key # e.key
      BY <1>1, <1>4, <2>2
    <3>3. entries'[alerts[id].key] = entries[alerts[id].key]
      BY <1>6, <1>7, <3>2
    <3> QED
      BY <3>1, <3>2, <3>3
  <2> QED
    BY <1>3, <2>1, <2>2
<1> QED
  BY <1>5, <1>9 DEF ActiveRowsTracked

LEMMA InitIInv == Init => IInv
<1> SUFFICES ASSUME Init
             PROVE  IInv
  OBVIOUS
<1>1. CalendarTypeOK
  BY CalendarAssumption DEF Init, CalendarInit, CalendarTypeOK, EmptyCache
<1>2. ActiveIds = {}
  BY DEF Init, ActiveIds
<1>3. entries \in [Key -> Entry \cup {NoEntry}]
  BY DEF Init, NoEntries
<1>4. up \in BOOLEAN
  BY DEF Init
<1>5. pending \in 0..MaxAlerts /\ Len(alerts) <= MaxAlerts
  BY FSMAssumption DEF Init, NoAlert
<1>6. alerts \in Seq(AlertRow) /\ stream \in Seq(1..MaxAlerts)
  BY DEF Init
<1>7. TypeOK
  BY <1>1, <1>3, <1>4, <1>5, <1>6 DEF TypeOK
<1> QED
  BY <1>2, <1>7 DEF IInv, OneActivePerKey, ActiveRowsTracked

\* The type part of the step, one action at a time.
LEMMA TypeStep ==
  ASSUME IInv, [Next]_vars
  PROVE  TypeOK'
<1> USE DEF IInv
<1>1. CASE UNCHANGED vars
  BY <1>1 DEF vars, fsmVars, calendarVars, TypeOK, CalendarTypeOK
<1>2. ASSUME NEW e \in Event, KeepSustaining(e)
      PROVE  TypeOK'
  <2>1. entries' \in [Key -> Entry \cup {NoEntry}]
    BY <1>2, RememberType, FSMAssumption DEF KeepSustaining, NoAlert
  <2> QED
    BY <1>2, <2>1 DEF KeepSustaining, calendarVars, TypeOK, CalendarTypeOK
<1>3. ASSUME NEW e \in Event, Absorb(e)
      PROVE  TypeOK'
  BY <1>3 DEF Absorb, vars, fsmVars, calendarVars, TypeOK, CalendarTypeOK
<1>4. ASSUME NEW e \in Event, NEW s \in AlertState, InsertRow(e, s), MaybeRefresh,
             up' = up, stream' = stream, pending' \in {pending, Len(alerts) + 1}
      PROVE  TypeOK'
  <2>1. entries' \in [Key -> Entry \cup {NoEntry}]
    BY <1>4, InsertedRow, RememberType, FSMAssumption DEF InsertRow
  <2> QED
    BY <1>4, <2>1, InsertedRow, RefreshType, FSMAssumption DEF TypeOK
<1>5. ASSUME NEW e \in Event, FireSuppressed(e)
      PROVE  TypeOK'
  BY <1>4, <1>5 DEF FireSuppressed, AlertState
<1>6. ASSUME NEW e \in Event, FireActive(e)
      PROVE  TypeOK'
  BY <1>4, <1>6 DEF FireActive, AlertState
<1>7. ASSUME NEW e \in Event, FireRaises(e)
      PROVE  TypeOK'
  <2>1. entries' \in [Key -> Entry \cup {NoEntry}]
    BY <1>7, RememberType, FSMAssumption DEF FireRaises, NoAlert
  <2>2. CalendarTypeOK'
    BY <1>7, RefreshType DEF FireRaises, TypeOK, calendarVars, CalendarTypeOK
  <2> QED
    BY <1>7, <2>1, <2>2 DEF FireRaises, TypeOK
<1>8. ASSUME Publish
      PROVE  TypeOK'
  <2>1. pending \in 1..MaxAlerts /\ pending' \in 0..MaxAlerts
    BY <1>8, FSMAssumption DEF Publish, TypeOK, NoAlert
  <2> QED
    BY <1>8, <2>1 DEF Publish, calendarVars, TypeOK, CalendarTypeOK
<1>9. ASSUME PublishRaises
      PROVE  TypeOK'
  BY <1>9, FSMAssumption
     DEF PublishRaises, calendarVars, TypeOK, CalendarTypeOK, NoAlert
<1>10. ASSUME EvictClosed
       PROVE  TypeOK'
  BY <1>10 DEF EvictClosed, calendarVars, TypeOK, CalendarTypeOK
<1>11. ASSUME Start
       PROVE  TypeOK'
  BY <1>11, RebuiltEntries DEF Start, calendarVars, TypeOK, CalendarTypeOK
<1>12. ASSUME Crash
       PROVE  TypeOK'
  <2>1. CalendarTypeOK'
    BY <1>12, CalendarAssumption DEF Crash, TypeOK, CalendarTypeOK, EmptyCache
  <2>2. entries' \in [Key -> Entry \cup {NoEntry}]
    BY <1>12 DEF Crash, NoEntries
  <2>3. up' \in BOOLEAN
    BY <1>12 DEF Crash
  <2>4. pending' \in 0..MaxAlerts
    BY <1>12, FSMAssumption DEF Crash, NoAlert
  <2> QED
    BY <1>12, <2>1, <2>2, <2>3, <2>4 DEF Crash, TypeOK
<1>13. ASSUME NEW id \in DOMAIN alerts, Acknowledge(id) \/ Resolve(id)
       PROVE  TypeOK'
  <2>1. alerts' \in Seq(AlertRow) /\ Len(alerts') = Len(alerts)
    BY <1>13, SetStateEffect DEF Acknowledge, Resolve
  <2> QED
    BY <1>13, <2>1
       DEF Acknowledge, Resolve, SetState, calendarVars, TypeOK, CalendarTypeOK
<1>14. ASSUME CalendarStep
       PROVE  TypeOK'
  BY <1>14, CalendarStepType DEF CalendarStep, fsmVars, TypeOK
<1> QED
  BY <1>1, <1>2, <1>3, <1>5, <1>6, <1>7, <1>8, <1>9, <1>10, <1>11, <1>12,
     <1>13, <1>14 DEF Next, Process

\* The other two parts: only a fire adds an active row, only a crash, an
\* eviction or a start drops or replaces entries.
LEMMA TrackedStep ==
  ASSUME IInv, [Next]_vars
  PROVE  OneActivePerKey' /\ ActiveRowsTracked'
<1> USE DEF IInv
<1>1. ASSUME UNCHANGED <<up, entries, alerts>>
      PROVE  OneActivePerKey' /\ ActiveRowsTracked'
  BY <1>1 DEF OneActivePerKey, ActiveRowsTracked, ActiveIds, Active
\* An entry without an alert is that of a key with no active row.
<1>2. ASSUME NEW e \in Event, Idle, ~Deduped(e), Remember(e, NoAlert),
             UNCHANGED <<up, alerts>>
      PROVE  OneActivePerKey' /\ ActiveRowsTracked'
  <2>1. \A id \in ActiveIds : alerts[id].key # e.key
    BY <1>2, DueKeyIsFree
  <2>2. \A k \in Key : k # e.key => entries'[k] = entries[k]
    BY <1>2 DEF TypeOK, Remember
  <2>3. \A id \in ActiveIds : alerts[id].key \in Key
    BY ActiveRow
  <2> QED
    BY <1>2, <2>1, <2>2, <2>3
       DEF OneActivePerKey, ActiveRowsTracked, ActiveIds, Active
<1>3. ASSUME NEW e \in Event, Process(e)
      PROVE  OneActivePerKey' /\ ActiveRowsTracked'
  <2>1. CASE KeepSustaining(e)
    BY <1>2, <2>1 DEF KeepSustaining
  <2>2. CASE Absorb(e)
    BY <1>1, <2>2 DEF Absorb, vars, fsmVars
  <2>3. CASE FireSuppressed(e)
    BY <2>3, FirePreserves DEF FireSuppressed, Due, AlertState
  <2>4. CASE FireActive(e)
    BY <2>4, FirePreserves DEF FireActive, Due, AlertState
  <2>5. CASE FireRaises(e)
    BY <1>2, <2>5 DEF FireRaises, Due
  <2> QED
    BY <1>3, <2>1, <2>2, <2>3, <2>4, <2>5 DEF Process
<1>4. ASSUME Publish \/ PublishRaises \/ CalendarStep \/ UNCHANGED vars
      PROVE  OneActivePerKey' /\ ActiveRowsTracked'
  BY <1>1, <1>4 DEF Publish, PublishRaises, CalendarStep, vars, fsmVars
<1>5. ASSUME EvictClosed
      PROVE  OneActivePerKey' /\ ActiveRowsTracked'
  <2>1. \A id \in ActiveIds : alerts[id].key \in Key
    BY ActiveRow
  <2> QED
    BY <1>5, <2>1
       DEF EvictClosed, Idle, OneActivePerKey, ActiveRowsTracked, ActiveIds, Active
<1>6. ASSUME Start
      PROVE  OneActivePerKey' /\ ActiveRowsTracked'
  BY <1>6, RebuiltEntries
     DEF Start, OneActivePerKey, ActiveRowsTracked, ActiveIds, Active
<1>7. ASSUME Crash
      PROVE  OneActivePerKey' /\ ActiveRowsTracked'
  BY <1>7 DEF Crash, OneActivePerKey, ActiveRowsTracked, ActiveIds, Active
<1>8. ASSUME NEW id \in DOMAIN alerts, Acknowledge(id) \/ Resolve(id)
      PROVE  OneActivePerKey' /\ ActiveRowsTracked'
  <2>1. /\ DOMAIN alerts' = DOMAIN alerts
        /\ \A j \in DOMAIN alerts : /\ alerts'[j].key = alerts[j].key
                                    /\ j # id => alerts'[j] = alerts[j]
        /\ alerts'[id].state \in {"acknowledged", "resolved"}
    BY <1>8, SetStateEffect DEF Acknowledge, Resolve
  <2>2. ActiveIds' \subseteq ActiveIds
    BY <2>1 DEF ActiveIds, Active
  <2>3. UNCHANGED <<up, entries>>
    BY <1>8 DEF Acknowledge, Resolve, SetState
  <2> QED
    BY <2>1, <2>2, <2>3 DEF OneActivePerKey, ActiveRowsTracked, ActiveIds
<1> QED
  BY <1>3, <1>4, <1>5, <1>6, <1>7, <1>8 DEF Next

LEMMA Invariance == Spec => []IInv
<1>1. IInv /\ [Next]_vars => IInv'
  BY TypeStep, TrackedStep DEF IInv
<1> QED
  BY <1>1, InitIInv, PTL DEF Spec

\* Every reachable state is well typed.
THEOREM TypeCorrect == Spec => []TypeOK
BY Invariance, PTL DEF IInv

\* A dedup key never has two active alerts, and a running FSM always knows the
\* one it has: through evictions, operator actions, failed inserts and
\* publications, crashes and rebuild_from_db.
THEOREM DedupSafety == Spec => []DedupSound
BY Invariance, PTL DEF IInv, DedupSound
-----------------------------------------------------------------------------
(***************************************************************************)
(* The stream.  Order and absence of repetitions need to know that the     *)
(* alert being published is newer than everything on the stream.           *)
(***************************************************************************)
Announceable ==
  {id \in DOMAIN alerts : /\ alerts[id].state # "suppressed"
                          /\ Durable => alerts[id].state # "rolled_back"}

StreamInv ==
  /\ pending # NoAlert => pending \in Announceable
  /\ \A i \in DOMAIN stream : /\ stream[i] \in Announceable
                              /\ pending # NoAlert => stream[i] < pending
  /\ \A i, j \in DOMAIN stream : i < j => stream[i] < stream[j]

\* A row that may be announced stays so: rows are only added, and operators
\* never suppress.
LEMMA AnnounceableStep ==
  ASSUME TypeOK, [Next]_vars, NEW id \in Announceable
  PROVE  id \in Announceable'
<1>1. ASSUME UNCHANGED alerts
      PROVE  id \in Announceable'
  BY <1>1 DEF Announceable
<1>2. ASSUME NEW e \in Event, NEW s \in AlertState, InsertRow(e, s)
      PROVE  id \in Announceable'
  BY <1>2, InsertedRow DEF Announceable
<1>3. ASSUME NEW j \in DOMAIN alerts, Acknowledge(j) \/ Resolve(j)
      PROVE  id \in Announceable'
  <2>1. /\ DOMAIN alerts' = DOMAIN alerts
        /\ \A n \in DOMAIN alerts : n # j => alerts'[n] = alerts[n]
        /\ alerts'[j].state \in {"acknowledged", "resolved"}
    BY <1>3, SetStateEffect DEF Acknowledge, Resolve
  <2> QED
    BY <2>1 DEF Announceable
<1>4. \A e \in Event : Process(e) => \/ UNCHANGED alerts
                                     \/ InsertRow(e, "active")
                                     \/ InsertRow(e, "suppressed")
  BY DEF Process, KeepSustaining, Absorb, FireSuppressed, FireActive, FireRaises,
         vars, fsmVars
<1>5. (Publish \/ PublishRaises \/ EvictClosed \/ Start \/ Crash \/ CalendarStep
        \/ UNCHANGED vars) => UNCHANGED alerts
  BY DEF Publish, PublishRaises, EvictClosed, Start, Crash, CalendarStep, vars, fsmVars
<1> QED
  BY <1>1, <1>2, <1>3, <1>4, <1>5 DEF Next, AlertState

LEMMA StreamStep ==
  ASSUME TypeOK, StreamInv, [Next]_vars
  PROVE  StreamInv'
<1>1. \A id \in Announceable : id \in Announceable'
  BY AnnounceableStep
\* Steps that publish nothing and start no publication.
<1>2. ASSUME UNCHANGED stream, pending' \in {pending, NoAlert}
      PROVE  StreamInv'
  BY <1>1, <1>2 DEF StreamInv, NoAlert
<1>3. ASSUME NEW e \in Event, FireActive(e)
      PROVE  StreamInv'
  <2> DEFINE new == Len(alerts) + 1
  <2>1. /\ UNCHANGED stream /\ pending' = new /\ pending = NoAlert
        /\ InsertRow(e, "active")
    BY <1>3 DEF FireActive, Idle
  <2>2. /\ new \in DOMAIN alerts' /\ new \in 1..MaxAlerts
        /\ alerts'[new].state \in {"active", "rolled_back"}
        /\ Durable => alerts'[new].state = "active"
    <3>1. /\ new \in DOMAIN alerts' /\ new \in 1..MaxAlerts
          /\ alerts'[new].state \in {"active", "rolled_back"}
      BY <2>1, InsertedRow DEF AlertState
    <3>2. Durable => alerts'[new].state = "active"
      BY <2>1 DEF InsertRow, TypeOK
    <3> QED
      BY <3>1, <3>2
  <2>3. \A i \in DOMAIN stream : stream[i] < new
    BY DEF StreamInv, Announceable, TypeOK
  <2>4. new \in Announceable'
    BY <2>2 DEF Announceable
  <2> HIDE DEF new
  <2> QED
    BY <1>1, <2>1, <2>3, <2>4 DEF StreamInv
<1>4. ASSUME Publish
      PROVE  StreamInv'
  <2>1. /\ stream' = Append(stream, pending) /\ pending' = NoAlert
        /\ pending # NoAlert /\ pending \in 1..MaxAlerts
    BY <1>4, FSMAssumption DEF Publish, TypeOK, NoAlert
  <2>2. /\ DOMAIN stream = 1..Len(stream) /\ Len(stream) \in Nat
        /\ DOMAIN stream' = 1..(Len(stream) + 1)
        /\ \A i \in DOMAIN stream : stream'[i] = stream[i]
        /\ stream'[Len(stream) + 1] = pending
    BY <2>1 DEF TypeOK
  <2>3. \A i \in DOMAIN stream' :
          i \in DOMAIN stream \/ (i = Len(stream) + 1 /\ stream'[i] = pending)
    BY <2>2
  <2>4. \A i \in DOMAIN stream' : stream'[i] \in Announceable'
    BY <1>1, <2>1, <2>2, <2>3 DEF StreamInv
  <2>5. \A i, j \in DOMAIN stream' : i < j => stream'[i] < stream'[j]
    BY <2>1, <2>2, <2>3 DEF StreamInv
  <2> QED
    BY <2>1, <2>4, <2>5 DEF StreamInv, NoAlert
<1>5. \A e \in Event : Process(e) /\ ~FireActive(e)
        => UNCHANGED stream /\ pending' \in {pending, NoAlert}
  BY DEF Process, KeepSustaining, Absorb, FireSuppressed, FireRaises, vars, fsmVars
<1>6. (PublishRaises \/ EvictClosed \/ Start \/ Crash \/ CalendarStep
        \/ UNCHANGED vars) => UNCHANGED stream /\ pending' \in {pending, NoAlert}
  BY DEF PublishRaises, EvictClosed, Start, Crash, CalendarStep, vars, fsmVars
<1>7. \A id \in DOMAIN alerts : Acknowledge(id) \/ Resolve(id)
        => UNCHANGED stream /\ pending' \in {pending, NoAlert}
  BY DEF Acknowledge, Resolve, SetState
<1> QED
  BY <1>2, <1>3, <1>4, <1>5, <1>6, <1>7 DEF Next

\* Each alert is announced at most once, in the order of the inserts, and a
\* suppressed one never.
THEOREM StreamSafety == Spec => []AnnouncedInOrder
<1>1. Init => StreamInv
  BY DEF Init, StreamInv, NoAlert
<1>2. TypeOK /\ StreamInv /\ [Next]_vars => StreamInv'
  BY StreamStep
<1>3. StreamInv => AnnouncedInOrder
  BY DEF StreamInv, AnnouncedInOrder, Announceable
<1> QED
  BY <1>1, <1>2, <1>3, TypeCorrect, PTL DEF Spec

\* Where a flush outlives its session, an announced alert is deduplicated for
\* as long as no operator took it up, also by the processes started later.
THEOREM DurableDedup == Durable => (Spec => []AnnouncedIsDeduped)
<1> SUFFICES ASSUME Durable
             PROVE  Spec => []AnnouncedIsDeduped
  OBVIOUS
<1>1. Init => StreamInv
  BY DEF Init, StreamInv, NoAlert
<1>2. TypeOK /\ StreamInv /\ [Next]_vars => StreamInv'
  BY StreamStep
<1>3. IInv /\ StreamInv => AnnouncedIsDeduped
  <2> SUFFICES ASSUME IInv, StreamInv, up, NEW i \in DOMAIN stream,
                      alerts[stream[i]].state \notin {"acknowledged", "resolved"}
               PROVE  /\ entries[alerts[stream[i]].key] # NoEntry
                      /\ entries[alerts[stream[i]].key].alert # NoAlert
    BY DEF AnnouncedIsDeduped
  <2>1. stream[i] \in DOMAIN alerts /\ alerts[stream[i]].state = "active"
    <3>1. stream[i] \in Announceable
      BY DEF StreamInv
    <3>2. alerts[stream[i]] \in AlertRow
      <4>1. alerts \in Seq(AlertRow) /\ stream[i] \in DOMAIN alerts
        BY <3>1 DEF IInv, TypeOK, Announceable
      <4> QED
        BY <4>1
    <3>3. alerts[stream[i]].state \in AlertState
      BY <3>2 DEF AlertRow
    <3> QED
      BY <3>1, <3>3 DEF Announceable, AlertState
  <2>2. stream[i] \in ActiveIds
    BY <2>1 DEF ActiveIds, Active
  <2>3. stream[i] # NoAlert
    BY <2>2, ActiveRow, FSMAssumption DEF IInv, NoAlert
  <2> QED
    BY <2>2, <2>3 DEF IInv, ActiveRowsTracked
<1> QED
  BY <1>1, <1>2, <1>3, Invariance, TypeCorrect, PTL DEF Spec

\* Incidents of a key follow one another: no row is added for a key that has
\* an active one, and no step adds two.
THEOREM SerialIncidents == Spec => SerialRows
<1> DEFINE Serial ==
      \A id \in DOMAIN alerts' \ DOMAIN alerts :
        /\ id = Len(alerts) + 1
        /\ \A j \in ActiveIds : alerts[j].key # alerts'[id].key
<1>1. ASSUME IInv, [Next]_vars
      PROVE  [Serial]_vars
  <2>1. ASSUME NEW e \in Event, NEW s \in AlertState, Idle, ~Deduped(e), InsertRow(e, s)
        PROVE  Serial
    <3>1. TypeOK /\ ActiveRowsTracked
      BY <1>1 DEF IInv
    <3>2. \A j \in ActiveIds : alerts[j].key # e.key
      BY <2>1, <3>1, DueKeyIsFree
    <3>3. /\ DOMAIN alerts' = DOMAIN alerts \cup {Len(alerts) + 1}
          /\ alerts'[Len(alerts) + 1].key = e.key
      BY <2>1, <3>1, InsertedRow
    <3> QED
      BY <3>2, <3>3
  <2>2. ASSUME NEW e \in Event, Process(e)
        PROVE  Serial
    <3>1. CASE FireSuppressed(e)
      BY <2>1, <3>1 DEF FireSuppressed, Due, AlertState
    <3>2. CASE FireActive(e)
      BY <2>1, <3>2 DEF FireActive, Due, AlertState
    <3>3. CASE KeepSustaining(e) \/ Absorb(e) \/ FireRaises(e)
      BY <3>3 DEF KeepSustaining, Absorb, FireRaises, vars, fsmVars
    <3> QED
      BY <2>2, <3>1, <3>2, <3>3 DEF Process
  <2>3. ASSUME NEW id \in DOMAIN alerts, Acknowledge(id) \/ Resolve(id)
        PROVE  Serial
    <3>1. TypeOK
      BY <1>1 DEF IInv
    <3>2. DOMAIN alerts' = DOMAIN alerts
      BY <2>3, <3>1, SetStateEffect DEF Acknowledge, Resolve
    <3> QED
      BY <3>2
  <2>4. ASSUME Publish \/ PublishRaises \/ EvictClosed \/ Start \/ Crash \/ CalendarStep
        PROVE  Serial
    BY <2>4 DEF Publish, PublishRaises, EvictClosed, Start, Crash, CalendarStep, fsmVars
  <2> QED
    BY <1>1, <2>2, <2>3, <2>4 DEF Next
<1> QED
  BY <1>1, Invariance, PTL DEF Spec, SerialRows
=============================================================================
