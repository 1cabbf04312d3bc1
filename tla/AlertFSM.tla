------------------------------ MODULE AlertFSM ------------------------------
(***************************************************************************)
(* src/vms/anomaly/fsm.py: the sustain / dedup state machine that turns    *)
(* anomaly events into rows of the alerts table and messages of the        *)
(* `alerts` Redis stream, with the two things it leans on: the maintenance *)
(* calendar (extended here) and the database.                              *)
(*                                                                         *)
(* One AlertFSM runs inside one consumer loop, so the calls of process,    *)
(* evict_closed and rebuild_from_db never overlap.  process suspends at    *)
(* one place, the XADD of publish_alert_fired: the row is already flushed  *)
(* then, and operators, API writes, the clock and crashes can intervene.   *)
(*                                                                         *)
(* Operators are external: no code under src/ changes alerts.state after   *)
(* the insert.  The states they may set are those of the CHECK constraint  *)
(* and the order is that of the README's lifecycle diagram.                *)
(***************************************************************************)
EXTENDS MaintenanceCalendar, Integers, Sequences

CONSTANTS
  Key,        \* dedup keys
  Event,      \* anomaly events: records with key, type, cam, zone, ts
  MaxTime,    \* event timestamps are 0..MaxTime
  Sustain,    \* Sustain[k]: sustain_ms of the detector that makes key k
  Durable,    \* do other sessions, and later processes, see a flushed row?
              \* TRUE: session_factory hands out the one session everybody
              \* shares (as the tests do) or sessions that autocommit.
              \* FALSE: session_factory=SessionLocal, the documented wiring.
  MaxAlerts,  \* bound on the rows of the alerts table
  NoEntry     \* "key not in _entries"

Time == 0..MaxTime
NoAlert == 0  \* alert_id = None; ids are assigned from 1 on

ASSUME FSMAssumption ==
  /\ MaxTime \in Nat /\ MaxAlerts \in Nat /\ Durable \in BOOLEAN
  /\ Sustain \in [Key -> Nat]
  /\ \A e \in Event : e.key \in Key /\ e.ts \in Time

VARIABLES
  up,         \* is the orchestrator process running?
  entries,    \* AlertFSM._entries
  pending,    \* the flushed alert whose XADD is awaited, or NoAlert
  alerts,     \* the alerts table: alert_id is the position
  stream      \* ids published on the `alerts` stream, oldest first

fsmVars == <<up, entries, pending, alerts, stream>>
vars == <<fsmVars, calendarVars>>

\* last_seen_ts is written and never read: an entry is the other two fields.
Entry == [first : Time, alert : 0..MaxAlerts]
AlertState == {"active", "acknowledged", "resolved", "suppressed", "rolled_back"}
AlertRow == [key : Key, ts : Time, state : AlertState]

ASSUME NoEntryAssumption == NoEntry \notin Entry

TypeOK ==
  /\ CalendarTypeOK
  /\ up \in BOOLEAN
  /\ entries \in [Key -> Entry \cup {NoEntry}]
  /\ pending \in 0..MaxAlerts
  /\ alerts \in Seq(AlertRow) /\ Len(alerts) <= MaxAlerts
  /\ stream \in Seq(1..MaxAlerts)

Active(id) == alerts[id].state = "active"
ActiveIds == {id \in DOMAIN alerts : Active(id)}
NoEntries == [k \in Key |-> NoEntry]

\* rebuild_from_db: one entry per active row (a later row overwrites).
IsLatest(i, k) ==
  alerts[i].key = k /\ \A j \in ActiveIds : alerts[j].key = k => j <= i

LatestActive(k) == CHOOSE i \in ActiveIds : IsLatest(i, k)

Rebuilt ==
  [k \in Key |->
     IF \E id \in ActiveIds : alerts[id].key = k
     THEN [first |-> alerts[LatestActive(k)].ts, alert |-> LatestActive(k)]
     ELSE NoEntry]

Init ==
  /\ CalendarInit
  /\ up = FALSE
  /\ entries = NoEntries
  /\ pending = NoAlert
  /\ alerts = <<>>
  /\ stream = <<>>
-----------------------------------------------------------------------------
(***************************************************************************)
(* process(ev, cfg)                                                        *)
(***************************************************************************)
\* The consumer loop is free to run the FSM: the process is up and no call
\* of process is suspended.
Idle == up /\ pending = NoAlert

FirstSeen(e) == IF entries[e.key] = NoEntry THEN e.ts ELSE entries[e.key].first

\* Mutant of Deduped: only repetitions of the first event are absorbed.
DedupedWithinInstant(e) ==
  entries[e.key] # NoEntry /\ entries[e.key].alert # NoAlert /\ e.ts = FirstSeen(e)

\* alert_id is already set: the event is absorbed, DEDUPED.
Deduped(e) == entries[e.key] # NoEntry /\ entries[e.key].alert # NoAlert

\* Mutant of Due: the event that creates an entry fires at once.
DueAtFirst(e) ==
  /\ ~Deduped(e)
  /\ entries[e.key] = NoEntry \/ e.ts - FirstSeen(e) >= Sustain[e.key]

\* A first event never waits for sustain_ms = 0; a later one compares the
\* (possibly negative) time elapsed since the first.
Due(e) == ~Deduped(e) /\ e.ts - FirstSeen(e) >= Sustain[e.key]

Remember(e, id) ==
  entries' = [entries EXCEPT ![e.key] = [first |-> FirstSeen(e), alert |-> id]]

\* SUSTAINING: the entry is created, or only its last_seen_ts moves.
KeepSustaining(e) ==
  /\ Idle
  /\ ~Deduped(e) /\ ~Due(e)
  /\ Remember(e, NoAlert)
  /\ UNCHANGED <<up, pending, alerts, stream, calendarVars>>

Absorb(e) ==
  /\ Idle
  /\ Deduped(e)
  /\ UNCHANGED vars

\* Mutant of InsertRow: the id of the new row is not kept in the entry.
InsertRowForgetsId(e, s) ==
  /\ Len(alerts) < MaxAlerts
  /\ alerts' = Append(alerts, [key |-> e.key, ts |-> e.ts,
                               state |-> IF Durable THEN s ELSE "rolled_back"])
  /\ Remember(e, NoAlert)

\* _fire up to session.flush(): the row, and its id in the entry.  Without a
\* commit a row lives as long as the session of this call.
InsertRow(e, s) ==
  /\ Len(alerts) < MaxAlerts
  /\ alerts' = Append(alerts, [key |-> e.key, ts |-> e.ts,
                               state |-> IF Durable THEN s ELSE "rolled_back"])
  /\ Remember(e, Len(alerts) + 1)

\* Mutant of FireSuppressed: no return before the publication.
FireSuppressedFallsThrough(e) ==
  /\ Idle
  /\ Due(e)
  /\ Suppressors(e) # {}
  /\ InsertRow(e, "suppressed")
  /\ MaybeRefresh
  /\ pending' = Len(alerts) + 1
  /\ UNCHANGED <<up, stream>>

FireSuppressed(e) ==
  /\ Idle
  /\ Due(e)
  /\ Suppressors(e) # {}
  /\ InsertRow(e, "suppressed")
  /\ MaybeRefresh
  /\ UNCHANGED <<up, pending, stream>>

FireActive(e) ==
  /\ Idle
  /\ Due(e)
  /\ Suppressors(e) = {}
  /\ InsertRow(e, "active")
  /\ MaybeRefresh
  /\ pending' = Len(alerts) + 1
  /\ UNCHANGED <<up, stream>>

\* The calendar query or the flush raises: the caller drops the frame, the
\* entry stays without an alert.
FireRaises(e) ==
  /\ Idle
  /\ Due(e)
  /\ Remember(e, NoAlert)
  /\ MaybeRefresh \/ UNCHANGED calendarVars
  /\ UNCHANGED <<up, pending, alerts, stream>>

Process(e) ==
  \/ KeepSustaining(e) \/ Absorb(e)
  \/ FireSuppressed(e) \/ FireActive(e) \/ FireRaises(e)

\* publish_alert_fired returns ...
Publish ==
  /\ up /\ pending # NoAlert
  /\ stream' = Append(stream, pending)
  /\ pending' = NoAlert
  /\ UNCHANGED <<up, entries, alerts, calendarVars>>

\* ... or raises: the entry keeps its alert_id, nothing retries the XADD.
PublishRaises ==
  /\ up /\ pending # NoAlert
  /\ pending' = NoAlert
  /\ UNCHANGED <<up, entries, alerts, stream, calendarVars>>
-----------------------------------------------------------------------------
\* Mutant of EvictClosed: acknowledged alerts keep their entries as well.
EvictResolved ==
  /\ Idle
  /\ entries' = [k \in Key |->
                   IF /\ entries[k] # NoEntry /\ entries[k].alert \in DOMAIN alerts
                      /\ alerts[entries[k].alert].state \in {"active", "acknowledged"}
                   THEN entries[k] ELSE NoEntry]
  /\ UNCHANGED <<up, pending, alerts, stream, calendarVars>>

\* evict_closed: keep the entries whose alert_id is that of an active row.
EvictClosed ==
  /\ Idle
  /\ entries' = [k \in Key |->
                   IF entries[k] # NoEntry /\ entries[k].alert \in ActiveIds
                   THEN entries[k] ELSE NoEntry]
  /\ UNCHANGED <<up, pending, alerts, stream, calendarVars>>

\* Mutant of Start: rebuild_from_db is not called.
StartWithoutRebuild ==
  /\ ~up
  /\ up' = TRUE
  /\ entries' = NoEntries
  /\ UNCHANGED <<pending, alerts, stream, calendarVars>>

\* AnomalyOrchestrator.__init__: a new FSM and a new calendar.
Start ==
  /\ ~up
  /\ up' = TRUE
  /\ entries' = Rebuilt
  /\ UNCHANGED <<pending, alerts, stream, calendarVars>>

Crash ==
  /\ up
  /\ up' = FALSE
  /\ entries' = NoEntries
  /\ pending' = NoAlert
  /\ cache' = EmptyCache
  /\ age' = TTL
  /\ UNCHANGED <<alerts, stream, db>>
-----------------------------------------------------------------------------
\* Operators (external).
SetState(id, from, to) ==
  /\ alerts[id].state \in from
  /\ alerts' = [alerts EXCEPT ![id].state = to]
  /\ UNCHANGED <<up, entries, pending, stream, calendarVars>>

Acknowledge(id) == SetState(id, {"active"}, "acknowledged")
Resolve(id) == SetState(id, {"active", "acknowledged"}, "resolved")

CalendarStep ==
  /\ (\E i \in WinId : SaveWindow(i)) \/ Tick
  /\ UNCHANGED fsmVars

Next ==
  \/ \E e \in Event : Process(e)
  \/ Publish \/ PublishRaises
  \/ EvictClosed
  \/ Start \/ Crash
  \/ \E id \in DOMAIN alerts : Acknowledge(id) \/ Resolve(id)
  \/ CalendarStep

Spec == Init /\ [][Next]_vars
-----------------------------------------------------------------------------
(***************************************************************************)
(* Properties                                                              *)
(***************************************************************************)

\* At most one active row per dedup key, whatever the interleaving of events,
\* evictions, operator actions, failed inserts or publications, crashes and
\* rebuilds (process, evict_closed and rebuild_from_db together).
OneActivePerKey ==
  \A i, j \in ActiveIds : alerts[i].key = alerts[j].key => i = j

\* Memory agrees with the table: while the process is up, every active row is
\* the alert its key's entry holds, so no event of that key can fire again.
ActiveRowsTracked ==
  up => \A id \in ActiveIds : /\ entries[alerts[id].key] # NoEntry
                              /\ entries[alerts[id].key].alert = id

\* Deduplication in process, _fire, evict_closed and rebuild_from_db is sound:
\* every variable keeps its type, memory and table agree, a key is active once.
DedupSound == TypeOK /\ OneActivePerKey /\ ActiveRowsTracked

\* Announcements are in the order of the inserts, never repeated, and never
\* of a suppressed row (README: "Never delivered to channels").
AnnouncedInOrder ==
  /\ \A i, j \in DOMAIN stream : i < j => stream[i] < stream[j]
  /\ \A i \in DOMAIN stream : /\ stream[i] \in DOMAIN alerts
                              /\ alerts[stream[i]].state # "suppressed"

\* An announced alert that no operator has taken up is deduplicated, before
\* and after a restart (rebuild_from_db: "Reload active alerts so dedup
\* survives a process restart.").
AnnouncedIsDeduped ==
  up => \A i \in DOMAIN stream :
          LET row == alerts[stream[i]] IN
            row.state \in {"acknowledged", "resolved"}
            \/ (entries[row.key] # NoEntry /\ entries[row.key].alert # NoAlert)

\* A step adds at most one row, and only for a key none of whose earlier rows
\* is still active: incidents of a key follow one another.
SerialRows ==
  [][\A id \in DOMAIN alerts' \ DOMAIN alerts :
       /\ id = Len(alerts) + 1
       /\ \A j \in ActiveIds : alerts[j].key # alerts'[id].key]_vars

\* fsm.py:71, "Drop entries whose backing alert is no longer active": an entry
\* that still sustains has no backing alert, and stays.
EvictKeepsSustaining ==
  [][EvictClosed =>
       \A k \in Key : entries[k] # NoEntry /\ entries[k].alert = NoAlert
                        => entries'[k] = entries[k]]_vars
=============================================================================
