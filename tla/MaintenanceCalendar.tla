------------------------ MODULE MaintenanceCalendar ------------------------
(***************************************************************************)
(* src/vms/anomaly/maintenance.py: the in-memory, TTL-cached view of the   *)
(* maintenance_windows table that the alert FSM consults before it fires,  *)
(* together with the API routes that edit the table                        *)
(* (src/vms/api/routes/maintenance.py).                                    *)
(*                                                                         *)
(* The clock of the cache is relative: age is the time since the last      *)
(* refresh, stuck at TTL once `time.monotonic() >= _expires_at` holds.     *)
(* Event timestamps are another clock: they come from the video frames.    *)
(***************************************************************************)
EXTENDS Naturals

CONSTANTS
  WinId,       \* maintenance_windows.window_id
  WindowRow,   \* the rows an operator may save
  NoRow,       \* "no such row", in the table and in the cache
  TTL          \* maintenance_cache_ttl_s

\* The row after its soft delete.
Deactivated(w) == [w EXCEPT !.active = FALSE]

ASSUME CalendarAssumption ==
  /\ TTL \in Nat \ {0}
  /\ NoRow \notin WindowRow
  /\ \A w \in WindowRow : Deactivated(w) \in WindowRow

VARIABLES
  db,          \* the maintenance_windows table
  cache,       \* MaintenanceCalendar._windows
  age          \* time since refresh_now, at most TTL

calendarVars == <<db, cache, age>>

CalendarTypeOK ==
  /\ db \in [WinId -> WindowRow \cup {NoRow}]
  /\ cache \in [WinId -> WindowRow \cup {NoRow}]
  /\ age \in 0..TTL

\* A new MaintenanceCalendar: nothing cached and _expires_at = 0.0.
EmptyCache == [i \in WinId |-> NoRow]

CalendarInit ==
  /\ db = EmptyCache
  /\ cache = EmptyCache
  /\ age = TTL
-----------------------------------------------------------------------------
(***************************************************************************)
(* _covers.  w.fires is the set of instants w.cron_expr denotes; croniter's*)
(* get_prev returns the latest of them strictly before ts.  A one-time     *)
(* window is closed at both ends.  (So a recurring one does not cover the  *)
(* instant it starts at, unless an earlier occurrence does.)               *)
(***************************************************************************)
Covers(w, ts) ==
  \/ w.schedule = "ONE_TIME" /\ w.starts <= ts /\ ts <= w.ends
  \/ /\ w.schedule = "RECURRING"
     /\ \E f \in w.fires : /\ f < ts
                           /\ \A g \in w.fires : g < ts => g <= f
                           /\ ts <= f + w.duration

\* Mutant of Slots: the expansion begins with the first occurrence it is asked for.
SlotsFromNow(w, from, to) ==
  IF w.schedule = "ONE_TIME" THEN {[starts |-> w.starts, ends |-> w.ends]}
  ELSE {[starts |-> f, ends |-> f + w.duration] : f \in {g \in w.fires : from <= g /\ g <= to}}

\* _expand_window: what the calendar view shows of a window between two instants.
Slots(w, from, to) ==
  IF w.schedule = "ONE_TIME"
  THEN IF w.starts < to /\ from < w.ends
       THEN {[starts |-> w.starts, ends |-> w.ends]} ELSE {}
  ELSE {[starts |-> f, ends |-> f + w.duration] :
          f \in {g \in w.fires : from < g + w.duration /\ g <= to}}

\* The filters of is_suppressed: scope, alert types, schedule.
Suppresses(w, e) ==
  /\ \/ w.scope = "CAMERA" /\ w.scopeId = e.cam
     \/ w.scope = "ZONE" /\ w.scopeId = e.zone
  /\ e.type \in w.types
  /\ Covers(w, e.ts)

\* What refresh_now reads: the rows with is_active = True.
ActiveWindows ==
  [i \in WinId |-> IF db[i] # NoRow /\ db[i].active THEN db[i] ELSE NoRow]

\* The list a lookup scans: refreshed first when the TTL has run out.
Consulted == IF age >= TTL THEN ActiveWindows ELSE cache

\* The windows is_suppressed may return for e; the table has no order.
Suppressors(e) ==
  {i \in WinId : Consulted[i] # NoRow /\ Suppresses(Consulted[i], e)}

\* Mutant of MaybeRefresh: the expiry is renewed without reading the table.
MaybeRefreshKeepsRows ==
  /\ UNCHANGED <<db, cache>>
  /\ age' = IF age >= TTL THEN 0 ELSE age

\* _maybe_refresh, the state change of a lookup.
MaybeRefresh ==
  /\ cache' = Consulted
  /\ age' = IF age >= TTL THEN 0 ELSE age
  /\ UNCHANGED db
-----------------------------------------------------------------------------
(***************************************************************************)
(* The routes.  Each publishes maintenance_window_changed and commits; no  *)
(* process subscribes to that channel, so the commit is all that happens.  *)
(***************************************************************************)
CreateWindow(i, w) ==
  /\ db[i] = NoRow
  /\ w.active
  /\ db' = [db EXCEPT ![i] = w]
  /\ UNCHANGED <<cache, age>>

UpdateWindow(i, w) ==
  /\ db[i] # NoRow
  /\ db' = [db EXCEPT ![i] = w]
  /\ UNCHANGED <<cache, age>>

DeleteWindow(i) ==
  /\ db[i] # NoRow /\ db[i].active
  /\ db' = [db EXCEPT ![i] = Deactivated(db[i])]
  /\ UNCHANGED <<cache, age>>

SaveWindow(i) ==
  \/ \E w \in WindowRow : CreateWindow(i, w) \/ UpdateWindow(i, w)
  \/ DeleteWindow(i)

\* The monotonic clock advances.
Tick ==
  /\ age < TTL
  /\ age' = age + 1
  /\ UNCHANGED <<db, cache>>
=============================================================================
