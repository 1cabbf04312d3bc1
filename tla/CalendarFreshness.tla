------------------------- MODULE CalendarFreshness -------------------------
(***************************************************************************)
(* How stale the maintenance calendar may be when an alert is decided: the *)
(* lookups of one AlertFSM process against the edits of the API process.   *)
(*                                                                         *)
(* changed[i] is a history variable: the ticks since window i was last     *)
(* saved, counted to TTL.  Nothing in the code reads it.                   *)
(***************************************************************************)
EXTENDS MaintenanceCalendar

CONSTANT Event   \* what a lookup is asked: records with type, cam, zone, ts

\* The CHECK constraints of the table, which validate_window_coherence mirrors: a
\* one-time window has its two instants, a recurring one a cron_expr and a duration.
ASSUME WindowAssumption ==
  /\ \A w \in WindowRow :
       \/ w.schedule = "ONE_TIME" /\ w.starts \in Nat /\ w.ends \in Nat
       \/ w.schedule = "RECURRING" /\ w.fires \subseteq Nat /\ w.duration \in Nat
  /\ \A e \in Event : e.ts \in Nat

VARIABLE changed

freshnessVars == <<calendarVars, changed>>

Init ==
  /\ CalendarInit
  /\ changed = [i \in WinId |-> TTL]

\* is_suppressed; the answer is any window of Suppressors(e), or none.
Lookup(e) ==
  /\ MaybeRefresh
  /\ UNCHANGED changed

Save(i) ==
  /\ SaveWindow(i)
  /\ changed' = [changed EXCEPT ![i] = 0]

Clock ==
  /\ Tick \/ (age = TTL /\ UNCHANGED calendarVars)
  /\ changed' = [i \in WinId |-> IF changed[i] < TTL THEN changed[i] + 1 ELSE TTL]

\* The process of the FSM is started anew.
Restart ==
  /\ cache' = EmptyCache /\ age' = TTL
  /\ UNCHANGED <<db, changed>>

Next ==
  \/ \E e \in Event : Lookup(e)
  \/ \E i \in WinId : Save(i)
  \/ Clock \/ Restart

Spec == Init /\ [][Next]_freshnessVars
-----------------------------------------------------------------------------
TypeOK == CalendarTypeOK /\ changed \in [WinId -> 0..TTL]

\* No alert is decided on a window that was edited maintenance_cache_ttl_s ago
\* or earlier: what a lookup would scan is the table but for younger edits, and
\* for those it is no older than the cache itself.
StalenessBounded ==
  \A i \in WinId : Consulted[i] # ActiveWindows[i] => changed[i] <= age /\ age < TTL

\* What the calendar shows between two instants is what is suppressed between
\* them: a window covers an event exactly if one of its slots does, where a slot
\* of a recurring window does not include its start.
CalendarTellsSuppression ==
  LET Within(w, s, t) == /\ s.starts <= t /\ t <= s.ends
                         /\ w.schedule = "RECURRING" => s.starts < t
      Tells(w) ==
        \A from, t, to \in {e.ts : e \in Event} :
          from < t /\ t < to =>
            (Covers(w, t) <=> \E s \in Slots(w, from, to) : Within(w, s, t))
  IN  \A i \in WinId : db[i] # NoRow /\ db[i].active => Tells(db[i])
=============================================================================
