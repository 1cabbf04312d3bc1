----------------------------- MODULE Partitions -----------------------------
(***************************************************************************)
(* src/vms/db/partition_manager.py: the monthly partitions of              *)
(* tracking_events, created when the API process is imported               *)
(* (src/vms/api/main.py:103) and by a job of the scheduler, and dropped by *)
(* retention.                                                              *)
(*                                                                         *)
(* PostgreSQL puts a row that no partition covers into the DEFAULT         *)
(* partition, and refuses a new partition while the DEFAULT one holds a    *)
(* row of it; ensure_future_partitions is one transaction, so a refusal    *)
(* undoes all of it and is raised to the caller.  The table has been       *)
(* migrated: until then both functions return at once.                     *)
(***************************************************************************)
EXTENDS MonthRules, FiniteSets

CONSTANTS
  Birth,        \* instant of the migration
  Horizon,      \* bound on the clock
  Late,         \* how far the event_ts of a new row may lie behind the clock
  MaxRows,      \* bound on the rows that are in the table at a time
  StartAhead,   \* months_ahead of the API process, 3
  JobAhead      \* months_ahead of partition_create_next_month, 2

ASSUME PartitionsAssumption ==
  /\ Birth \in Nat /\ Horizon \in Nat /\ Late \in Nat /\ MaxRows \in Nat
  /\ JobAhead \in Nat /\ StartAhead \in Nat /\ JobAhead <= StartAhead
  /\ Late <= Birth /\ Birth <= Horizon

VARIABLES
  today,      \* datetime.now
  parts,      \* names of the monthly partitions
  stored,     \* event_ts of the rows in monthly partitions
  default,    \* event_ts of the rows in tracking_events_default
  serving,    \* the API process is up
  idle,       \* history: months begun since partitions were last ensured; once
              \* it is JobAhead + 1 it stays so
  cutoff      \* history: the latest date that was given to retention

partitionVars == <<today, parts, stored, default, serving, idle, cutoff>>

PartitionsTypeOK ==
  /\ today \in Birth..Horizon
  /\ parts \subseteq Name
  /\ stored \subseteq 0..Horizon /\ default \subseteq 0..Horizon
  /\ serving \in BOOLEAN
  /\ idle \in 0..(JobAhead + 1)
  /\ cutoff \in 0..Horizon

\* The migration: a partition for the month it runs in, and the rows that are
\* there already are copied.
PartitionsInit ==
  /\ today = Birth
  /\ parts = {MonthOf(Birth)}
  /\ default \in SUBSET {t \in (Birth - Late)..Birth : ~InMonth(MonthOf(Birth), t)}
  /\ stored = {} /\ serving = FALSE /\ cutoff = 0
  /\ idle = JobAhead
-----------------------------------------------------------------------------
Covered(t) == \E p \in parts : InMonth(p, t)

\* Mutant of Wanted: range(months_ahead).
WantedShort(ahead) == {AddMonths(MonthOf(today), d) : d \in 0..(ahead - 1)}

Wanted(ahead) == {AddMonths(MonthOf(today), d) : d \in 0..ahead}

\* CREATE TABLE IF NOT EXISTS ... PARTITION OF, for every month wanted.
Ensurable(ahead) ==
  \A p \in Wanted(ahead) \ parts : \A t \in default : ~InMonth(p, t)

EnsureFuture(ahead) ==
  /\ Ensurable(ahead)
  /\ parts' = parts \cup Wanted(ahead)
  /\ idle' = IF idle <= JobAhead THEN 0 ELSE idle

\* The import of vms.api.main; when the months cannot be ensured it raises and
\* there is no process.
StartApi ==
  /\ ~serving /\ EnsureFuture(StartAhead)
  /\ serving' = TRUE
  /\ UNCHANGED <<today, stored, default, cutoff>>

StopApi ==
  /\ serving
  /\ serving' = FALSE
  /\ UNCHANGED <<today, parts, stored, default, idle, cutoff>>

PartitionJob ==
  /\ EnsureFuture(JobAhead)
  /\ UNCHANGED <<today, stored, default, serving, cutoff>>

\* The DB writer adds a row, late by as much as the streams hold it back.
AddRow(t) ==
  /\ Cardinality(stored) + Cardinality(default) < MaxRows
  /\ IF Covered(t)
     THEN stored' = stored \cup {t} /\ UNCHANGED default
     ELSE default' = default \cup {t} /\ UNCHANGED stored
  /\ UNCHANGED <<today, parts, serving, idle, cutoff>>

\* Mutant of DropBefore: the start of a month decides instead of its end.
DropBeforeByStart(c) ==
  LET old == {p \in parts : MonthStart(p) <= c}
  IN  /\ parts' = parts \ old
      /\ stored' = {t \in stored : \A p \in old : ~InMonth(p, t)}
      /\ cutoff' = IF c > cutoff THEN c ELSE cutoff
      /\ UNCHANGED <<today, default, serving, idle>>

\* drop_partitions_before.
DropBefore(c) ==
  LET old == {p \in parts : MonthEnd(p) <= c}
  IN  /\ parts' = parts \ old
      /\ stored' = {t \in stored : \A p \in old : ~InMonth(p, t)}
      /\ cutoff' = IF c > cutoff THEN c ELSE cutoff
      /\ UNCHANGED <<today, default, serving, idle>>

Passing ==
  /\ today < Horizon
  /\ today' = today + 1
  /\ idle' = IF MonthOf(today + 1) # MonthOf(today) /\ idle <= JobAhead
             THEN idle + 1 ELSE idle
  /\ UNCHANGED <<parts, stored, default, serving, cutoff>>

PartitionsNext ==
  \/ StartApi \/ StopApi \/ PartitionJob \/ Passing
  \/ \E t \in (today - Late)..today : AddRow(t)
  \/ \E c \in Birth..today : DropBefore(c)

PartitionsSpec == PartitionsInit /\ [][PartitionsNext]_partitionVars
-----------------------------------------------------------------------------
(***************************************************************************)
(* Properties                                                              *)
(***************************************************************************)

\* As long as the months have been ensured before JobAhead of them have gone by
\* unattended, rows of today have a partition of their own, and both callers of
\* ensure_future_partitions succeed: the API process can start.
AheadOfTheClock ==
  idle <= JobAhead => Covered(today) /\ Ensurable(StartAhead) /\ Ensurable(JobAhead)

\* ensure_future_partitions, called as main.py and the nightly job do, keeps the
\* months well formed and ahead of the clock.
PartitionsAhead == PartitionsTypeOK /\ AheadOfTheClock

\* Retention takes nothing that is not older than the date it was given, and
\* the months ahead are never taken.
RetentionKept ==
  [][\A t \in stored \cup default : t \notin stored' \cup default' => t < cutoff']_partitionVars

\* src/vms/db/partition_manager.py:27, "Uses CREATE TABLE IF NOT EXISTS so it is
\* safe to call repeatedly", as main.py does at every start of the API process:
\* once it has succeeded, the call goes on to succeed.
AlwaysEnsurable ==
  parts \ {MonthOf(Birth)} # {} => Ensurable(StartAhead)
=============================================================================
