----------------------------- MODULE AuditChain -----------------------------
(***************************************************************************)
(* src/vms/db/audit.py, write_audit_event, run by any number of database   *)
(* sessions at once (API routes in the thread pool, the dispatcher), and   *)
(* the /audit/verify walk of src/vms/api/routes/audit.py.                  *)
(*                                                                         *)
(* The database is PostgreSQL at READ COMMITTED, the engine's default:     *)
(* SELECT ... FOR UPDATE picks the newest row its snapshot shows and waits *)
(* for that row's lock; when the wait ends the row has not changed, so     *)
(* that row is what the statement returns.  An empty table locks nothing.  *)
(*                                                                         *)
(* A hash is modelled as the id of the row it is the hash of (0: the       *)
(* genesis hash), that is, hashes do not collide.                          *)
(***************************************************************************)
EXTENDS Naturals, FiniteSets

CONSTANTS
  Writer,     \* sessions
  NoRow,      \* no such row, or one never committed
  MaxRows,    \* bound on the audit ids handed out
  MaxTime     \* bound on the clock

Id == 1..MaxRows
Time == 0..MaxTime
Row == [prev : 0..MaxRows, ts : Time]

ASSUME AuditAssumption ==
  MaxRows \in Nat /\ MaxTime \in Nat /\ NoRow \notin Row

VARIABLES
  log,        \* committed rows of audit_log by id
  nextId,     \* the sequence behind audit_id
  pc,         \* idle, waiting (for a lock), locked, inserted
  last,       \* the row the SELECT returns to the writer (0: none)
  own,        \* id of the row the writer has flushed
  built,      \* event_ts of that row
  clock,      \* datetime.now
  overlapped  \* history: two sessions were at work at the same time

vars == <<log, nextId, pc, last, own, built, clock, overlapped>>

Committed == {i \in Id : log[i] # NoRow}

TypeOK ==
  /\ log \in [Id -> Row \cup {NoRow}]
  /\ nextId \in 1..(MaxRows + 1)
  /\ pc \in [Writer -> {"idle", "waiting", "locked", "inserted"}]
  /\ last \in [Writer -> 0..MaxRows]
  /\ own \in [Writer -> 0..MaxRows]
  /\ built \in [Writer -> Time]
  /\ clock \in Time
  /\ overlapped \in BOOLEAN

Init ==
  /\ log = [i \in Id |-> NoRow] /\ nextId = 1
  /\ pc = [w \in Writer |-> "idle"]
  /\ last = [w \in Writer |-> 0] /\ own = [w \in Writer |-> 0]
  /\ built = [w \in Writer |-> 0] /\ clock = 0 /\ overlapped = FALSE
-----------------------------------------------------------------------------
\* ORDER BY audit_id DESC LIMIT 1.
IsNewest(i) ==
  /\ i \in Committed \cup {0}
  /\ \A j \in Committed : j <= i

Newest == CHOOSE i \in 0..MaxRows : IsNewest(i)

Holds(w, i) == i # 0 /\ pc[w] \in {"locked", "inserted"} /\ last[w] = i
Locked(i) == \E w \in Writer : Holds(w, i)

Alone(w) == \A v \in Writer \ {w} : pc[v] = "idle"

\* Mutant of Select: the session goes on from the head it found the first time.
SelectCached(w) ==
  /\ pc[w] = "idle" /\ nextId <= MaxRows
  /\ pc' = [pc EXCEPT ![w] = "locked"]
  /\ overlapped' = (overlapped \/ ~Alone(w))
  /\ UNCHANGED <<log, nextId, last, own, built, clock>>

Select(w) ==
  /\ pc[w] = "idle" /\ nextId <= MaxRows
  /\ last' = [last EXCEPT ![w] = Newest]
  /\ pc' = [pc EXCEPT ![w] = IF Locked(Newest) THEN "waiting" ELSE "locked"]
  /\ overlapped' = (overlapped \/ ~Alone(w))
  /\ UNCHANGED <<log, nextId, own, built, clock>>

\* Mutant of Wake: the statement insists on a row that is still the newest.
WakeIfNewest(w) ==
  /\ pc[w] = "waiting" /\ ~Locked(last[w]) /\ last[w] = Newest
  /\ pc' = [pc EXCEPT ![w] = "locked"]
  /\ UNCHANGED <<log, nextId, last, own, built, clock, overlapped>>

\* The lock is free: the statement returns the row it has waited for.
Wake(w) ==
  /\ pc[w] = "waiting" /\ ~Locked(last[w])
  /\ pc' = [pc EXCEPT ![w] = "locked"]
  /\ UNCHANGED <<log, nextId, last, own, built, clock, overlapped>>

\* Build the row and flush it: the sequence hands out audit_id.
Insert(w) ==
  /\ pc[w] = "locked" /\ nextId <= MaxRows
  /\ nextId' = nextId + 1
  /\ own' = [own EXCEPT ![w] = nextId]
  /\ built' = [built EXCEPT ![w] = clock]
  /\ pc' = [pc EXCEPT ![w] = "inserted"]
  /\ UNCHANGED <<log, last, clock, overlapped>>

\* Mutant of Commit: the row links to the id before its own.
CommitById(w) ==
  /\ pc[w] = "inserted"
  /\ log' = [log EXCEPT ![own[w]] = [prev |-> own[w] - 1, ts |-> built[w]]]
  /\ pc' = [pc EXCEPT ![w] = "idle"]
  /\ UNCHANGED <<nextId, last, own, built, clock, overlapped>>

\* row_hash is set and the transaction commits: the row is visible, the lock
\* is free.
Commit(w) ==
  /\ pc[w] = "inserted"
  /\ log' = [log EXCEPT ![own[w]] = [prev |-> last[w], ts |-> built[w]]]
  /\ pc' = [pc EXCEPT ![w] = "idle"]
  /\ UNCHANGED <<nextId, last, own, built, clock, overlapped>>

\* An error, or the death of the process: no row, and the id is gone.
Rollback(w) ==
  /\ pc[w] \in {"waiting", "locked", "inserted"}
  /\ pc' = [pc EXCEPT ![w] = "idle"]
  /\ UNCHANGED <<log, nextId, last, own, built, clock, overlapped>>

Tick ==
  /\ clock < MaxTime
  /\ clock' = clock + 1
  /\ UNCHANGED <<log, nextId, pc, last, own, built, overlapped>>

Write(w) == Select(w) \/ Wake(w) \/ Insert(w) \/ Commit(w)

Next == (\E w \in Writer : Write(w) \/ Rollback(w)) \/ Tick

Spec == Init /\ [][Next]_vars

\* A transaction that is not waiting for a lock ends: it commits or fails.
End(w) == Insert(w) \/ Commit(w) \/ (pc[w] # "waiting" /\ Rollback(w))

\* Transactions end, and the lock manager serves the sessions that wait.
FairSpec ==
  Spec /\ \A w \in Writer : WF_vars(End(w)) /\ SF_vars(Wake(w))
-----------------------------------------------------------------------------
(***************************************************************************)
(* verify_audit_chain: the rows of a window of event_ts, in the order of   *)
(* their ids, each linked to the one before it.  The scheduler's           *)
(* _audit_chain_verify walks all rows and starts from the genesis hash.    *)
(***************************************************************************)
Window(from, to) == {i \in Committed : from <= log[i].ts /\ log[i].ts < to}

Verifies(from, to) ==
  \A i, j \in Window(from, to) :
    i < j /\ (\A k \in Window(from, to) : ~(i < k /\ k < j)) => log[j].prev = i

WholeChainVerifies ==
  \A j \in Committed : \A i \in Committed \cup {0} :
    i < j /\ (\A k \in Committed : ~(i < k /\ k < j)) => log[j].prev = i
-----------------------------------------------------------------------------
(***************************************************************************)
(* Properties                                                              *)
(***************************************************************************)

\* Links lead back to the genesis: a row links to a committed row with a
\* smaller id, whatever is rolled back and in whatever order sessions commit.
LinksBackwards ==
  \A i \in Committed : log[i].prev < i /\ log[i].prev \in Committed \cup {0}

\* What sessions can do to the chain is bounded by how many there are: a row
\* has at most one successor per session.
ForkWidth ==
  \A p \in 0..MaxRows :
    Cardinality({i \in Committed : log[i].prev = p}) <= Cardinality(Writer)

\* Whatever write_audit_event and its rollbacks interleave to, the log keeps its
\* types, its links lead backwards, and no row is forked beyond the sessions.
LinksSound == TypeOK /\ LinksBackwards /\ ForkWidth

\* The FOR UPDATE lock is passed on: no session waits for ever.
NoWriterStarves ==
  \A w \in Writer : pc[w] = "waiting" ~> pc[w] # "waiting"

\* One chain: seen through the committed rows, and as long as no two sessions
\* have been at work at the same time, the log is the abstract chain.
Chain == INSTANCE HashChain
           WITH head <- Newest, links <- {<<log[i].prev, i>> : i \in Committed}

IsOneChain ==
  Chain!Init /\ [][overlapped' \/ Chain!Next]_<<Newest, {<<log[i].prev, i>> : i \in Committed}>>

\* As long as no two sessions have been at work at the same time, every window
\* of the log verifies, and so does the whole of it: /audit/verify and the
\* nightly job report a break only when a row was tampered with, whatever was
\* rolled back.
WindowsVerify ==
  ~overlapped =>
    /\ WholeChainVerifies
    /\ \A from, to \in 0..(MaxTime + 1) : from < to => Verifies(from, to)

\* tests/test_db_audit.py:80, "With the FOR UPDATE lock, concurrent writes
\* serialize: one completes before the other reads the last row. This prevents
\* both writers from using the same prev_hash": once there is a row to lock, no
\* row has two successors.
SeededForkFree ==
  \A i, j \in Committed : log[i].prev = log[j].prev /\ log[i].prev # 0 => i = j
=============================================================================
