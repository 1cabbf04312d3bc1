--------------------------- MODULE SchedulerJobs ---------------------------
(***************************************************************************)
(* src/vms/scheduler/jobs.py: the two jobs that watch over the system and  *)
(* may raise a SYSTEM_CRITICAL alert, each at most once at a time, next to *)
(* the alert FSM, whose rows it announces on the `alerts` stream.          *)
(*                                                                         *)
(* Heartbeats, breaks of the audit chain (AuditChain has its writers) and  *)
(* the FSM's alerts are the jobs' surroundings.  Nothing in vms writes a   *)
(* heartbeat key, nor calls the jobs at the times they name: the workers   *)
(* keep to requirement 2 of "worker health" (SET with a life of 15 s,      *)
(* again every 10 s) as long as they are alive.                            *)
(***************************************************************************)
EXTENDS Integers, Sequences, FiniteSets

CONSTANTS
  Worker,     \* the ids in heartbeat:{worker_id}
  BeatLife,   \* half seconds a heartbeat lasts: 30
  BeatEvery,  \* half seconds from one heartbeat to the next, at most: 20
  AuditId,    \* audit_log.audit_id
  MaxAlerts   \* bound on the rows of alerts

ASSUME JobsAssumption == AuditId \subseteq Nat /\ MaxAlerts \in Nat

\* A key is renewed a second or more before it would expire.
ASSUME BeatAssumption ==
  BeatLife \in Nat /\ BeatEvery \in Nat /\ BeatEvery + 2 <= BeatLife

VARIABLES
  alive,      \* the worker runs, and renews its key in time
  left,       \* half seconds its key has left, the one begun included; 0: no key
  broken,     \* the rows of the audit log that do not link to the row before
  checking,   \* the heartbeat check: "idle", "asking" for TTLs, "emitting"
  toAsk,      \* keys it has not asked the TTL of yet
  missing,    \* the workers it takes for absent
  verifying,  \* the chain check: "idle", "emitting"
  brokenAt,   \* where it found the chain broken; 0 for nowhere
  raised,     \* the rows of alerts, in order: "event", "absent", "broken"
  announced,  \* how many rows the `alerts` stream has a message for
  fallen      \* history: workers that have not been alive at some time since the
              \* check in progress began; none while there is no check

jobsVars == <<alive, left, broken, checking, toAsk, missing, verifying, brokenAt, raised,
              announced, fallen>>

\* Every variable has its type; the stream has no message without a row (the
\* commit comes before the publication, in every path of the jobs).
JobsTypeOK ==
  /\ alive \in [Worker -> BOOLEAN] /\ left \in [Worker -> 0..BeatLife] /\ broken \subseteq AuditId
  /\ checking \in {"idle", "asking", "emitting"}
  /\ toAsk \subseteq Worker /\ missing \subseteq Worker /\ fallen \subseteq Worker
  /\ verifying \in {"idle", "emitting"} /\ brokenAt \in AuditId \cup {0}
  /\ raised \in Seq({"event", "absent", "broken"}) /\ Len(raised) <= MaxAlerts
  /\ announced \in 0..Len(raised)

JobsInit ==
  /\ alive \in [Worker -> BOOLEAN]
  /\ left = [w \in Worker |-> IF alive[w] THEN BeatLife ELSE 0]
  /\ broken = {}
  /\ checking = "idle" /\ toAsk = {} /\ missing = {}
  /\ verifying = "idle" /\ brokenAt = 0
  /\ raised = <<>> /\ announced = 0 /\ fallen = {}
-----------------------------------------------------------------------------
(***************************************************************************)
(* The surroundings                                                        *)
(***************************************************************************)
jobVars == <<broken, checking, toAsk, missing, verifying, brokenAt, raised, announced>>

\* A worker starts, or renews its key.
Beat(w) ==
  /\ alive' = [alive EXCEPT ![w] = TRUE] /\ left' = [left EXCEPT ![w] = BeatLife]
  /\ UNCHANGED <<jobVars, fallen>>

\* It stops; the key stays for as long as it has left.
Die(w) ==
  /\ alive[w] /\ alive' = [alive EXCEPT ![w] = FALSE]
  /\ fallen' = IF checking = "idle" THEN {} ELSE fallen \cup {w}
  /\ UNCHANGED <<jobVars, left>>

\* Half a second goes by; whoever is alive has renewed its key in time.
HalfSecond ==
  /\ \A w \in Worker : alive[w] => left[w] > BeatLife - BeatEvery
  /\ left' = [w \in Worker |-> IF left[w] = 0 THEN 0 ELSE left[w] - 1]
  /\ UNCHANGED <<jobVars, alive, fallen>>

\* Rows are changed, or two sessions have linked to the same row.
BreakChain(i) ==
  /\ i \notin broken /\ broken' = broken \cup {i}
  /\ UNCHANGED <<alive, left, checking, toAsk, missing, verifying, brokenAt, raised, announced,
                 fallen>>

\* The alert FSM inserts a row and announces it.
FireEvent ==
  /\ Len(raised) < MaxAlerts /\ raised' = Append(raised, "event")
  /\ announced' = announced + 1
  /\ UNCHANGED <<alive, left, broken, checking, toAsk, missing, verifying, brokenAt, fallen>>
-----------------------------------------------------------------------------
(***************************************************************************)
(* _emit_critical_alert: what the INSERT or the commit raises is logged,   *)
(* and the job ends as if there were a row.                                *)
(***************************************************************************)

Emit(what) ==
  /\ raised' \in {raised} \cup {Append(raised, what) : n \in {Len(raised)} \ {MaxAlerts}}
  /\ UNCHANGED announced
-----------------------------------------------------------------------------
\* _worker_heartbeat_check: KEYS does not return a key that has expired.
ReadKeys ==
  /\ checking = "idle" /\ checking' = "asking"
  /\ toAsk' = {w \in Worker : left[w] > 0}
  /\ fallen' = {w \in Worker : ~alive[w]}
  /\ UNCHANGED <<alive, left, broken, missing, verifying, brokenAt, raised, announced>>

\* What TTL answers: seconds, rounded to the nearest, or -2 when the key has expired
\* since KEYS.
TTLOf(w) == IF left[w] = 0 THEN -2 ELSE left[w] \div 2

\* Mutant of AskTTL: a second is too little.
AskTTLHasty(w) ==
  /\ checking = "asking" /\ w \in toAsk
  /\ toAsk' = toAsk \ {w}
  /\ missing' = IF TTLOf(w) <= 1 THEN missing \cup {w} ELSE missing
  /\ UNCHANGED <<alive, left, broken, checking, verifying, brokenAt, raised, announced, fallen>>

AskTTL(w) ==
  /\ checking = "asking" /\ w \in toAsk
  /\ toAsk' = toAsk \ {w}
  /\ missing' = IF TTLOf(w) <= 0 THEN missing \cup {w} ELSE missing
  /\ UNCHANGED <<alive, left, broken, checking, verifying, brokenAt, raised, announced, fallen>>

AllAsked ==
  /\ checking = "asking" /\ toAsk = {} /\ missing # {}
  /\ checking' = "emitting"
  /\ UNCHANGED <<alive, left, broken, toAsk, missing, verifying, brokenAt, raised, announced, fallen>>

\* The check ends, and what it has found is forgotten.
EndCheck ==
  /\ checking' = "idle" /\ toAsk' = {} /\ missing' = {} /\ fallen' = {}
  /\ UNCHANGED <<alive, left, broken, verifying, brokenAt>>

AllThere ==
  /\ checking = "asking" /\ toAsk = {} /\ missing = {}
  /\ EndCheck /\ UNCHANGED <<raised, announced>>

ReportAbsent == checking = "emitting" /\ EndCheck /\ Emit("absent")

\* Redis raises: the check ends.
CheckFails == checking = "asking" /\ EndCheck /\ UNCHANGED <<raised, announced>>
-----------------------------------------------------------------------------
FirstOf(ids) == CHOOSE i \in ids : \A j \in ids : i <= j

\* _audit_chain_verify: the walk from the oldest row ends at the first break.
VerifyChain ==
  /\ verifying = "idle"
  /\ brokenAt' = IF broken = {} THEN 0 ELSE FirstOf(broken)
  /\ verifying' = IF broken = {} THEN "idle" ELSE "emitting"
  /\ UNCHANGED <<alive, left, broken, checking, toAsk, missing, raised, announced, fallen>>

ReportBroken ==
  /\ verifying = "emitting" /\ verifying' = "idle" /\ brokenAt' = 0
  /\ Emit("broken")
  /\ UNCHANGED <<alive, left, broken, checking, toAsk, missing, fallen>>
-----------------------------------------------------------------------------
JobsNext ==
  \/ \E w \in Worker : Beat(w) \/ Die(w) \/ AskTTL(w)
  \/ HalfSecond
  \/ \E i \in AuditId : BreakChain(i)
  \/ FireEvent
  \/ ReadKeys \/ AllAsked \/ AllThere \/ ReportAbsent \/ CheckFails
  \/ VerifyChain \/ ReportBroken

JobsSpec == JobsInit /\ [][JobsNext]_jobsVars

\* One heartbeat check after the other, each to its end.
HeartbeatCheck ==
  ReadKeys \/ (\E w \in Worker : AskTTL(w)) \/ AllAsked \/ AllThere
  \/ ReportAbsent \/ CheckFails

WatchfulSpec == JobsSpec /\ WF_jobsVars(HeartbeatCheck)
-----------------------------------------------------------------------------
\* No false alarm: whoever the check takes for absent has not been alive at some time
\* since the check began.  A living worker always has a second or more before its key
\* expires, which TTL does not round to nothing, however beats, stops and the passing
\* time come between KEYS and the TTLs.
OnlyFallenMissed == missing \subseteq fallen

\* The jobs keep the types of what they read and write, and accuse nobody falsely.
NoFalseAlarm == JobsTypeOK /\ OnlyFallenMissed

\* What requirements.md:227 says ("WHEN a worker heartbeat expires, THE VMS SHALL emit
\* an admin alert within 15 seconds."), less the seconds: a worker whose heartbeat there
\* was, and has expired for good, is found missing some time, unless Redis keeps failing
\* the checks.
ExpiryNoticed ==
  \A w \in Worker :
    /\ <>(left[w] > 0) /\ <>[](left[w] = 0)
    /\ <>[][~CheckFails]_jobsVars
    => <>(w \in missing)

\* What jobs.py:37 says of _emit_critical_alert ("Routes through AlertDispatcher
\* (Slack/email) via alert_routing."): with both jobs idle, every row of alerts
\* is announced to the dispatcher.
CriticalRouted ==
  checking = "idle" /\ verifying = "idle" => announced = Len(raised)
=============================================================================
