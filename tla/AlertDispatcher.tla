-------------------------- MODULE AlertDispatcher --------------------------
(***************************************************************************)
(* src/vms/dispatcher/worker.py and router.py: the task that reads the     *)
(* `alerts` stream and serves the routing rules each alert matches, with   *)
(* retries, a record per delivery and a dead letter for what never         *)
(* arrived.  Its cursor is a Redis key, set after each message; its        *)
(* records are rows of alert_dispatches, committed by write_audit_event.   *)
(*                                                                         *)
(* The failed attempts of the rule being served are flushed and not yet    *)
(* committed: `attempt` counts them, and a rollback forgets them.          *)
(* Messages are numbered by their position on the stream.                  *)
(***************************************************************************)
EXTENDS Integers, Sequences

CONSTANTS
  Rule,         \* alert_routing.routing_id
  NoRule,       \* no rule is being served
  Routing,      \* Routing[r]: the row (type, severity, zone, channel, active)
  Any,          \* NULL: the field of a rule that matches everything, and the
                \* zone of an alert that has none
  Senders,      \* the channels from_settings found credentials for
  AlertKind,    \* what rules are matched against: type, severity, zone
  MaxAttempts,  \* alert_dispatcher_max_attempts
  StrCursor,    \* does the Redis client decode responses (api/deps.py does)?
  Failures,     \* what may go wrong, a subset of FailureKind
  MaxMessages   \* bound on the alerts stream

Channel == {Routing[r].channel : r \in Rule}
Message == [kind : AlertKind, wellFormed : BOOLEAN, stored : BOOLEAN]

\* channel: ChannelError.  escape: another exception out of a sender.
\* database: a query, flush or commit raises.  redis: SET or XADD raises.
\* message: payloads that do not parse, alerts without a row in the database.
\* crash: the process dies or is cancelled.  reset: the cursor key is lost.
FailureKind ==
  {"channel", "escape", "database", "redis", "message", "crash", "reset"}

ASSUME DispatcherAssumption ==
  /\ MaxAttempts \in Nat \ {0} /\ MaxMessages \in Nat
  /\ NoRule \notin Rule
  /\ StrCursor \in BOOLEAN /\ Failures \subseteq FailureKind

VARIABLES
  alertsStream, \* the messages of the `alerts` stream
  cursor,       \* dispatcher:alerts:cursor; 0 when the key does not exist
  phase,        \* where the task is suspended
  batchEnd,     \* last message of the batch in hand
  pos,          \* the message in hand
  todo,         \* rules of it not looked at yet
  rule,         \* the rule being served, or NoRule
  attempt,      \* number of the attempt in flight
  succeeded,    \* committed success rows: {<<message, rule>>}
  again,        \* those of which there are two or more
  failed,       \* committed failure rows: failed[n][c], counted to MaxAttempts
  dead,         \* the dead_alerts stream: {<<message, channel>>}
  cutShort      \* history: messages whose last handling an exception ended

position == <<phase, batchEnd, pos, todo, rule, attempt>>
dispatches == <<succeeded, again, failed>>
vars == <<alertsStream, cursor, position, dispatches, dead, cutShort>>

Phase == {"down", "idle", "begin", "rules", "send", "record", "dead", "xadd", "ack"}
Serving == {"send", "record", "dead", "xadd"}

TypeOK ==
  /\ alertsStream \in Seq(Message) /\ Len(alertsStream) <= MaxMessages
  /\ cursor \in 0..MaxMessages
  /\ phase \in Phase
  /\ batchEnd \in 0..MaxMessages /\ pos \in 0..MaxMessages
  /\ todo \subseteq Rule
  /\ rule \in Rule \cup {NoRule} /\ (phase \in Serving => rule \in Rule)
  /\ attempt \in 1..MaxAttempts
  /\ succeeded \subseteq (1..MaxMessages) \X Rule /\ again \subseteq succeeded
  /\ failed \in [1..MaxMessages -> [Channel -> 0..MaxAttempts]]
  /\ dead \subseteq (1..MaxMessages) \X Channel
  /\ cutShort \subseteq 1..MaxMessages

Init ==
  /\ alertsStream = <<>> /\ cursor = 0
  /\ phase = "down" /\ batchEnd = 0 /\ pos = 0
  /\ todo = {} /\ rule = NoRule /\ attempt = 1
  /\ succeeded = {} /\ again = {} /\ dead = {} /\ cutShort = {}
  /\ failed = [n \in 1..MaxMessages |-> [c \in Channel |-> 0]]
-----------------------------------------------------------------------------
\* match_routing_rules: NULL fields are wildcards, WEBSOCKET is not ours.
Matches(row, kind) ==
  /\ row.active /\ row.channel # "WEBSOCKET"
  /\ row.type \in {Any, kind.type}
  /\ row.severity \in {Any, kind.severity}
  /\ row.zone \in {Any, kind.zone}

RulesFor(n) == {r \in Rule : Matches(Routing[r], alertsStream[n].kind)}
InHand == alertsStream[pos]
ThisChannel == <<pos, Routing[rule].channel>>

\* The idempotency guard: a success row for the alert and the channel, with
\* whichever target.
AlreadyOn(n, c) == \E r \in Rule : Routing[r].channel = c /\ <<n, r>> \in succeeded

\* The stream gets the alerts the FSM publishes (external).
Arrive ==
  /\ Len(alertsStream) < MaxMessages
  /\ \E m \in Message :
       /\ "message" \in Failures \/ (m.wellFormed /\ m.stored)
       /\ m.wellFormed \/ m.stored
       /\ alertsStream' = Append(alertsStream, m)
  /\ UNCHANGED <<cursor, position, dispatches, dead, cutShort>>

\* The lifespan task of the API process.
Start ==
  /\ phase = "down" /\ phase' = "idle"
  /\ UNCHANGED <<alertsStream, cursor, batchEnd, pos, todo, rule, attempt,
                 dispatches, dead, cutShort>>

\* _process_once up to the XREAD.  Under StrCursor last_id_bytes is a str: once
\* the key exists, .decode() raises and run() tries again in five seconds.
ReadBatch ==
  /\ phase = "idle" /\ cursor < Len(alertsStream)
  /\ ~(StrCursor /\ cursor # 0)
  /\ phase' = "begin" /\ pos' = cursor + 1 /\ batchEnd' = Len(alertsStream)
  /\ UNCHANGED <<alertsStream, cursor, todo, rule, attempt, dispatches, dead, cutShort>>

\* The `except Exception` of _handle_message: rollback, and on to the SET.
Abandon ==
  /\ phase' = "ack" /\ todo' = {} /\ rule' = NoRule /\ attempt' = 1
  /\ cutShort' = cutShort \cup {pos}
  /\ UNCHANGED <<alertsStream, cursor, batchEnd, pos, dispatches, dead>>

\* Parse, enrich, match.
Begin ==
  /\ phase = "begin" /\ InHand.wellFormed
  /\ phase' = "rules" /\ todo' = RulesFor(pos)
  /\ cutShort' = cutShort \ {pos}
  /\ UNCHANGED <<alertsStream, cursor, batchEnd, pos, rule, attempt, dispatches, dead>>

\* Mutant of BeginRaises: a message that fails is read again, not passed.
BeginRaisesAndRetries ==
  /\ phase = "begin" /\ (~InHand.wellFormed \/ "database" \in Failures)
  /\ phase' = "idle"
  /\ UNCHANGED <<alertsStream, cursor, batchEnd, pos, todo, rule, attempt,
                 dispatches, dead, cutShort>>

BeginRaises ==
  /\ phase = "begin" /\ (~InHand.wellFormed \/ "database" \in Failures)
  /\ Abandon

\* Mutant of NextRule: no idempotency guard.
NextRuleUnguarded(r) ==
  /\ phase = "rules" /\ r \in todo
  /\ todo' = todo \ {r}
  /\ IF Routing[r].channel \in Senders
     THEN phase' = "send" /\ rule' = r
     ELSE UNCHANGED <<phase, rule>>
  /\ UNCHANGED <<alertsStream, cursor, batchEnd, pos, attempt, dispatches, dead, cutShort>>

\* The loop over the rules, which q.all() returns in no particular order: the
\* channel has no sender, or already has a success row, or is attempted.
NextRule(r) ==
  /\ phase = "rules" /\ r \in todo
  /\ todo' = todo \ {r}
  /\ IF Routing[r].channel \in Senders /\ ~AlreadyOn(pos, Routing[r].channel)
     THEN phase' = "send" /\ rule' = r
     ELSE UNCHANGED <<phase, rule>>
  /\ UNCHANGED <<alertsStream, cursor, batchEnd, pos, attempt, dispatches, dead, cutShort>>

RulesDone ==
  /\ phase = "rules" /\ todo = {}
  /\ phase' = "ack"
  /\ UNCHANGED <<alertsStream, cursor, batchEnd, pos, todo, rule, attempt,
                 dispatches, dead, cutShort>>

NextRuleRaises ==
  /\ phase = "rules" /\ "database" \in Failures
  /\ Abandon
-----------------------------------------------------------------------------
\* sender.send returns ...
SendReturns ==
  /\ phase = "send" /\ phase' = "record"
  /\ UNCHANGED <<alertsStream, cursor, batchEnd, pos, todo, rule, attempt,
                 dispatches, dead, cutShort>>

\* ... or raises ChannelError, whether or not the receiver took the alert: the
\* failure row is flushed, and the next attempt begins after its delay.
SendFails ==
  /\ phase = "send" /\ "channel" \in Failures /\ InHand.stored
  /\ IF attempt < MaxAttempts
     THEN attempt' = attempt + 1 /\ UNCHANGED phase
     ELSE phase' = "dead" /\ UNCHANGED attempt
  /\ UNCHANGED <<alertsStream, cursor, batchEnd, pos, todo, rule, dispatches, dead, cutShort>>

\* ... or raises something else, or the flush of the failure row raises: the
\* foreign key of a row without alert does.
SendEscapes ==
  /\ phase = "send"
  /\ \/ "escape" \in Failures
     \/ "channel" \in Failures /\ (~InHand.stored \/ "database" \in Failures)
  /\ Abandon

\* The failures of this rule's earlier attempts, committed with what follows.
CommitFailures(n) ==
  LET c == Routing[rule].channel
      total == failed[pos][c] + n
  IN failed' = [failed EXCEPT ![pos][c] =
                  IF total > MaxAttempts THEN MaxAttempts ELSE total]

RuleServed ==
  /\ phase' = "rules" /\ rule' = NoRule /\ attempt' = 1
  /\ UNCHANGED <<alertsStream, cursor, batchEnd, pos, todo>>

\* Flush the success row, write the audit event, which commits.
RecordSuccess ==
  /\ phase = "record" /\ InHand.stored
  /\ succeeded' = succeeded \cup {<<pos, rule>>}
  /\ again' = again \cup ({<<pos, rule>>} \cap succeeded)
  /\ CommitFailures(attempt - 1)
  /\ RuleServed
  /\ UNCHANGED <<dead, cutShort>>

RecordRaises ==
  /\ phase = "record" /\ (~InHand.stored \/ "database" \in Failures)
  /\ Abandon

\* Mutant of DeadLetter: nothing commits the failure rows.
DeadLetterUncommitted ==
  /\ phase = "dead" /\ phase' = "xadd"
  /\ UNCHANGED <<alertsStream, cursor, batchEnd, pos, todo, rule, attempt,
                 dispatches, dead, cutShort>>

\* After the last attempt: the audit event commits the failure rows ...
DeadLetter ==
  /\ phase = "dead" /\ phase' = "xadd"
  /\ CommitFailures(MaxAttempts)
  /\ UNCHANGED <<alertsStream, cursor, batchEnd, pos, todo, rule, attempt,
                 succeeded, again, dead, cutShort>>

DeadLetterRaises ==
  /\ phase = "dead" /\ "database" \in Failures
  /\ Abandon

\* ... and the pair goes to the dead_alerts stream.
PublishDead ==
  /\ phase = "xadd"
  /\ dead' = dead \cup {ThisChannel}
  /\ RuleServed
  /\ UNCHANGED <<dispatches, cutShort>>

PublishDeadRaises ==
  /\ phase = "xadd" /\ "redis" \in Failures
  /\ Abandon
-----------------------------------------------------------------------------
NothingInHand == pos' = 0 /\ batchEnd' = 0

\* Mutant of Ack: the cursor jumps to the end of the batch.
AckBatch ==
  /\ phase = "ack"
  /\ cursor' = batchEnd
  /\ IF pos < batchEnd THEN phase' = "begin" /\ pos' = pos + 1 /\ UNCHANGED batchEnd
                       ELSE phase' = "idle" /\ NothingInHand
  /\ UNCHANGED <<alertsStream, todo, rule, attempt, dispatches, dead, cutShort>>

\* SET the cursor, and take the next message of the batch.
Ack ==
  /\ phase = "ack"
  /\ cursor' = pos
  /\ IF pos < batchEnd THEN phase' = "begin" /\ pos' = pos + 1 /\ UNCHANGED batchEnd
                       ELSE phase' = "idle" /\ NothingInHand
  /\ UNCHANGED <<alertsStream, todo, rule, attempt, dispatches, dead, cutShort>>

\* The SET raises: run() drops the batch and reads again from the old cursor.
AckRaises ==
  /\ phase = "ack" /\ "redis" \in Failures
  /\ phase' = "idle" /\ NothingInHand
  /\ UNCHANGED <<alertsStream, cursor, todo, rule, attempt, dispatches, dead, cutShort>>

Crash ==
  /\ phase # "down" /\ "crash" \in Failures
  /\ phase' = "down" /\ todo' = {} /\ rule' = NoRule /\ attempt' = 1 /\ NothingInHand
  /\ UNCHANGED <<alertsStream, cursor, dispatches, dead, cutShort>>

LoseCursor ==
  /\ "reset" \in Failures /\ cursor # 0
  /\ cursor' = 0
  /\ UNCHANGED <<alertsStream, position, dispatches, dead, cutShort>>

Task ==
  \/ Start \/ ReadBatch \/ Begin \/ BeginRaises
  \/ (\E r \in Rule : NextRule(r)) \/ RulesDone \/ NextRuleRaises
  \/ SendReturns \/ SendFails \/ SendEscapes
  \/ RecordSuccess \/ RecordRaises
  \/ DeadLetter \/ DeadLetterRaises \/ PublishDead \/ PublishDeadRaises
  \/ Ack \/ AckRaises

Next == Arrive \/ Task \/ Crash \/ LoseCursor

Spec == Init /\ [][Next]_vars

\* The event loop runs the task, and a Redis that keeps being asked to SET the
\* cursor does so in the end.
FairSpec == Spec /\ WF_vars(Task) /\ SF_vars(Ack)
-----------------------------------------------------------------------------
(***************************************************************************)
(* Properties                                                              *)
(***************************************************************************)
Handled == 1..cursor

\* A delivery is recorded once: whatever is lost, repeated or replayed, an
\* alert never gets a second success row for a channel, and no send is in
\* flight for a channel that has one (hardening plan: the rows "serve as an
\* idempotency guard" when the cursor is reset).
RecordedOnce ==
  /\ again = {}
  /\ \A n \in 1..MaxMessages : \A r, q \in Rule :
       /\ <<n, r>> \in succeeded /\ <<n, q>> \in succeeded
       /\ Routing[r].channel = Routing[q].channel
       => r = q
  /\ phase \in {"send", "record", "dead"} => ~AlreadyOn(pos, Routing[rule].channel)

\* _handle_message and _dispatch_with_retry keep the types of what they write, the
\* number of attempts included, and record a delivery once.
RecordsSound == TypeOK /\ RecordedOnce

\* A dead letter is backed by the table: the failure rows of all its attempts
\* are committed before it is on the stream, and stay so after crashes.
DeadLetterBacked ==
  \A l \in dead : failed[l[1]][l[2]] >= MaxAttempts

\* The cursor passes an alert only when each channel it matches has a record of
\* the delivery or a dead letter, unless an exception that is not a ChannelError
\* cut its last handling short: crashes, failing channels and a lost cursor key
\* lose nothing.
PassedIsAccounted ==
  \A n \in Handled \ cutShort : \A r \in RulesFor(n) :
    Routing[r].channel \in Senders
      => AlreadyOn(n, Routing[r].channel) \/ <<n, Routing[r].channel>> \in dead

\* Every alert is handled in the end, once the process stays up and the cursor key
\* is no longer lost.
EveryAlertHandled ==
  \A n \in 1..MaxMessages :
    <>[](phase # "down") /\ <>[][~LoseCursor]_vars
      => (Len(alertsStream) >= n ~> cursor >= n)

\* README.md:290, the fan-out happens "For each matching rule".
EveryRuleServed ==
  \A n \in Handled : \A r \in RulesFor(n) :
    Routing[r].channel \in Senders
      => <<n, r>> \in succeeded \/ <<n, Routing[r].channel>> \in dead
=============================================================================
