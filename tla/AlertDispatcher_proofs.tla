----------------------- MODULE AlertDispatcher_proofs -----------------------
(***************************************************************************)
(* Theorems about the alert dispatcher, for every routing table, every set *)
(* of senders and every bound.                                             *)
(***************************************************************************)
EXTENDS AlertDispatcher, TLAPS

(***************************************************************************)
(* Lemmas on the helpers the actions are built from.                       *)
(***************************************************************************)

\* Messages are appended and never change, so neither do the rules they match.
LEMMA ArriveKeeps ==
  ASSUME TypeOK, Arrive
  PROVE  /\ alertsStream' \in Seq(Message) /\ Len(alertsStream') <= MaxMessages
         /\ Len(alertsStream') = Len(alertsStream) + 1
         /\ \A n \in 1..Len(alertsStream) : alertsStream'[n] = alertsStream[n]
<1> PICK m \in Message : alertsStream' = Append(alertsStream, m)
  BY DEF Arrive
<1>1. Len(alertsStream) < MaxMessages /\ alertsStream \in Seq(Message)
  BY DEF Arrive, TypeOK
<1>2. MaxMessages \in Nat
  BY DispatcherAssumption
<1> QED
  BY <1>1, <1>2

\* The count of committed failures keeps its range, never goes down, and a full
\* set of failures fills it.
LEMMA CommitFailuresCount ==
  ASSUME TypeOK, rule \in Rule, pos \in 1..MaxMessages,
         NEW n \in 0..MaxAttempts, CommitFailures(n)
  PROVE  /\ failed' \in [1..MaxMessages -> [Channel -> 0..MaxAttempts]]
         /\ \A m \in 1..MaxMessages : \A c \in Channel : failed'[m][c] >= failed[m][c]
         /\ n = MaxAttempts => failed'[pos][Routing[rule].channel] = MaxAttempts
<1> DEFINE c == Routing[rule].channel
           total == failed[pos][c] + n
           count == IF total > MaxAttempts THEN MaxAttempts ELSE total
<1>1. c \in Channel
  BY DEF Channel
<1>2. failed \in [1..MaxMessages -> [Channel -> 0..MaxAttempts]]
  BY DEF TypeOK
<1>3. MaxAttempts \in Nat
  BY DispatcherAssumption
<1>4. failed[pos][c] \in 0..MaxAttempts
  BY <1>1, <1>2
<1>5. /\ count \in 0..MaxAttempts /\ count >= failed[pos][c]
      /\ n = MaxAttempts => count = MaxAttempts
  BY <1>3, <1>4
<1>6. failed' = [failed EXCEPT ![pos][c] = count]
  BY DEF CommitFailures
<1> HIDE DEF c, count
<1>7. failed' = [failed EXCEPT ![pos] = [failed[pos] EXCEPT ![c] = count]]
  BY <1>6
<1>8. failed[pos] \in [Channel -> 0..MaxAttempts]
  BY <1>2
<1>9. /\ failed'[pos][c] = count
      /\ \A m \in 1..MaxMessages : \A d \in Channel :
           m # pos \/ d # c => failed'[m][d] = failed[m][d]
  BY <1>1, <1>2, <1>7, <1>8
<1>10. failed' \in [1..MaxMessages -> [Channel -> 0..MaxAttempts]]
  BY <1>1, <1>2, <1>5, <1>7, <1>8
<1>11. \A m \in 1..MaxMessages : \A d \in Channel : failed[m][d] \in 0..MaxAttempts
  BY <1>2
<1>12. \A m \in 1..MaxMessages : \A d \in Channel : failed'[m][d] >= failed[m][d]
  BY <1>3, <1>5, <1>9, <1>11
<1> QED
  BY <1>5, <1>9, <1>10, <1>12 DEF c
-----------------------------------------------------------------------------
(***************************************************************************)
(* Types, and where the message in hand is: on the stream, inside the      *)
(* batch.                                                                  *)
(***************************************************************************)
Busy == Phase \ {"down", "idle"}

HandOnStream ==
  /\ batchEnd <= Len(alertsStream) /\ cursor <= Len(alertsStream)
  /\ phase \in Busy => pos \in 1..batchEnd

PlaceInv == TypeOK /\ HandOnStream

LEMMA InitPlace == Init => PlaceInv
BY DispatcherAssumption DEF Init, PlaceInv, TypeOK, HandOnStream, Phase, Serving, Busy, Message

LEMMA PlaceStep == PlaceInv /\ [Next]_vars => PlaceInv'
<1> SUFFICES ASSUME TypeOK, HandOnStream, [Next]_vars
             PROVE  TypeOK' /\ HandOnStream'
  BY DEF PlaceInv
<1> USE DispatcherAssumption DEF TypeOK, HandOnStream, Phase, Serving, Busy, NothingInHand
<1>1. CASE Arrive
  <2>1. /\ alertsStream' \in Seq(Message) /\ Len(alertsStream') <= MaxMessages
        /\ Len(alertsStream') = Len(alertsStream) + 1
    BY <1>1, ArriveKeeps
  <2>2. UNCHANGED <<cursor, position, dispatches, dead, cutShort>>
    BY <1>1 DEF Arrive
  <2>3. TypeOK'
    BY <2>1, <2>2 DEF position, dispatches
  <2>4. Len(alertsStream) \in Nat /\ batchEnd \in Nat /\ cursor \in Nat
    OBVIOUS
  <2>5. HandOnStream'
    BY <2>1, <2>2, <2>4 DEF position
  <2> QED
    BY <2>3, <2>5
<1>2. CASE Start
  BY <1>2 DEF Start, dispatches
<1>3. CASE ReadBatch
  BY <1>3 DEF ReadBatch, dispatches
<1>4. CASE Abandon /\ phase \in Busy
  BY <1>4 DEF Abandon, dispatches
<1>5. CASE Begin
  BY <1>5 DEF Begin, dispatches, RulesFor
<1>6. ASSUME NEW r \in Rule, NextRule(r)
      PROVE  TypeOK' /\ HandOnStream'
  BY <1>6 DEF NextRule, dispatches
<1>7. CASE RulesDone
  BY <1>7 DEF RulesDone, dispatches
<1>8. CASE SendReturns
  BY <1>8 DEF SendReturns, dispatches
<1>9. CASE SendFails
  BY <1>9 DEF SendFails, dispatches
<1>10. CASE RecordSuccess
  <2>1. /\ rule \in Rule /\ pos \in 1..MaxMessages
        /\ attempt - 1 \in 0..MaxAttempts
    BY <1>10 DEF RecordSuccess
  <2>2. failed' \in [1..MaxMessages -> [Channel -> 0..MaxAttempts]]
    BY <1>10, <2>1, CommitFailuresCount DEF RecordSuccess
  <2> QED
    BY SMTT(30), <1>10, <2>1, <2>2 DEF RecordSuccess, RuleServed
<1>11. CASE DeadLetter
  <2>1. /\ rule \in Rule /\ pos \in 1..MaxMessages
        /\ MaxAttempts \in 0..MaxAttempts
    BY <1>11 DEF DeadLetter
  <2>2. failed' \in [1..MaxMessages -> [Channel -> 0..MaxAttempts]]
    BY <1>11, <2>1, CommitFailuresCount DEF DeadLetter
  <2> QED
    BY <1>11, <2>1, <2>2 DEF DeadLetter
<1>12. CASE PublishDead
  <2>1. ThisChannel \in (1..MaxMessages) \X Channel
    BY <1>12 DEF PublishDead, ThisChannel, Channel
  <2> QED
    BY <1>12, <2>1 DEF PublishDead, RuleServed, dispatches
<1>13. CASE Ack
  BY SMTT(30), <1>13 DEF Ack, dispatches
<1>14. CASE AckRaises
  BY <1>14 DEF AckRaises, dispatches
<1>15. CASE Crash
  BY <1>15 DEF Crash, dispatches
<1>16. CASE LoseCursor
  BY <1>16 DEF LoseCursor, position, dispatches
<1>17. CASE UNCHANGED vars
  BY <1>17 DEF vars, position, dispatches
<1>18. (BeginRaises \/ NextRuleRaises \/ SendEscapes \/ RecordRaises
         \/ DeadLetterRaises \/ PublishDeadRaises) => Abandon /\ phase \in Busy
  BY DEF BeginRaises, NextRuleRaises, SendEscapes, RecordRaises, DeadLetterRaises,
         PublishDeadRaises
<1> QED
  BY <1>1, <1>2, <1>3, <1>4, <1>5, <1>6, <1>7, <1>8, <1>9, <1>10, <1>11, <1>12,
     <1>13, <1>14, <1>15, <1>16, <1>17, <1>18 DEF Next, Task

\* The dispatcher's variables keep their types: in particular an attempt is never
\* numbered beyond alert_dispatcher_max_attempts.
THEOREM TypeCorrect == Spec => []TypeOK
<1>1. PlaceInv => TypeOK
  BY DEF PlaceInv
<1> QED
  BY <1>1, InitPlace, PlaceStep, PTL DEF Spec
-----------------------------------------------------------------------------
(***************************************************************************)
(* A delivery is recorded once.                                            *)
(***************************************************************************)
LEMMA InitRecorded == Init => RecordedOnce
BY DEF Init, RecordedOnce, AlreadyOn

LEMMA RecordedStep == PlaceInv /\ RecordedOnce /\ [Next]_vars => RecordedOnce'
<1> SUFFICES ASSUME PlaceInv, RecordedOnce, [Next]_vars
             PROVE  RecordedOnce'
  OBVIOUS
<1> USE DEF RecordedOnce, AlreadyOn
<1>1. CASE /\ UNCHANGED <<succeeded, again>>
           /\ phase' \in {"send", "record", "dead"}
                => /\ phase \in {"send", "record", "dead"}
                   /\ UNCHANGED <<pos, rule>>
  BY <1>1
<1>2. CASE Arrive \/ Start \/ ReadBatch \/ Begin \/ RulesDone \/ LoseCursor \/ Crash
  BY <1>1, <1>2 DEF Arrive, Start, ReadBatch, Begin, RulesDone, LoseCursor, Crash,
                    position, dispatches
<1>3. CASE Abandon
  BY <1>1, <1>3 DEF Abandon, dispatches
<1>4. ASSUME NEW r \in Rule, NextRule(r)
      PROVE  RecordedOnce'
  BY <1>4 DEF NextRule, dispatches
<1>5. CASE SendReturns \/ SendFails
  BY <1>1, <1>5 DEF SendReturns, SendFails, dispatches
<1>6. CASE RecordSuccess
  <2>1. /\ phase' = "rules"
        /\ succeeded' = succeeded \cup {<<pos, rule>>}
        /\ again' = again \cup ({<<pos, rule>>} \cap succeeded)
    BY <1>6 DEF RecordSuccess, RuleServed
  <2>2. rule \in Rule /\ ~AlreadyOn(pos, Routing[rule].channel)
    BY <1>6 DEF RecordSuccess, PlaceInv, TypeOK, Serving
  <2>3. <<pos, rule>> \notin succeeded
    BY <2>2
  <2>4. again' = {}
    BY <2>1, <2>3
  <2>5. ASSUME NEW n \in 1..MaxMessages, NEW r \in Rule, NEW q \in Rule,
               <<n, r>> \in succeeded', <<n, q>> \in succeeded',
               Routing[r].channel = Routing[q].channel
        PROVE  r = q
    BY <2>1, <2>2, <2>5
  <2> QED
    BY <2>1, <2>4, <2>5
<1>7. CASE DeadLetter \/ PublishDead
  BY <1>1, <1>7 DEF DeadLetter, PublishDead, RuleServed, dispatches
<1>8. CASE Ack \/ AckRaises
  BY <1>1, <1>8 DEF Ack, AckRaises, dispatches
<1>9. CASE UNCHANGED vars
  BY <1>1, <1>9 DEF vars, position, dispatches
<1>10. (BeginRaises \/ NextRuleRaises \/ SendEscapes \/ RecordRaises
         \/ DeadLetterRaises \/ PublishDeadRaises) => Abandon
  BY DEF BeginRaises, NextRuleRaises, SendEscapes, RecordRaises, DeadLetterRaises,
         PublishDeadRaises
<1> QED
  BY <1>2, <1>3, <1>4, <1>5, <1>6, <1>7, <1>8, <1>9, <1>10 DEF Next, Task

\* Whatever fails, crashes or is replayed, an alert never gets a second success
\* row for a channel, and nothing is sent to a channel that has one.
THEOREM RecordsUnique == Spec => []RecordsSound
<1>1. PlaceInv /\ RecordedOnce => RecordsSound
  BY DEF PlaceInv, RecordsSound
<1> QED
  BY <1>1, InitPlace, PlaceStep, InitRecorded, RecordedStep, PTL DEF Spec
-----------------------------------------------------------------------------
(***************************************************************************)
(* Dead letters: the failures are committed when the XADD is due, and a    *)
(* committed count never goes down.                                        *)
(***************************************************************************)
DueIsBacked == phase = "xadd" => failed[pos][Routing[rule].channel] >= MaxAttempts

DeadInv == DeadLetterBacked /\ DueIsBacked

LEMMA InitDead == Init => DeadInv
BY DEF Init, DeadInv, DeadLetterBacked, DueIsBacked

\* Counts that grow back what they backed before.
LEMMA BackedStays ==
  ASSUME TypeOK, TypeOK', DeadLetterBacked, UNCHANGED dead,
         \A m \in 1..MaxMessages : \A c \in Channel : failed'[m][c] >= failed[m][c]
  PROVE  DeadLetterBacked'
<1> SUFFICES ASSUME NEW l \in dead
             PROVE  failed'[l[1]][l[2]] >= MaxAttempts
  BY DEF DeadLetterBacked
<1>1. l[1] \in 1..MaxMessages /\ l[2] \in Channel
  BY DEF TypeOK
<1>2. failed[l[1]][l[2]] >= MaxAttempts /\ failed'[l[1]][l[2]] >= failed[l[1]][l[2]]
  BY <1>1 DEF DeadLetterBacked
<1>3. failed[l[1]][l[2]] \in Int /\ failed'[l[1]][l[2]] \in Int /\ MaxAttempts \in Int
  BY SMTT(30), <1>1, DispatcherAssumption DEF TypeOK
<1> QED
  BY <1>2, <1>3

LEMMA DeadStep == PlaceInv /\ DeadInv /\ [Next]_vars => DeadInv'
<1> SUFFICES ASSUME PlaceInv, DeadInv, [Next]_vars
             PROVE  DeadInv'
  OBVIOUS
<1>p. PlaceInv'
  BY PlaceStep
<1>t. TypeOK /\ TypeOK' /\ HandOnStream
  BY <1>p DEF PlaceInv
<1>1. CASE UNCHANGED <<failed, dead>> /\ phase' # "xadd"
  BY <1>1 DEF DeadInv, DeadLetterBacked, DueIsBacked
<1>2. CASE Arrive \/ Start \/ ReadBatch \/ Begin \/ RulesDone \/ LoseCursor
             \/ Crash \/ UNCHANGED vars
  BY <1>2 DEF Arrive, Start, ReadBatch, Begin, RulesDone, LoseCursor, Crash, vars,
              position, dispatches, DeadInv, DeadLetterBacked, DueIsBacked
<1>3. CASE Abandon
  BY <1>1, <1>3 DEF Abandon, dispatches
<1>4. ASSUME NEW r \in Rule, NextRule(r)
      PROVE  DeadInv'
  BY <1>1, <1>4 DEF NextRule, dispatches
<1>5. CASE SendReturns \/ SendFails
  BY <1>1, <1>5 DEF SendReturns, SendFails, dispatches
<1>6. CASE RecordSuccess
  <2>1. /\ rule \in Rule /\ pos \in 1..MaxMessages
        /\ attempt - 1 \in 0..MaxAttempts /\ CommitFailures(attempt - 1)
    BY <1>6, <1>t, DispatcherAssumption
       DEF RecordSuccess, TypeOK, HandOnStream, Busy, Phase, Serving
  <2>2. \A m \in 1..MaxMessages : \A c \in Channel : failed'[m][c] >= failed[m][c]
    BY <1>t, <2>1, CommitFailuresCount
  <2>3. UNCHANGED dead /\ phase' = "rules"
    BY <1>6 DEF RecordSuccess, RuleServed
  <2> QED
    BY <1>t, <2>2, <2>3, BackedStays DEF DeadInv, DueIsBacked
<1>7. CASE DeadLetter
  <2>1. /\ rule \in Rule /\ pos \in 1..MaxMessages
        /\ MaxAttempts \in 0..MaxAttempts /\ CommitFailures(MaxAttempts)
    BY <1>7, <1>t, DispatcherAssumption
       DEF DeadLetter, TypeOK, HandOnStream, Busy, Phase, Serving
  <2>2. /\ \A m \in 1..MaxMessages : \A c \in Channel : failed'[m][c] >= failed[m][c]
        /\ failed'[pos][Routing[rule].channel] = MaxAttempts
    BY <1>t, <2>1, CommitFailuresCount
  <2>3. UNCHANGED <<dead, pos, rule>>
    BY <1>7 DEF DeadLetter
  <2>4. DueIsBacked'
    BY <2>2, <2>3, DispatcherAssumption DEF DueIsBacked
  <2> QED
    BY <1>t, <2>2, <2>3, <2>4, BackedStays DEF DeadInv
<1>8. CASE PublishDead
  <2>1. /\ dead' = dead \cup {ThisChannel} /\ UNCHANGED failed
        /\ phase = "xadd" /\ phase' = "rules"
    BY <1>8 DEF PublishDead, RuleServed, dispatches
  <2>2. failed[ThisChannel[1]][ThisChannel[2]] >= MaxAttempts
    BY <2>1 DEF ThisChannel, DeadInv, DueIsBacked
  <2> QED
    BY <2>1, <2>2 DEF DeadInv, DeadLetterBacked, DueIsBacked
<1>9. CASE Ack \/ AckRaises
  BY <1>1, <1>9 DEF Ack, AckRaises, dispatches
<1>10. (BeginRaises \/ NextRuleRaises \/ SendEscapes \/ RecordRaises
         \/ DeadLetterRaises \/ PublishDeadRaises) => Abandon
  BY DEF BeginRaises, NextRuleRaises, SendEscapes, RecordRaises, DeadLetterRaises,
         PublishDeadRaises
<1> QED
  BY <1>2, <1>3, <1>4, <1>5, <1>6, <1>7, <1>8, <1>9, <1>10 DEF Next, Task

\* A dead letter is backed by committed failure rows of all its attempts.
THEOREM DeadLettersBacked == Spec => []DeadLetterBacked
<1>1. DeadInv => DeadLetterBacked
  BY DEF DeadInv
<1> QED
  BY <1>1, InitPlace, PlaceStep, InitDead, DeadStep, PTL DEF Spec
-----------------------------------------------------------------------------
(***************************************************************************)
(* Nothing passes unaccounted for: what an exception cut short is known,   *)
(* everything else behind the cursor has its records.                      *)
(***************************************************************************)
Served(n, r) ==
  Routing[r].channel \in Senders
    => AlreadyOn(n, Routing[r].channel) \/ <<n, Routing[r].channel>> \in dead

Accounted(n) == \A r \in RulesFor(n) : Served(n, r)

Settled(n) == n \in cutShort \/ Accounted(n)

\* Messages before the one in hand are settled; a rule of the message in hand is
\* still to come, or being served, or done.
AccountedInv ==
  /\ \A n \in 1..cursor : Settled(n)
  /\ phase \in Busy => cursor < pos /\ \A n \in 1..(pos - 1) : Settled(n)
  /\ phase \in {"rules"} \cup Serving
       => \A r \in RulesFor(pos) \ todo : (phase \in Serving /\ r = rule) \/ Served(pos, r)
  /\ phase = "ack" => Settled(pos)

\* What is accounted for stays so: records and dead letters are never removed.
LEMMA AccountedStays ==
  ASSUME NEW n, alertsStream'[n] = alertsStream[n],
         succeeded \subseteq succeeded', dead \subseteq dead'
  PROVE  /\ RulesFor(n)' = RulesFor(n)
         /\ \A r : Served(n, r) => Served(n, r)'
         /\ Accounted(n) => Accounted(n)'
BY DEF RulesFor, Served, Accounted, AlreadyOn

LEMMA InitAccounted == Init => AccountedInv
BY DEF Init, AccountedInv, Busy, Phase, Serving

\* The exception handler: the message in hand is known to be cut short.
LEMMA AbandonKeeps ==
  ASSUME PlaceInv, AccountedInv, phase \in Busy, Abandon
  PROVE  AccountedInv'
<1>1. /\ UNCHANGED <<alertsStream, cursor, pos, succeeded, dead>> /\ phase' = "ack"
      /\ cutShort' = cutShort \cup {pos}
  BY DEF Abandon, dispatches
<1>2. \A n : Settled(n) => Settled(n)'
  BY <1>1, AccountedStays DEF Settled
<1>3. Settled(pos)'
  BY <1>1 DEF Settled
<1> QED
  BY <1>1, <1>2, <1>3 DEF AccountedInv, Busy, Phase, Serving

LEMMA AccountedStep == PlaceInv /\ AccountedInv /\ [Next]_vars => AccountedInv'
<1> SUFFICES ASSUME PlaceInv, AccountedInv, [Next]_vars
             PROVE  AccountedInv'
  OBVIOUS
<1>t. /\ TypeOK /\ HandOnStream
      /\ Len(alertsStream) \in Nat /\ cursor \in Nat /\ batchEnd \in Nat /\ pos \in Nat
  BY DEF PlaceInv, TypeOK
<1>1. CASE Arrive
  <2>1. /\ Len(alertsStream') = Len(alertsStream) + 1
        /\ \A n \in 1..Len(alertsStream) : alertsStream'[n] = alertsStream[n]
    BY <1>1, <1>t, ArriveKeeps
  <2>2. UNCHANGED <<cursor, position, dispatches, dead, cutShort>>
    BY <1>1 DEF Arrive
  <2>6. \A n \in 1..Len(alertsStream) :
          /\ RulesFor(n)' = RulesFor(n)
          /\ \A r : Served(n, r) => Served(n, r)'
          /\ Settled(n) => Settled(n)'
    BY <2>1, <2>2, AccountedStays DEF dispatches, Settled
  <2>7. \A n \in 1..cursor : Settled(n)'
    BY <1>t, <2>6 DEF AccountedInv, HandOnStream
  <2>8. phase \in Busy => /\ pos \in 1..Len(alertsStream)
                          /\ \A n \in 1..(pos - 1) : n \in 1..Len(alertsStream)
    BY <1>t DEF HandOnStream
  <2>9. phase \in Busy => \A n \in 1..(pos - 1) : Settled(n)'
    BY <2>6, <2>8 DEF AccountedInv
  <2>10. phase \in {"rules"} \cup Serving
          => \A r \in RulesFor(pos)' \ todo : (phase \in Serving /\ r = rule) \/ Served(pos, r)'
    <3>1. phase \in {"rules"} \cup Serving => phase \in Busy
      BY DEF Serving, Busy, Phase
    <3> QED
      BY <3>1, <2>2, <2>6, <2>8 DEF AccountedInv, position
  <2>11. phase = "ack" => Settled(pos)'
    <3>1. phase = "ack" => phase \in Busy
      BY DEF Busy, Phase
    <3> QED
      BY <3>1, <2>2, <2>6, <2>8 DEF AccountedInv, position
  <2> QED
    BY <2>2, <2>7, <2>9, <2>10, <2>11 DEF AccountedInv, position
<1>a. CASE BeginRaises \/ NextRuleRaises \/ SendEscapes \/ RecordRaises
             \/ DeadLetterRaises \/ PublishDeadRaises
  <2>1. phase \in Busy /\ Abandon
    BY <1>a DEF BeginRaises, NextRuleRaises, SendEscapes, RecordRaises, DeadLetterRaises,
                PublishDeadRaises, Busy, Phase
  <2> QED
    BY <2>1, AbandonKeeps
<1>b. CASE Begin
  <2>1. /\ UNCHANGED <<alertsStream, cursor, pos, rule, succeeded, dead>>
        /\ phase = "begin" /\ phase' = "rules" /\ todo' = RulesFor(pos)
        /\ cutShort' = cutShort \ {pos}
    BY <1>b DEF Begin, dispatches
  <2>2. \A n : /\ RulesFor(n)' = RulesFor(n)
               /\ n # pos /\ Settled(n) => Settled(n)'
    BY <2>1, AccountedStays DEF Settled
  <2>3. cursor < pos /\ \A n \in 1..(pos - 1) : Settled(n)
    BY <2>1 DEF AccountedInv, Busy, Phase
  <2>4. \A n \in 1..(pos - 1) : Settled(n)'
    BY <1>t, <2>2, <2>3
  <2> QED
    BY <1>t, <2>1, <2>2, <2>3, <2>4 DEF AccountedInv, Busy, Phase, Serving
<1>2. CASE /\ UNCHANGED <<alertsStream, cutShort>>
           /\ succeeded \subseteq succeeded' /\ dead \subseteq dead' /\ ~Begin /\ ~Arrive
           /\ ~(BeginRaises \/ NextRuleRaises \/ SendEscapes \/ RecordRaises
                  \/ DeadLetterRaises \/ PublishDeadRaises)
  <2>1. \A n : /\ RulesFor(n)' = RulesFor(n)
               /\ \A r : Served(n, r) => Served(n, r)'
               /\ Settled(n) => Settled(n)'
    BY <1>2, AccountedStays DEF Settled
  <2>2. CASE Start \/ Crash \/ AckRaises
    BY <2>1, <2>2 DEF Start, Crash, AckRaises, AccountedInv, Busy, Phase, Serving
  <2>r. CASE ReadBatch
    BY <1>t, <2>1, <2>r DEF ReadBatch, AccountedInv, Busy, Phase, Serving
  <2>l. CASE LoseCursor \/ UNCHANGED vars
    <3>1. UNCHANGED <<alertsStream, phase, pos, todo, rule>> /\ cursor' \in {0, cursor}
      BY <2>l DEF LoseCursor, vars, position
    <3>2. \A n \in 1..cursor' : Settled(n)'
      BY <2>1, <3>1 DEF AccountedInv
    <3>3. phase \in Busy => cursor' < pos /\ \A n \in 1..(pos - 1) : Settled(n)'
      BY <1>t, <2>1, <3>1 DEF AccountedInv
    <3> QED
      BY <2>1, <3>1, <3>2, <3>3 DEF AccountedInv
  <2>4. ASSUME NEW r \in Rule, NextRule(r)
        PROVE  AccountedInv'
    BY <1>t, <2>1, <2>4 DEF NextRule, AccountedInv, Served, Busy, Phase, Serving, dispatches
  <2>5. CASE RulesDone
    <3>1. Accounted(pos)
      BY <2>5 DEF RulesDone, AccountedInv, Accounted, Serving
    <3> QED
      BY <1>t, <2>1, <2>5, <3>1 DEF RulesDone, AccountedInv, Settled, Busy, Phase, Serving
  <2>6. CASE SendReturns \/ SendFails \/ DeadLetter
    BY <1>t, <2>1, <2>6 DEF SendReturns, SendFails, DeadLetter, AccountedInv, Busy,
                       Phase, Serving
  <2>7. CASE RecordSuccess
    <3>1. rule \in Rule /\ succeeded' = succeeded \cup {<<pos, rule>>}
      BY <1>t, <2>7 DEF RecordSuccess, TypeOK, Serving
    <3>2. ASSUME NEW n, NEW r, n = pos, r = rule
          PROVE  Served(n, r)'
      BY <3>1, <3>2 DEF Served, AlreadyOn
    <3>3. UNCHANGED <<alertsStream, cursor, pos, todo>> /\ phase = "record" /\ phase' = "rules"
      BY <2>7 DEF RecordSuccess, RuleServed
    <3> QED
      BY <2>1, <3>2, <3>3 DEF AccountedInv, Busy, Phase, Serving
  <2>8. CASE PublishDead
    <3>1. ASSUME NEW n, NEW r, n = pos, r = rule
          PROVE  Served(n, r)'
      BY <2>8, <3>1 DEF Served, PublishDead, ThisChannel
    <3>2. UNCHANGED <<alertsStream, cursor, pos, todo>> /\ phase = "xadd" /\ phase' = "rules"
      BY <2>8 DEF PublishDead, RuleServed
    <3> QED
      BY <2>1, <3>1, <3>2 DEF AccountedInv, Busy, Phase, Serving
  <2>9. CASE Ack
    <3>1. \A n \in 1..pos : Settled(n)'
      BY <1>t, <2>1, <2>9 DEF Ack, AccountedInv, Busy, Phase
    <3>2. /\ UNCHANGED <<alertsStream>> /\ cursor' = pos /\ phase' \in {"begin", "idle"}
          /\ phase' = "begin" => pos' = pos + 1
      BY <2>9 DEF Ack
    <3> QED
      BY <1>t, <3>1, <3>2 DEF AccountedInv, Busy, Phase, Serving
  <2> QED
    BY <1>2, <2>2, <2>4, <2>5, <2>6, <2>7, <2>8, <2>9, <2>r, <2>l DEF Next, Task
<1>3. Arrive \/ Begin \/ BeginRaises \/ NextRuleRaises \/ SendEscapes \/ RecordRaises
        \/ DeadLetterRaises \/ PublishDeadRaises
        \/ /\ UNCHANGED <<alertsStream, cutShort>>
           /\ succeeded \subseteq succeeded' /\ dead \subseteq dead'
  BY DEF Next, Task, Start, ReadBatch, NextRule, RulesDone, SendReturns,
     SendFails, RecordSuccess, DeadLetter, PublishDead, RuleServed, Ack, AckRaises, Crash,
     LoseCursor, vars, position, dispatches
<1> QED
  BY <1>1, <1>2, <1>3, <1>a, <1>b

\* Whatever channels fail, however often the process dies or the cursor key is
\* lost, the cursor has passed an alert only when every channel it matches has a
\* record of the delivery or a dead letter, unless an exception that is not a
\* ChannelError ended its last handling.
THEOREM NothingPassesUnaccounted == Spec => []PassedIsAccounted
<1>1. AccountedInv => PassedIsAccounted
  BY DEF AccountedInv, PassedIsAccounted, Settled, Accounted, Served, Handled
<1>2. PlaceInv /\ AccountedInv /\ [Next]_vars => AccountedInv'
  BY AccountedStep
<1> QED
  BY <1>1, <1>2, InitPlace, PlaceStep, InitAccounted, PTL DEF Spec
=============================================================================
