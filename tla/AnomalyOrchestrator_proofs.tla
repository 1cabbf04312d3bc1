--------------------- MODULE AnomalyOrchestrator_proofs ---------------------
(***************************************************************************)
(* The orchestrator drives the alert FSM as module AlertFSM says: proved   *)
(* from the types of its own variables, which make every event it hands to *)
(* process a member of Event.  What is proved of AlertFSM then holds of    *)
(* the running loop, whatever the number of detectors and frames.          *)
(***************************************************************************)
EXTENDS AnomalyOrchestrator, AlertFSM_proofs

\* The types of what the loop adds to the FSM.
LoopTypeOK ==
  /\ frames \in Seq(Frame) /\ Len(frames) <= MaxFrames
  /\ cursor \in 0..Len(frames)
  /\ at \in Between..Done
  /\ at # Between => cursor < Len(frames)
  /\ errors \in [Detector -> 0..MaxErrors]
  /\ sinceEvict \in 0..(EvictEvery - 1)
  /\ missed \in [Key -> Nat]

\* A publication is awaited only by a running process, inside a frame: without
\* it, a publication that fails could end a frame that was never begun.
PendingInFrame == pending # NoAlert => up /\ at # Between

LoopInv == LoopTypeOK /\ PendingInFrame

LEMMA ConstantTypes ==
  /\ Detectors \in Nat \ {0} /\ MaxErrors \in Nat \ {0}
  /\ EvictEvery \in Nat \ {0} /\ MaxFrames \in Nat
BY OrchestratorAssumption

\* An event the detectors report is an event of the FSM, under one of their keys.
LEMMA ReportedEvent ==
  ASSUME LoopTypeOK, NEW d \in Detector, at = d, Current.ev[d] # NoEvent
  PROVE  Current.ev[d] \in Event /\ Current.ev[d].key \in KeysOf[d]
<1>1. cursor + 1 \in DOMAIN frames
  BY ConstantTypes DEF LoopTypeOK, Between, Done, Detector
<1>2. Current \in Frame
  BY <1>1 DEF LoopTypeOK, Current
<1> QED
  BY <1>2, OrchestratorAssumption

LEMMA LoopInit == OrchestratorInit => LoopInv
BY ConstantTypes DEF OrchestratorInit, Init, LoopInv, LoopTypeOK, PendingInFrame,
                     Between, Done, Detector, NoAlert

LEMMA LoopTypeStep ==
  ASSUME LoopInv, [OrchestratorNext]_allVars
  PROVE  LoopTypeOK'
<1> USE ConstantTypes DEF LoopInv
<1>1. CASE Arrive
  <2>1. PICK f \in Frame : frames' = Append(frames, f)
    BY <1>1 DEF Arrive
  <2>2. frames' \in Seq(Frame) /\ Len(frames') = Len(frames) + 1
    BY <2>1 DEF LoopTypeOK
  <2> QED
    BY <1>1, <2>2 DEF Arrive, LoopTypeOK, loopVars, Between, Done, Detector
<1>2. CASE BeginFrame
  BY <1>2 DEF BeginFrame, LoopTypeOK, Between, Done, Detector
<1>3. CASE FinishFrame
  BY <1>3 DEF FinishFrame, LoopTypeOK, Between, Done, Detector
<1>4. CASE PublishReturns
  BY <1>4 DEF PublishReturns, loopVars, LoopTypeOK, Between, Done, Detector
<1>5. CASE PublishFails
  BY <1>5 DEF PublishFails, PublishRaises, LoopTypeOK, PendingInFrame,
              Between, Done, Detector
<1>6. ASSUME NEW d \in Detector,
             \/ SkipDisabled(d) \/ NotRun(d) \/ Raises(d)
             \/ Quiet(d) \/ Reports(d)
      PROVE  LoopTypeOK'
  <2>1. PICK count \in 0..MaxErrors : Advance(d, count) /\ at = d
    <3>1. errors[d] \in 0..MaxErrors
      BY DEF LoopTypeOK
    <3>2. ~Disabled(d) => errors[d] + 1 \in 0..MaxErrors
      BY <3>1 DEF Disabled
    <3>3. 0 \in 0..MaxErrors
      OBVIOUS
    <3> QED
      BY <1>6, <3>1, <3>2, <3>3 DEF SkipDisabled, NotRun, Raises, Quiet, Reports, Turn
  <2>2. at' = d + 1 /\ d + 1 \in Between..Done /\ at # Between
    BY <2>1 DEF Advance, Detector, Between, Done
  <2>3. missed' \in [Key -> Nat]
    BY <1>6 DEF SkipDisabled, NotRun, Raises, Quiet, Reports, LoopTypeOK
  <2> QED
    BY <2>1, <2>2, <2>3 DEF Advance, LoopTypeOK
<1>7. ASSUME NEW d \in Detector, ReportFails(d)
      PROVE  LoopTypeOK'
  <2>1. at # Between
    BY <1>7 DEF ReportFails, Turn, Between, Detector
  <2> QED
    BY <1>7, <2>1 DEF ReportFails, LoopTypeOK, Between, Done
<1>8. CASE StartOrchestrator \/ CrashOrchestrator
  BY <1>8 DEF StartOrchestrator, CrashOrchestrator, FreshLoop, LoopTypeOK,
              Between, Done, Detector
<1>9. CASE Surroundings \/ UNCHANGED allVars
  BY <1>9 DEF Surroundings, allVars, loopVars, LoopTypeOK, Between, Done, Detector
<1> QED
  BY <1>1, <1>2, <1>3, <1>4, <1>5, <1>6, <1>7, <1>8, <1>9
     DEF OrchestratorNext, Loop

LEMMA PendingStep ==
  ASSUME LoopInv, [OrchestratorNext]_allVars
  PROVE  PendingInFrame'
<1> USE ConstantTypes DEF LoopInv, PendingInFrame
<1>1. CASE Arrive \/ UNCHANGED allVars
  BY <1>1 DEF Arrive, allVars, vars, fsmVars, loopVars
<1>2. CASE BeginFrame
  BY <1>2 DEF BeginFrame, Idle, vars, fsmVars
<1>3. CASE FinishFrame
  BY <1>3 DEF FinishFrame, EvictClosed, Idle, vars, fsmVars
<1>4. CASE PublishReturns \/ PublishFails
  BY <1>4 DEF PublishReturns, PublishFails, Publish, PublishRaises
<1>5. ASSUME NEW d \in Detector, SkipDisabled(d) \/ NotRun(d) \/ Raises(d) \/ Quiet(d)
      PROVE  PendingInFrame'
  BY <1>5 DEF SkipDisabled, NotRun, Raises, Quiet, Turn, Idle, vars, fsmVars
<1>6. ASSUME NEW d \in Detector, Reports(d)
      PROVE  PendingInFrame'
  <2>1. at' # Between /\ up
    BY <1>6 DEF Reports, Advance, Turn, Idle, Between, Detector
  <2>2. up' = up
    BY <1>6 DEF Reports, KeepSustaining, Absorb, FireSuppressed, FireActive, vars, fsmVars
  <2> QED
    BY <2>1, <2>2
<1>7. ASSUME NEW d \in Detector, ReportFails(d)
      PROVE  PendingInFrame'
  BY <1>7 DEF ReportFails, FireRaises, Idle, Turn
<1>8. CASE StartOrchestrator \/ CrashOrchestrator
  BY <1>8 DEF StartOrchestrator, CrashOrchestrator, Start, Crash
<1>9. CASE Surroundings
  BY <1>9 DEF Surroundings, Acknowledge, Resolve, SetState, CalendarStep, fsmVars, loopVars
<1> QED
  BY <1>1, <1>2, <1>3, <1>4, <1>5, <1>6, <1>7, <1>8, <1>9
     DEF OrchestratorNext, Loop

LEMMA LoopInvariance == OrchestratorSpec => []LoopInv
<1>1. LoopInv /\ [OrchestratorNext]_allVars => LoopInv'
  BY LoopTypeStep, PendingStep DEF LoopInv
<1> QED
  BY <1>1, LoopInit, PTL DEF OrchestratorSpec

\* Each step of the loop is a step of the FSM or leaves it alone.
LEMMA StepRefines ==
  ASSUME LoopInv, [OrchestratorNext]_allVars
  PROVE  [Next]_vars
<1>1. CASE Arrive \/ UNCHANGED allVars
  BY <1>1 DEF Arrive, allVars
<1>2. CASE BeginFrame
  BY <1>2 DEF BeginFrame
<1>3. CASE FinishFrame
  BY <1>3 DEF FinishFrame, Next
<1>4. CASE PublishReturns \/ PublishFails
  BY <1>4 DEF PublishReturns, PublishFails, Next
<1>5. ASSUME NEW d \in Detector, SkipDisabled(d) \/ NotRun(d) \/ Raises(d) \/ Quiet(d)
      PROVE  UNCHANGED vars
  BY <1>5 DEF SkipDisabled, NotRun, Raises, Quiet
<1>6. ASSUME NEW d \in Detector, Reports(d) \/ ReportFails(d)
      PROVE  \E e \in Event : Process(e)
  <2>1. at = d /\ Current.ev[d] # NoEvent
    BY <1>6 DEF Reports, ReportFails, Turn
  <2>2. Current.ev[d] \in Event
    BY <2>1, ReportedEvent DEF LoopInv
  <2>3. Process(Current.ev[d])
    BY <1>6 DEF Reports, ReportFails, Process
  <2> QED
    BY <2>2, <2>3
<1>7. CASE StartOrchestrator \/ CrashOrchestrator
  BY <1>7 DEF StartOrchestrator, CrashOrchestrator, Next
<1>8. CASE Surroundings
  BY <1>8 DEF Surroundings, Next
<1> QED
  BY <1>1, <1>2, <1>3, <1>4, <1>5, <1>6, <1>7, <1>8 DEF OrchestratorNext, Loop, Next

\* The running loop implements the alert FSM: for any number of detectors,
\* frames, failures, restarts and evictions (process_frame and run).
THEOREM Implementation == OrchestratorSpec => ImplementsAlertFSM
<1>1. OrchestratorInit => Init
  BY DEF OrchestratorInit
<1> QED
  BY <1>1, LoopInvariance, StepRefines, PTL
     DEF OrchestratorSpec, ImplementsAlertFSM, Spec

\* So the variables keep their types ...
THEOREM OrchestratorTypeCorrect == OrchestratorSpec => []OrchestratorTypeOK
<1>1. TypeOK /\ LoopInv => OrchestratorTypeOK
  BY DEF LoopInv, LoopTypeOK, OrchestratorTypeOK
<1> QED
  BY <1>1, LoopInvariance, Implementation, TypeCorrect, PTL DEF ImplementsAlertFSM

\* ... and the running loop has at most one active row per dedup key, each of
\* which the FSM's memory holds.
THEOREM OrchestratorDedup == OrchestratorSpec => []DedupSound
BY Implementation, DedupSafety, PTL DEF ImplementsAlertFSM

(***************************************************************************)
(* A closed alert lets go of its key.  Before the turn of the detector     *)
(* that owns the key, the sightings missed are at most the frames finished *)
(* since the last eviction; its turn may add one.  A frame that fails on   *)
(* the way skips turns, and an eviction leaves no closed alert in memory.  *)
(***************************************************************************)
MissedInv ==
  /\ \A d \in Detector : \A k \in KeysOf[d] :
       missed[k] <= sinceEvict + (IF at > d THEN 1 ELSE 0)
  /\ \A k \in Key : (\A d \in Detector : k \notin KeysOf[d]) => missed[k] = 0

LEMMA MissedStart ==
  ASSUME missed = [k \in Key |-> 0], sinceEvict = 0, at = Between
  PROVE  MissedInv
BY OrchestratorAssumption DEF MissedInv, Between, Detector

\* Steps that miss nothing, evict nothing and do not take a turn back.
LEMMA MissedKept ==
  ASSUME LoopTypeOK, MissedInv, UNCHANGED <<missed, sinceEvict>>,
         at' \in Between..Done, at = Between \/ at <= at'
  PROVE  MissedInv'
<1>1. ASSUME NEW d \in Detector, at > d
      PROVE  at' > d
  BY <1>1 DEF LoopTypeOK, Detector, Between, Done
<1>2. ASSUME NEW d \in Detector, NEW k \in KeysOf[d]
      PROVE  missed'[k] <= sinceEvict' + (IF at' > d THEN 1 ELSE 0)
  <2>1. missed[k] \in Nat /\ sinceEvict \in Nat
    BY <1>2, OrchestratorAssumption DEF LoopTypeOK
  <2>2. missed[k] <= sinceEvict + (IF at > d THEN 1 ELSE 0)
    BY <1>2 DEF MissedInv
  <2> QED
    BY <1>1, <2>1, <2>2
<1> QED
  BY <1>2 DEF MissedInv

\* evict_closed leaves no entry whose alert is not active.
LEMMA EvictionFrees ==
  ASSUME EvictClosed, NEW k \in Key
  PROVE  ~HoldsClosed(k)'
BY DEF EvictClosed, HoldsClosed, ActiveIds, Active

LEMMA MissedStep ==
  ASSUME LoopInv, MissedInv, [OrchestratorNext]_allVars
  PROVE  MissedInv'
<1> USE ConstantTypes DEF LoopInv
<1>1. LoopTypeOK /\ at' \in Between..Done
  BY LoopTypeStep DEF LoopTypeOK
<1>2. CASE UNCHANGED <<missed, sinceEvict, at>>
  BY <1>1, <1>2, MissedKept DEF LoopTypeOK, Between, Done
<1>3. CASE BeginFrame
  BY <1>1, <1>3, MissedKept DEF BeginFrame
<1>4. CASE PublishFails
  BY <1>1, <1>4, MissedKept DEF PublishFails, LoopTypeOK, Between, Done
<1>5. ASSUME NEW d \in Detector,
             \/ SkipDisabled(d) \/ NotRun(d) \/ Raises(d)
             \/ Quiet(d) \/ ReportFails(d)
      PROVE  MissedInv'
  <2>1. at <= at' /\ UNCHANGED <<missed, sinceEvict>>
    BY <1>5 DEF SkipDisabled, NotRun, Raises, Quiet, ReportFails, Advance, Turn,
                Detector, Done
  <2> QED
    BY <1>1, <2>1, MissedKept
<1>6. ASSUME NEW d \in Detector, Reports(d)
      PROVE  MissedInv'
  <2> DEFINE key == Current.ev[d].key
  <2>1. at = d /\ at' = d + 1 /\ sinceEvict' = sinceEvict /\ key \in KeysOf[d] /\ key \in Key
    BY <1>1, <1>6, ReportedEvent, OrchestratorAssumption DEF Reports, Turn, Advance
  <2>2. missed' = missed \/ missed' = [missed EXCEPT ![key] = @ + 1]
    BY <1>6 DEF Reports
  <2> HIDE DEF key
  <2>3. CASE missed' = missed
    BY <1>1, <2>1, <2>3, MissedKept DEF Detector
  <2>4. CASE missed' = [missed EXCEPT ![key] = @ + 1]
    <3>1. missed'[key] = missed[key] + 1 /\ \A k \in Key \ {key} : missed'[k] = missed[k]
      BY <1>1, <2>1, <2>4 DEF LoopTypeOK
    <3>2. ASSUME NEW c \in Detector, NEW k \in KeysOf[c]
          PROVE  missed'[k] <= sinceEvict' + (IF at' > c THEN 1 ELSE 0)
      <4>1. /\ missed[k] \in Nat /\ sinceEvict \in Nat /\ k \in Key
            /\ missed[k] <= sinceEvict + (IF at > c THEN 1 ELSE 0)
        BY <1>1, <3>2, OrchestratorAssumption DEF LoopTypeOK, MissedInv
      <4>2. CASE k = key
        <5>1. c = d
          BY <2>1, <3>2, <4>2, OrchestratorAssumption
        <5> QED
          BY <2>1, <3>1, <4>1, <4>2, <5>1 DEF Detector
      <4>3. CASE k # key
        BY <2>1, <3>1, <4>1, <4>3 DEF Detector
      <4> QED
        BY <4>2, <4>3
    <3>3. ASSUME NEW k \in Key, \A c \in Detector : k \notin KeysOf[c]
          PROVE  missed'[k] = 0
      BY <2>1, <3>1, <3>3 DEF MissedInv
    <3> QED
      BY <3>2, <3>3 DEF MissedInv
  <2> QED
    BY <2>2, <2>3, <2>4
<1>7. CASE FinishFrame
  <2>1. at = Done /\ at' = Between
    BY <1>7 DEF FinishFrame
  <2>2. \A k \in Key : missed'[k] \in {0, missed[k]}
    BY <1>7 DEF FinishFrame
  <2>3. CASE EvictClosed /\ sinceEvict' = 0
    <3>1. missed' = [k \in Key |-> 0]
      BY <1>7, <2>3, EvictionFrees DEF FinishFrame
    <3>2. sinceEvict' = 0 /\ missed' = [k \in Key |-> 0] /\ at' = Between
      BY <2>1, <2>3, <3>1
    <3> QED
      BY <3>2, OrchestratorAssumption DEF MissedInv, Between, Detector
  <2>4. CASE sinceEvict' = sinceEvict + 1
    <3>1. ASSUME NEW d \in Detector, NEW k \in KeysOf[d]
          PROVE  missed'[k] <= sinceEvict' + (IF at' > d THEN 1 ELSE 0)
      <4>1. /\ missed[k] \in Nat /\ sinceEvict \in Nat /\ missed'[k] \in {0, missed[k]}
            /\ missed[k] <= sinceEvict + (IF at > d THEN 1 ELSE 0)
        BY <1>1, <2>2, <3>1, OrchestratorAssumption DEF LoopTypeOK, MissedInv
      <4> QED
        BY <2>1, <2>4, <4>1 DEF Between, Detector
    <3> QED
      BY <2>2, <3>1 DEF MissedInv
  <2> QED
    BY <1>7, <2>3, <2>4 DEF FinishFrame
<1>8. CASE StartOrchestrator \/ CrashOrchestrator
  BY <1>8, OrchestratorAssumption
     DEF StartOrchestrator, CrashOrchestrator, FreshLoop, MissedInv, Between, Detector
<1>9. CASE Arrive \/ PublishReturns \/ Surroundings \/ UNCHANGED allVars
  BY <1>2, <1>9 DEF Arrive, PublishReturns, Surroundings, loopVars, allVars
<1> QED
  BY <1>3, <1>4, <1>5, <1>6, <1>7, <1>8, <1>9 DEF OrchestratorNext, Loop

\* A key whose alert was closed loses at most EvictEvery sightings before the
\* incident can be alerted again: for any number of detectors, keys and frames,
\* and whatever fails between two evictions.
THEOREM ClosedAlertsRelease == OrchestratorSpec => []ClosedAlertsLetGo
<1> USE ConstantTypes
<1>1. OrchestratorInit => MissedInv
  BY MissedStart DEF OrchestratorInit
<1>2. LoopInv /\ MissedInv => ClosedAlertsLetGo
  <2> SUFFICES ASSUME LoopInv, MissedInv, NEW k \in Key
               PROVE  missed[k] <= EvictEvery
    BY DEF ClosedAlertsLetGo
  <2>1. missed[k] \in Nat /\ sinceEvict \in 0..(EvictEvery - 1)
    BY DEF LoopInv, LoopTypeOK
  <2>2. CASE \E d \in Detector : k \in KeysOf[d]
    BY <2>1, <2>2 DEF MissedInv
  <2>3. CASE \A d \in Detector : k \notin KeysOf[d]
    BY <2>1, <2>3 DEF MissedInv
  <2> QED
    BY <2>2, <2>3
<1>3. LoopInv /\ MissedInv /\ [OrchestratorNext]_allVars => MissedInv'
  BY MissedStep
<1> QED
  BY <1>1, <1>2, <1>3, LoopInvariance, PTL DEF OrchestratorSpec
-----------------------------------------------------------------------------
(***************************************************************************)
(* Alerts have evidence.  What a row needs is inherited from the entry it  *)
(* was raised from, so the invariant says where such an entry came from:   *)
(* one that still sustains began at a sighting of its key.  Rebuilt and    *)
(* deduplicated entries carry an alert and are never fired from.           *)
(***************************************************************************)
EntryEvidence ==
  \A k \in Key :
    entries[k] # NoEntry /\ entries[k].alert = NoAlert
      => \E p \in Sightings(k) : frames[p].ts = entries[k].first

EvidenceInv == EntryEvidence /\ SustainEvidence

\* Frames are only ever added: what was sighted stays sighted.
LEMMA FramesGrow ==
  ASSUME LoopTypeOK, [OrchestratorNext]_allVars
  PROVE  \A k : \A p \in Sightings(k) : p \in Sightings(k)' /\ frames'[p] = frames[p]
<1>1. CASE UNCHANGED frames
  BY <1>1 DEF Sightings
<1>2. CASE Arrive
  <2>1. PICK f \in Frame : frames' = Append(frames, f)
    BY <1>2 DEF Arrive
  <2>2. /\ DOMAIN frames \subseteq DOMAIN frames'
        /\ \A p \in DOMAIN frames : frames'[p] = frames[p]
    BY <2>1 DEF LoopTypeOK
  <2> QED
    BY <2>2 DEF Sightings
<1>3. ASSUME NEW d \in Detector,
             \/ SkipDisabled(d) \/ NotRun(d) \/ Raises(d) \/ Quiet(d)
             \/ Reports(d) \/ ReportFails(d)
      PROVE  UNCHANGED frames
  BY <1>3 DEF SkipDisabled, NotRun, Raises, Quiet, Reports, ReportFails, Advance
<1>4. CASE \/ BeginFrame \/ FinishFrame \/ PublishReturns \/ PublishFails
           \/ StartOrchestrator \/ CrashOrchestrator \/ Surroundings \/ UNCHANGED allVars
  BY <1>1, <1>4 DEF BeginFrame, FinishFrame, PublishReturns, PublishFails,
                    StartOrchestrator, CrashOrchestrator, Surroundings, allVars
<1> QED
  BY <1>1, <1>2, <1>3, <1>4 DEF OrchestratorNext, Loop

\* The frame in hand is a sighting of the key a detector reports.
LEMMA ReportIsSighting ==
  ASSUME LoopTypeOK, NEW d \in Detector, at = d, Current.ev[d] # NoEvent
  PROVE  /\ cursor + 1 \in Sightings(Current.ev[d].key)
         /\ frames[cursor + 1].ts = Current.ev[d].ts
<1>1. cursor + 1 \in DOMAIN frames
  BY ConstantTypes DEF LoopTypeOK, Between, Done, Detector
<1>2. frames[cursor + 1] \in Frame
  BY <1>1 DEF LoopTypeOK
<1>3. frames[cursor + 1].ev[d] # NoEvent
  BY DEF Current
<1>4. frames[cursor + 1].ev[d].ts = frames[cursor + 1].ts
  BY <1>2, <1>3, OrchestratorAssumption
<1>5. cursor + 1 \in Sightings(frames[cursor + 1].ev[d].key)
  BY <1>1, <1>3 DEF Sightings
<1> QED
  BY <1>4, <1>5 DEF Current

\* An event that is not deduplicated continues an entry that began at a
\* sighting, or begins one itself.
LEMMA FirstSeenIsSighting ==
  ASSUME LoopTypeOK, EntryEvidence, NEW d \in Detector, at = d,
         Current.ev[d] # NoEvent, ~Deduped(Current.ev[d])
  PROVE  \E p \in Sightings(Current.ev[d].key) :
            frames[p].ts = FirstSeen(Current.ev[d])
<1> DEFINE e == Current.ev[d]
<1>1. e \in Event /\ e.key \in Key
  BY ReportedEvent, FSMAssumption
<1>2. CASE entries[e.key] = NoEntry
  BY <1>2, ReportIsSighting DEF FirstSeen
<1>3. CASE entries[e.key] # NoEntry
  <2>1. entries[e.key].alert = NoAlert
    BY <1>3 DEF Deduped
  <2> QED
    BY <1>1, <1>3, <2>1 DEF FirstSeen, EntryEvidence
<1> QED
  BY <1>2, <1>3

\* Steps that add no row, change no key or timestamp, and leave entries alone
\* or drop them, or keep one that has an alert.
LEMMA KeepsEvidence ==
  ASSUME LoopTypeOK, EvidenceInv, [OrchestratorNext]_allVars,
         DOMAIN alerts' = DOMAIN alerts,
         \A id \in DOMAIN alerts : /\ alerts'[id].key = alerts[id].key
                                   /\ alerts'[id].ts = alerts[id].ts,
         \A k \in Key : \/ entries'[k] \in {entries[k], NoEntry}
                        \/ entries'[k].alert # NoAlert
  PROVE  EvidenceInv'
<1>1. EntryEvidence'
  BY FramesGrow DEF EvidenceInv, EntryEvidence
<1>2. SustainEvidence'
  BY FramesGrow DEF EvidenceInv, SustainEvidence
<1> QED
  BY <1>1, <1>2 DEF EvidenceInv

\* An entry that starts, or goes on, to sustain has its sighting.
LEMMA RememberKeepsEvidence ==
  ASSUME TypeOK, LoopTypeOK, EvidenceInv, [OrchestratorNext]_allVars,
         NEW d \in Detector, at = d, Current.ev[d] # NoEvent,
         ~Deduped(Current.ev[d]), Remember(Current.ev[d], NoAlert),
         UNCHANGED alerts
  PROVE  EvidenceInv'
<1> DEFINE e == Current.ev[d]
<1>1. PICK p \in Sightings(e.key) : frames[p].ts = FirstSeen(e)
  BY FirstSeenIsSighting DEF EvidenceInv
<1>2. e.key \in Key
  BY ReportedEvent, FSMAssumption
<1>3. /\ entries'[e.key].first = FirstSeen(e)
      /\ \A k \in Key : k # e.key => entries'[k] = entries[k]
  BY <1>2 DEF Remember, TypeOK
<1>4. EntryEvidence'
  <2> SUFFICES ASSUME NEW k \in Key, entries'[k] # NoEntry, entries'[k].alert = NoAlert
               PROVE  \E q \in Sightings(k)' : frames'[q].ts = entries'[k].first
    BY DEF EntryEvidence
  <2>1. CASE k = e.key
    BY <1>1, <1>3, <2>1, FramesGrow
  <2>2. CASE k # e.key
    BY <1>3, <2>2, FramesGrow DEF EvidenceInv, EntryEvidence
  <2> QED
    BY <2>1, <2>2
<1>5. SustainEvidence'
  BY FramesGrow DEF EvidenceInv, SustainEvidence
<1> QED
  BY <1>4, <1>5 DEF EvidenceInv

\* A row is raised by a sighting that is sustain_ms later than another.
LEMMA FireKeepsEvidence ==
  ASSUME TypeOK, LoopTypeOK, EvidenceInv, [OrchestratorNext]_allVars,
         NEW d \in Detector, at = d, Current.ev[d] # NoEvent, Due(Current.ev[d]),
         NEW s \in AlertState, InsertRow(Current.ev[d], s)
  PROVE  EvidenceInv'
<1> DEFINE e == Current.ev[d]
           new == Len(alerts) + 1
<1>1. e \in Event /\ e.key \in Key /\ e.ts \in Nat /\ Sustain[e.key] \in Nat
  BY ReportedEvent, FSMAssumption DEF Time
<1>2. PICK p \in Sightings(e.key) : frames[p].ts = FirstSeen(e)
  BY FirstSeenIsSighting DEF EvidenceInv, Due
<1>3. /\ cursor + 1 \in Sightings(e.key)
      /\ frames[cursor + 1].ts = e.ts
  BY ReportIsSighting
<1>4. FirstSeen(e) \in Nat
  BY <1>1, FirstSeenType, FSMAssumption DEF Time
<1>5. FirstSeen(e) + Sustain[e.key] <= e.ts
  BY <1>1, <1>4 DEF Due
<1>6. /\ DOMAIN alerts' = DOMAIN alerts \cup {new}
      /\ \A id \in DOMAIN alerts : alerts'[id] = alerts[id]
      /\ alerts'[new].key = e.key /\ alerts'[new].ts = e.ts
  <2>1. /\ DOMAIN alerts' = DOMAIN alerts \cup {new}
        /\ \A id \in DOMAIN alerts : alerts'[id] = alerts[id]
        /\ alerts'[new].key = e.key
    BY <1>1, InsertedRow
  <2>2. alerts'[new].ts = e.ts
    BY DEF InsertRow, TypeOK
  <2> QED
    BY <2>1, <2>2
<1>7. EntryEvidence'
  <2>1. /\ entries'[e.key].alert # NoAlert
        /\ \A k \in Key : k # e.key => entries'[k] = entries[k]
    BY <1>1 DEF InsertRow, Remember, TypeOK, NoAlert
  <2> QED
    BY <2>1, FramesGrow DEF EvidenceInv, EntryEvidence
<1>8. SustainEvidence'
  <2> SUFFICES ASSUME NEW id \in DOMAIN alerts', NEW k, alerts'[id].key = k
               PROVE  \E q, r \in Sightings(k)' :
                        /\ frames'[r].ts = alerts'[id].ts
                        /\ frames'[q].ts + Sustain[k] <= alerts'[id].ts
    BY DEF SustainEvidence
  <2>1. CASE id = new
    <3>1. k = e.key /\ alerts'[id].ts = e.ts
      BY <1>6, <2>1
    <3>2. /\ p \in Sightings(k)' /\ frames'[p].ts = FirstSeen(e)
          /\ cursor + 1 \in Sightings(k)' /\ frames'[cursor + 1].ts = e.ts
      BY <1>2, <1>3, <3>1, FramesGrow
    <3> QED
      BY <1>5, <3>1, <3>2
  <2>2. CASE id \in DOMAIN alerts
    <3>1. alerts'[id] = alerts[id]
      BY <1>6, <2>2
    <3>2. PICK q, r \in Sightings(k) : /\ frames[r].ts = alerts[id].ts
                                       /\ frames[q].ts + Sustain[k] <= alerts[id].ts
      BY <2>2, <3>1 DEF EvidenceInv, SustainEvidence
    <3> QED
      BY <3>1, <3>2, FramesGrow
  <2> QED
    BY <1>6, <2>1, <2>2
<1> QED
  BY <1>7, <1>8 DEF EvidenceInv

LEMMA EvidenceStep ==
  ASSUME TypeOK, OneActivePerKey, LoopTypeOK, EvidenceInv, [OrchestratorNext]_allVars
  PROVE  EvidenceInv'
<1>1. CASE UNCHANGED <<entries, alerts>>
  BY <1>1, KeepsEvidence
<1>2. ASSUME NEW d \in Detector, Reports(d)
      PROVE  EvidenceInv'
  <2>1. at = d /\ Current.ev[d] # NoEvent
    BY <1>2 DEF Reports, Turn
  <2>2. CASE KeepSustaining(Current.ev[d])
    BY <2>1, <2>2, RememberKeepsEvidence DEF KeepSustaining
  <2>3. CASE Absorb(Current.ev[d])
    BY <1>1, <2>3 DEF Absorb, vars, fsmVars
  <2>4. CASE FireSuppressed(Current.ev[d]) \/ FireActive(Current.ev[d])
    <3>1. PICK s \in AlertState : InsertRow(Current.ev[d], s)
      BY <2>4 DEF FireSuppressed, FireActive, AlertState
    <3> QED
      BY <2>1, <2>4, <3>1, FireKeepsEvidence DEF FireSuppressed, FireActive
  <2> QED
    BY <1>2, <2>2, <2>3, <2>4 DEF Reports
<1>3. ASSUME NEW d \in Detector, ReportFails(d)
      PROVE  EvidenceInv'
  BY <1>3, RememberKeepsEvidence DEF ReportFails, Turn, FireRaises, Due
<1>4. CASE FinishFrame
  <2>1. CASE UNCHANGED vars
    BY <1>1, <2>1 DEF vars, fsmVars
  <2>2. CASE EvictClosed
    BY <2>2, KeepsEvidence DEF EvictClosed
  <2> QED
    BY <1>4, <2>1, <2>2 DEF FinishFrame
<1>5. CASE StartOrchestrator
  <2>1. \A k \in Key : Rebuilt[k] = NoEntry \/ Rebuilt[k].alert # NoAlert
    <3> SUFFICES ASSUME NEW k \in Key, NEW id \in ActiveIds, alerts[id].key = k
                 PROVE  Rebuilt[k].alert # NoAlert
      BY DEF Rebuilt
    <3>1. Rebuilt[k].alert = id /\ id \in 1..MaxAlerts
      BY RebuiltEntries, ActiveRow
    <3> QED
      BY <3>1, FSMAssumption DEF NoAlert
  <2> QED
    BY <1>5, <2>1, KeepsEvidence DEF StartOrchestrator, Start
<1>6. CASE CrashOrchestrator
  BY <1>6, KeepsEvidence DEF CrashOrchestrator, Crash, NoEntries
<1>7. CASE Surroundings
  <2>1. CASE CalendarStep
    BY <1>1, <2>1 DEF CalendarStep, fsmVars
  <2>2. ASSUME NEW id \in DOMAIN alerts, NEW from, NEW to, SetState(id, from, to)
        PROVE  EvidenceInv'
    <3>1. /\ DOMAIN alerts' = DOMAIN alerts
          /\ \A j \in DOMAIN alerts : /\ alerts'[j].key = alerts[j].key
                                      /\ alerts'[j].ts = alerts[j].ts
      BY <2>2 DEF SetState, TypeOK, AlertRow
    <3> QED
      BY <2>2, <3>1, KeepsEvidence DEF SetState
  <2> QED
    BY <1>7, <2>1, <2>2 DEF Surroundings, Acknowledge, Resolve
<1>8. ASSUME NEW d \in Detector, SkipDisabled(d) \/ NotRun(d) \/ Raises(d) \/ Quiet(d)
      PROVE  UNCHANGED <<entries, alerts>>
  BY <1>8 DEF SkipDisabled, NotRun, Raises, Quiet, vars, fsmVars
<1>9. CASE \/ Arrive \/ BeginFrame \/ PublishReturns \/ PublishFails \/ UNCHANGED allVars
  BY <1>1, <1>9 DEF Arrive, BeginFrame, PublishReturns, Publish, PublishFails,
                    PublishRaises, allVars, vars, fsmVars
<1> QED
  BY <1>1, <1>2, <1>3, <1>4, <1>5, <1>6, <1>7, <1>8, <1>9 DEF OrchestratorNext, Loop

\* No alert without evidence: two sightings of the rule, sustain_ms apart, are
\* on the stream, the later one at the timestamp of the alert.
THEOREM Evidence == OrchestratorSpec => []SustainEvidence
<1>1. OrchestratorInit => EvidenceInv
  BY DEF OrchestratorInit, Init, NoEntries, EvidenceInv, EntryEvidence, SustainEvidence
<1>2. TypeOK /\ OneActivePerKey /\ LoopInv /\ EvidenceInv /\ [OrchestratorNext]_allVars
        => EvidenceInv'
  BY EvidenceStep DEF LoopInv
<1>3. EvidenceInv => SustainEvidence
  BY DEF EvidenceInv
<1>4. (OrchestratorTypeOK => TypeOK) /\ (DedupSound => OneActivePerKey)
  BY DEF OrchestratorTypeOK, DedupSound
<1> QED
  BY <1>1, <1>2, <1>3, <1>4, OrchestratorTypeCorrect, OrchestratorDedup, LoopInvariance, PTL
     DEF OrchestratorSpec
=============================================================================
