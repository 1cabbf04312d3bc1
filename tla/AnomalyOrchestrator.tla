------------------------ MODULE AnomalyOrchestrator ------------------------
(***************************************************************************)
(* src/vms/anomaly/orchestrator.py: the consumer of the `detections`       *)
(* stream.  It shows each frame to every detector in turn, feeds what they *)
(* report to the AlertFSM (extended here), and evicts closed alerts every  *)
(* EvictEvery frames.  The process keeps its position in the stream in     *)
(* memory only, so a restart reads the stream from the beginning again.    *)
(*                                                                         *)
(* Detectors are the environment: frame.ev[d] is what detector d's rule    *)
(* says of the frame, and an evaluation may raise instead.                 *)
(***************************************************************************)
EXTENDS AlertFSM

CONSTANTS
  Detectors,    \* the detectors are 1..Detectors, in evaluation order
  KeysOf,       \* KeysOf[d]: the dedup keys of detector d
  NoEvent,      \* "evaluate() returned None"
  Frame,        \* frames on the stream: ts, and ev[d], an event or NoEvent
  MaxErrors,    \* anomaly_max_consecutive_errors
  EvictEvery,   \* frames between two calls of evict_closed
  MaxFrames     \* bound on the frames of the `detections` stream

Detector == 1..Detectors

ASSUME OrchestratorAssumption ==
  /\ Detectors \in Nat \ {0} /\ MaxErrors \in Nat \ {0}
  /\ EvictEvery \in Nat \ {0} /\ MaxFrames \in Nat
  /\ NoEvent \notin Event
  /\ KeysOf \in [Detector -> SUBSET Key]
  /\ \A c, d \in Detector : c # d => KeysOf[c] \cap KeysOf[d] = {}
  /\ \A f \in Frame :
       /\ f.ts \in Time
       /\ f.ev \in [Detector -> Event \cup {NoEvent}]
       /\ \A d \in Detector : f.ev[d] # NoEvent =>
            f.ev[d].ts = f.ts /\ f.ev[d].key \in KeysOf[d]

VARIABLES
  frames,       \* the `detections` stream
  cursor,       \* _last_id, as the number of frames handled
  at,           \* the next detector of the current frame; 0: between frames
  errors,       \* _state[d].consecutive_errors
  sinceEvict,   \* _frames_since_evict
  missed        \* history: missed[k], the sightings of k that were absorbed by
                \* its alert after the alert was closed

loopVars == <<cursor, at, errors, sinceEvict, missed>>
allVars == <<vars, frames, loopVars>>

Between == 0
Done == Detectors + 1   \* process_frame returned, or its exception is logged

Disabled(d) == errors[d] >= MaxErrors
Current == frames[cursor + 1]

OrchestratorTypeOK ==
  /\ TypeOK
  /\ frames \in Seq(Frame) /\ Len(frames) <= MaxFrames
  /\ cursor \in 0..Len(frames)
  /\ at \in Between..Done
  /\ at # Between => cursor < Len(frames)
  /\ errors \in [Detector -> 0..MaxErrors]
  /\ sinceEvict \in 0..(EvictEvery - 1)
  /\ missed \in [Key -> Nat]

\* __init__ and the locals of run().
FreshLoop ==
  /\ cursor' = 0
  /\ at' = Between
  /\ errors' = [d \in Detector |-> 0]
  /\ sinceEvict' = 0
  /\ missed' = [k \in Key |-> 0]

OrchestratorInit ==
  /\ Init
  /\ frames = <<>>
  /\ cursor = 0 /\ at = Between /\ sinceEvict = 0
  /\ errors = [d \in Detector |-> 0]
  /\ missed = [k \in Key |-> 0]
-----------------------------------------------------------------------------
\* The inference engine appends a frame (external).
Arrive ==
  /\ Len(frames) < MaxFrames
  /\ \E f \in Frame : frames' = Append(frames, f)
  /\ UNCHANGED <<vars, loopVars>>

\* run(): the next message; from_redis_fields or the zone query may raise.
BeginFrame ==
  /\ Idle /\ at = Between /\ cursor < Len(frames)
  /\ at' \in {1, Done}
  /\ UNCHANGED <<vars, frames, cursor, errors, sinceEvict, missed>>

\* The key's entry holds an alert that is not active (any more): events of the
\* key are absorbed although nobody is alerted.
HoldsClosed(k) ==
  /\ entries[k] # NoEntry /\ entries[k].alert # NoAlert
  /\ entries[k].alert \notin ActiveIds

\* The loop over the detectors, for detector d.
Turn(d) == Idle /\ at = d

Advance(d, count) ==
  /\ at' = d + 1
  /\ errors' = [errors EXCEPT ![d] = count]
  /\ UNCHANGED <<frames, cursor, sinceEvict>>

SkipDisabled(d) ==
  /\ Turn(d) /\ Disabled(d)
  /\ Advance(d, errors[d])
  /\ UNCHANGED <<vars, missed>>

\* should_run is False: the error count stays.
NotRun(d) ==
  /\ Turn(d) /\ ~Disabled(d) /\ Current.ev[d] = NoEvent
  /\ Advance(d, errors[d])
  /\ UNCHANGED <<vars, missed>>

Raises(d) ==
  /\ Turn(d) /\ ~Disabled(d)
  /\ Advance(d, errors[d] + 1)
  /\ UNCHANGED <<vars, missed>>

Quiet(d) ==
  /\ Turn(d) /\ ~Disabled(d) /\ Current.ev[d] = NoEvent
  /\ Advance(d, 0)
  /\ UNCHANGED <<vars, missed>>

Reports(d) ==
  /\ Turn(d) /\ ~Disabled(d) /\ Current.ev[d] # NoEvent
  /\ LET e == Current.ev[d] IN
       /\ KeepSustaining(e) \/ Absorb(e) \/ FireSuppressed(e) \/ FireActive(e)
       /\ missed' = IF HoldsClosed(e.key) THEN [missed EXCEPT ![e.key] = @ + 1] ELSE missed
  /\ Advance(d, 0)

\* Mutant of ReportFails: run() reads the frame again instead of passing it.
ReportFailsAndRetries(d) ==
  /\ Turn(d) /\ ~Disabled(d) /\ Current.ev[d] # NoEvent
  /\ FireRaises(Current.ev[d])
  /\ at' = Between
  /\ UNCHANGED <<frames, cursor, errors, sinceEvict, missed>>

\* fsm.process raises: nothing between it and run() catches the exception, so
\* the detectors that come later never see the frame.
ReportFails(d) ==
  /\ Turn(d) /\ ~Disabled(d) /\ Current.ev[d] # NoEvent
  /\ FireRaises(Current.ev[d])
  /\ errors' = [errors EXCEPT ![d] = 0]
  /\ at' = Done
  /\ UNCHANGED <<frames, cursor, sinceEvict, missed>>

PublishReturns ==
  /\ Publish
  /\ UNCHANGED <<frames, loopVars>>

PublishFails ==
  /\ PublishRaises
  /\ at' = Done
  /\ UNCHANGED <<frames, cursor, errors, sinceEvict, missed>>

\* _last_id moves; every EvictEvery frames, evict_closed.
FinishFrame ==
  /\ Idle /\ at = Done
  /\ cursor' = cursor + 1
  /\ at' = Between
  /\ IF sinceEvict + 1 >= EvictEvery
     THEN EvictClosed /\ sinceEvict' = 0
     ELSE UNCHANGED vars /\ sinceEvict' = sinceEvict + 1
  /\ missed' = [k \in Key |-> IF HoldsClosed(k)' THEN missed[k] ELSE 0]
  /\ UNCHANGED <<frames, errors>>

Loop ==
  \/ BeginFrame \/ FinishFrame \/ PublishReturns \/ PublishFails
  \/ \E d \in Detector : \/ SkipDisabled(d) \/ NotRun(d) \/ Raises(d)
                         \/ Quiet(d) \/ Reports(d) \/ ReportFails(d)
-----------------------------------------------------------------------------
\* Mutant of StartOrchestrator: the FSM starts without rebuild_from_db.
StartOrchestratorEmpty ==
  /\ ~up /\ up' = TRUE
  /\ FreshLoop
  /\ UNCHANGED <<entries, pending, alerts, stream, calendarVars, frames>>

StartOrchestrator ==
  /\ Start
  /\ FreshLoop
  /\ UNCHANGED frames

\* The process dies; so it does when the XREAD or the query of evict_closed
\* raises, which run() does not catch.
CrashOrchestrator ==
  /\ Crash
  /\ FreshLoop
  /\ UNCHANGED frames

Surroundings ==
  /\ \/ \E id \in DOMAIN alerts : Acknowledge(id) \/ Resolve(id)
     \/ CalendarStep
  /\ UNCHANGED <<frames, loopVars>>

OrchestratorNext ==
  Arrive \/ Loop \/ StartOrchestrator \/ CrashOrchestrator \/ Surroundings

OrchestratorSpec == OrchestratorInit /\ [][OrchestratorNext]_allVars

\* The asyncio loop runs what is ready; nothing else is promised.
FairOrchestratorSpec == OrchestratorSpec /\ WF_allVars(Loop)
-----------------------------------------------------------------------------
(***************************************************************************)
(* Properties                                                              *)
(***************************************************************************)

\* The frames of the stream in which detector d's rule holds for key k.
Sightings(k) ==
  {p \in DOMAIN frames : \E d \in Detector : /\ frames[p].ev[d] # NoEvent
                                             /\ frames[p].ev[d].key = k}

\* No alert without evidence: a row's timestamp is that of a frame in which
\* its rule held, and a sighting at least sustain_ms older is on the stream,
\* whatever evictions, restarts and replays did to the entry in between.
SustainEvidence ==
  \A id \in DOMAIN alerts :
    \E p, q \in Sightings(alerts[id].key) :
      /\ frames[q].ts = alerts[id].ts
      /\ frames[p].ts + Sustain[alerts[id].key] <= alerts[id].ts

\* Closing an alert does not silence its key: "dedup is lifetime-of-alert"
\* (fsm.py:84), but the entry goes only when evict_closed runs, and until then
\* the incident that goes on is absorbed.  No key loses more than EvictEvery
\* sightings that way, whenever the operator acts, whatever state the alert was
\* closed to, and although frames, detectors and publications fail in between.
ClosedAlertsLetGo == \A k \in Key : missed[k] <= EvictEvery

\* No frame stops the loop: once the process stays up, every frame of the
\* stream is eventually passed, poison frames and raising detectors included.
EveryFrameHandled ==
  \A n \in 1..MaxFrames :
    <>[]up => (Len(frames) >= n ~> cursor >= n)

\* The orchestrator drives the FSM as AlertFSM says it is driven: every step is
\* one of its steps, or leaves it alone.
ImplementsAlertFSM == Spec
=============================================================================
