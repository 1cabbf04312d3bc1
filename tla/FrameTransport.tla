--------------------------- MODULE FrameTransport ---------------------------
(***************************************************************************)
(* src/vms/ingestion (one worker process per camera) and the loop of       *)
(* src/vms/inference/engine.py (one process per worker group): a frame     *)
(* goes through a shared memory segment, a pointer to it through the       *)
(* stream frames:group{N}, what is seen in it through `detections`.        *)
(*                                                                         *)
(* A segment has a header and pixels, written one after the other and read *)
(* one after the other, without a lock.  The header is one aligned 16 byte *)
(* copy and is not torn; pixels read while they are written may be those   *)
(* of either frame, or a mixture, which counts as the older of the two.    *)
(* Timestamps grow with the run of a worker and its seq_id, and are left   *)
(* out but for the age of a header.                                        *)
(***************************************************************************)
EXTENDS Naturals, Sequences

CONSTANTS
  Camera,       \* the cameras of one worker group
  NoFrame,      \* no frame in hand
  Threshold,    \* rtsp_failure_threshold
  Attempts,     \* redis_stream_retry_attempts
  MaxLen,       \* redis_stream_maxlen
  MaxRuns,      \* bound on the starts of a worker
  MaxSeq,       \* bound on the frames of one run
  MaxPointers   \* bound on the frames stream

ASSUME TransportAssumption ==
  /\ Threshold \in Nat \ {0} /\ Attempts \in Nat \ {0} /\ MaxLen \in Nat \ {0}
  /\ MaxRuns \in Nat /\ MaxSeq \in Nat /\ MaxPointers \in Nat

VARIABLES
  worker,     \* where the capture loop of a camera is
  run,        \* the starts of its worker so far
  seq,        \* _seq_id + 1 of the frame in hand or to come
  failures,   \* _consecutive_failures
  tries,      \* attempts of the XADD in hand
  segment,    \* segment[c][i]: header, pixels and age of the i-th segment
  name,       \* the segment vms_cam_{c} stands for, 0: none
  frames,     \* the frames stream, with the messages trimmed away
  trimmed,    \* how many of them are
  engine,     \* where the engine is
  lastId,     \* _last_id
  inHand,     \* the frame it has read
  published,  \* the last detection frame of each camera
  killed      \* history: cameras whose last worker was killed, its segment left behind

ingestion == <<worker, run, seq, failures, tries>>
memory == <<segment, name>>
stream == <<frames, trimmed>>
inference == <<engine, lastId, inHand, published>>
vars == <<ingestion, memory, stream, inference, killed>>

Run == 1..MaxRuns
Seq0 == 0..MaxSeq
Frame == [cam : Camera, run : Run, seq : Seq0, pixels : Seq0 \cup {NoFrame}]

TypeOK ==
  /\ worker \in [Camera -> {"down", "capture", "copy", "add"}]
  /\ run \in [Camera -> 0..MaxRuns] /\ seq \in [Camera -> 1..(MaxSeq + 1)]
  /\ failures \in [Camera -> 0..(Threshold - 1)] /\ tries \in [Camera -> 0..(Attempts - 1)]
  /\ segment \in [Camera -> [Run -> [header : Seq0, pixels : Seq0, stale : BOOLEAN]]]
  /\ name \in [Camera -> 0..MaxRuns]
  /\ frames \in Seq([cam : Camera, run : Run, seq : 1..MaxSeq]) /\ trimmed \in 0..Len(frames)
  /\ engine \in {"down", "read", "open", "pixels", "publish"}
  /\ lastId \in 0..Len(frames)
  /\ inHand \in Frame \cup {NoFrame}
  /\ published \in [Camera -> [run : 0..MaxRuns, seq : Seq0, pixels : Seq0]]
  /\ killed \subseteq Camera

Init ==
  /\ worker = [c \in Camera |-> "down"] /\ run = [c \in Camera |-> 0]
  /\ seq = [c \in Camera |-> 1]
  /\ failures = [c \in Camera |-> 0] /\ tries = [c \in Camera |-> 0]
  /\ segment = [c \in Camera |-> [i \in Run |->
                  [header |-> 0, pixels |-> 0, stale |-> TRUE]]]
  /\ name = [c \in Camera |-> 0] /\ frames = <<>> /\ trimmed = 0
  /\ engine = "down" /\ lastId = 0 /\ inHand = NoFrame
  /\ published = [c \in Camera |-> [run |-> 0, seq |-> 0, pixels |-> 0]]
  /\ killed = {}
-----------------------------------------------------------------------------
(***************************************************************************)
(* The ingestion worker of a camera.                                       *)
(***************************************************************************)

\* start: the segment is created, its header zero and so never fresh.  A name
\* that is still taken raises FileExistsError, and the worker stays down.
Start(c) ==
  /\ worker[c] = "down" /\ name[c] = 0 /\ run[c] < MaxRuns
  /\ worker' = [worker EXCEPT ![c] = "capture"]
  /\ run' = [run EXCEPT ![c] = @ + 1] /\ name' = [name EXCEPT ![c] = run'[c]]
  /\ killed' = killed \ {c}
  /\ UNCHANGED <<seq, failures, tries, segment, stream, inference>>

\* The worker object is gone, and its counts with it.
Ended(c) ==
  /\ worker' = [worker EXCEPT ![c] = "down"]
  /\ seq' = [seq EXCEPT ![c] = 1] /\ failures' = [failures EXCEPT ![c] = 0]
  /\ tries' = [tries EXCEPT ![c] = 0]

\* The `finally` of start: close and unlink.  The name may be gone already.
Release(c) ==
  /\ Ended(c)
  /\ name' = [name EXCEPT ![c] = 0]

\* cap.read fails for the rtsp_failure_threshold-th time in a row: the camera is
\* marked inactive, if the database takes it, which nothing in vms reads, and the
\* worker ends.
GiveUp(c) ==
  /\ worker[c] = "capture" /\ failures[c] + 1 >= Threshold
  /\ Release(c)
  /\ UNCHANGED <<run, segment, stream, inference, killed>>

\* Mutant of BackOff: the count starts over after the last backoff step.
BackOffWraps(c) ==
  /\ worker[c] = "capture"
  /\ failures' = [failures EXCEPT ![c] = IF @ + 1 < Threshold THEN @ + 1 ELSE 0]
  /\ UNCHANGED <<worker, run, seq, tries, memory, stream, inference, killed>>

\* It fails, and the worker waits a little longer than the last time.
BackOff(c) ==
  /\ worker[c] = "capture" /\ failures[c] + 1 < Threshold
  /\ failures' = [failures EXCEPT ![c] = @ + 1]
  /\ UNCHANGED <<worker, run, seq, tries, memory, stream, inference, killed>>

\* stop, at the head of the loop, or an exception out of the camera's driver.
Stop(c) ==
  /\ worker[c] = "capture"
  /\ Release(c)
  /\ UNCHANGED <<run, segment, stream, inference, killed>>

\* A frame: SHMSlot.write begins with the header ...
Capture(c) ==
  /\ worker[c] = "capture" /\ seq[c] <= MaxSeq
  /\ worker' = [worker EXCEPT ![c] = "copy"]
  /\ failures' = [failures EXCEPT ![c] = 0]
  /\ segment' = [segment EXCEPT ![c][run[c]] =
                  [header |-> seq[c], pixels |-> @.pixels, stale |-> FALSE]]
  /\ UNCHANGED <<run, seq, tries, name, stream, inference, killed>>

\* ... and the pixels follow.
Copy(c) ==
  /\ worker[c] = "copy"
  /\ worker' = [worker EXCEPT ![c] = "add"]
  /\ segment' = [segment EXCEPT ![c][run[c]] = [@ EXCEPT !.pixels = seq[c]]]
  /\ UNCHANGED <<run, seq, failures, tries, name, stream, inference, killed>>

\* XADD, with a cap on the length of the stream.
XAdd(m) ==
  /\ Len(frames) < MaxPointers
  /\ frames' = Append(frames, m)
  /\ trimmed' = IF Len(frames') - trimmed > MaxLen THEN trimmed + 1 ELSE trimmed

NextFrame(c) ==
  /\ worker' = [worker EXCEPT ![c] = "capture"]
  /\ seq' = [seq EXCEPT ![c] = @ + 1] /\ tries' = [tries EXCEPT ![c] = 0]

\* FramePointer: the name of the segment, its size and the frame's seq_id.  The size is
\* that of the camera, which may be another one in the worker's next run.
Pointer(c) == [cam |-> c, run |-> run[c], seq |-> seq[c]]

Add(c) ==
  /\ worker[c] = "add"
  /\ XAdd(Pointer(c))
  /\ NextFrame(c)
  /\ UNCHANGED <<run, failures, memory, inference, killed>>

\* XADD raises, whether or not Redis has the pointer: it is tried again, and
\* after redis_stream_retry_attempts the frame is dropped.
AddFails(c) ==
  /\ worker[c] = "add"
  /\ XAdd(Pointer(c)) \/ UNCHANGED stream
  /\ IF tries[c] + 1 < Attempts
     THEN tries' = [tries EXCEPT ![c] = @ + 1] /\ UNCHANGED <<worker, seq>>
     ELSE NextFrame(c)
  /\ UNCHANGED <<run, failures, memory, inference, killed>>

\* The process dies.  The resource tracker of multiprocessing, a process of its
\* own, removes the name, unless it dies too.
Kill(c) ==
  /\ worker[c] # "down" /\ Ended(c)
  /\ \/ name' = [name EXCEPT ![c] = 0] /\ UNCHANGED killed
     \/ name' = name /\ killed' = killed \cup {c}
  /\ UNCHANGED <<run, segment, stream, inference>>

\* stale_threshold_ms pass without a new header.
Age(c) ==
  /\ worker[c] # "copy" /\ run[c] # 0 /\ ~segment[c][run[c]].stale
  /\ segment' = [segment EXCEPT ![c][run[c]] =
                  [header |-> @.header, pixels |-> @.pixels, stale |-> TRUE]]
  /\ UNCHANGED <<ingestion, name, stream, inference, killed>>
-----------------------------------------------------------------------------
(***************************************************************************)
(* The inference engine of the group.                                      *)
(***************************************************************************)

\* __init__ and run: the stream is read from "0-0".
StartEngine ==
  /\ engine = "down" /\ engine' = "read" /\ lastId' = 0
  /\ UNCHANGED <<ingestion, memory, stream, inHand, published, killed>>

\* XREAD: the first message after _last_id that has not been trimmed.
Upcoming == (IF lastId < trimmed THEN trimmed ELSE lastId) + 1

\* The next message of the batch in hand, trimmed since or not, or of a new one.
Read ==
  /\ engine = "read"
  /\ \E n \in {Upcoming} \cup (IF lastId = 0 THEN {} ELSE {lastId + 1}) :
       n <= Len(frames) /\ lastId' = n - 1
  /\ engine' = "open"
  /\ UNCHANGED <<ingestion, memory, stream, inHand, published, killed>>

InHandPointer == frames[lastId + 1]

Done == engine' = "read" /\ lastId' = lastId + 1 /\ inHand' = NoFrame

\* SHMSlot.open and the header: the segment is the one the name stands for now.
OpenSlot ==
  /\ engine = "open"
  /\ LET c == InHandPointer.cam
         s == segment[c][name[c]]
     IN /\ name[c] # 0 /\ ~s.stale
        /\ inHand' = [cam |-> c, run |-> name[c], seq |-> s.header, pixels |-> NoFrame]
  /\ engine' = "pixels"
  /\ UNCHANGED <<ingestion, memory, stream, lastId, published, killed>>

\* Mutant of SkipStale: the loop goes on without moving _last_id.
SkipStaleInPlace ==
  /\ engine = "open" /\ name[InHandPointer.cam] # 0
  /\ segment[InHandPointer.cam][name[InHandPointer.cam]].stale
  /\ engine' = "read"
  /\ UNCHANGED <<ingestion, memory, stream, lastId, inHand, published, killed>>

\* read returns None: the message is done with.
SkipStale ==
  /\ engine = "open" /\ name[InHandPointer.cam] # 0
  /\ segment[InHandPointer.cam][name[InHandPointer.cam]].stale
  /\ Done
  /\ UNCHANGED <<ingestion, memory, stream, published, killed>>

\* The segment is gone (FileNotFoundError), or it is one of another run, which may be
\* of another size (ValueError): either ends run for the whole group.
OpenFails ==
  /\ engine = "open" /\ name[InHandPointer.cam] \in {0} \cup (Run \ {InHandPointer.run})
  /\ engine' = "down" /\ lastId' = 0
  /\ UNCHANGED <<ingestion, memory, stream, inHand, published, killed>>

Copying(c, i) == worker[c] = "copy" /\ run[c] = i

\* The pixels, out of the segment opened before, whatever the name stands for now.
ReadPixels ==
  /\ engine = "pixels"
  /\ LET c == inHand.cam
         s == segment[c][inHand.run]
     IN \E p \in {s.pixels} \cup (IF Copying(c, inHand.run) THEN {s.header} ELSE {}) :
          inHand' = [inHand EXCEPT !.pixels = p]
  /\ engine' = "publish"
  /\ UNCHANGED <<ingestion, memory, stream, lastId, published, killed>>

\* Mutant of Publish: the header is looked up again after the models ran.
PublishRereads ==
  /\ engine = "publish"
  /\ published' = [published EXCEPT ![inHand.cam] =
                     [run |-> inHand.run, seq |-> segment[inHand.cam][inHand.run].header,
                      pixels |-> inHand.pixels]]
  /\ Done
  /\ UNCHANGED <<ingestion, memory, stream, killed>>

\* The models run and the detections go out, with the header's seq_id.
Publish ==
  /\ engine = "publish"
  /\ published' = [published EXCEPT ![inHand.cam] =
                     [run |-> inHand.run, seq |-> inHand.seq, pixels |-> inHand.pixels]]
  /\ Done
  /\ UNCHANGED <<ingestion, memory, stream, killed>>

\* A model or the XADD, which is not tried again, raises and ends run; or the
\* process dies, and its resource tracker may remove the names it has opened.
EngineFails ==
  /\ engine # "down"
  /\ engine' = "down" /\ lastId' = 0 /\ inHand' = NoFrame
  /\ \E cs \in SUBSET Camera : name' = [c \in Camera |-> IF c \in cs THEN 0 ELSE name[c]]
  /\ UNCHANGED <<ingestion, segment, stream, published, killed>>

WorkerStep(c) ==
  GiveUp(c) \/ BackOff(c) \/ Capture(c) \/ Copy(c) \/ Add(c) \/ AddFails(c)

EngineStep == Read \/ OpenSlot \/ SkipStale \/ OpenFails \/ ReadPixels \/ Publish

Next ==
  \/ \E c \in Camera :
       \/ Start(c) \/ WorkerStep(c) \/ Stop(c) \/ Kill(c) \/ Age(c)
  \/ StartEngine \/ EngineStep \/ EngineFails

Spec == Init /\ [][Next]_vars

\* The loops of live processes go on.
Fairness ==
  WF_vars(EngineStep) /\ \A c \in Camera : WF_vars(WorkerStep(c))
-----------------------------------------------------------------------------
(***************************************************************************)
(* Properties                                                              *)
(***************************************************************************)

\* Without a lock, what was seen in a frame may belong to a later one, but to an
\* earlier one only if that is the frame just before.
PixelsLagByOne ==
  \A c \in Camera : published[c].pixels + 1 >= published[c].seq

\* A worker that ends by itself leaves no segment behind, so the next one can
\* start; only a process that was killed may.
SegmentReleased ==
  \A c \in Camera : worker[c] = "down" /\ name[c] # 0 => c \in killed

\* The worker's slot, without a lock and across crashes: well formed, at most one
\* frame ahead of its header, and released by whoever ends.
SlotSound == TypeOK /\ PixelsLagByOne /\ SegmentReleased

\* A worker whose camera fails gets a frame again or gives up.
FailingCameraSettles ==
  \A c \in Camera : failures[c] > 0 ~> worker[c] \in {"copy", "down"}

\* Once the engine stays up, every pointer on the stream is passed: stale frames
\* and trimmed messages do not hold the group up.
EveryPointerPassed ==
  \A n \in 1..MaxPointers :
    <>[](engine # "down") => (Len(frames) >= n ~> lastId >= n)

\* README.md:161, "read frame (validate seq_id + freshness <200ms)": what is
\* published for a pointer is the frame it points to.
PointedFrame ==
  engine = "publish" => inHand.seq = InHandPointer.seq
=============================================================================
