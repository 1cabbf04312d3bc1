--------------------------- MODULE Frames_proofs ----------------------------
(***************************************************************************)
(* Frames on their way: through shared memory to the engine, without a     *)
(* lock and whoever dies, for any cameras, thresholds, retries and lengths *)
(* of the stream (FrameTransport); and through the models to the           *)
(* detectors, for any models, shots and answers of the identity engine     *)
(* (FramePipeline).                                                        *)
(***************************************************************************)
EXTENDS FrameTransport, FramePipeline, FiniteSetTheorems, SequenceTheorems, WellFoundedInduction,
        TLAPS

-----------------------------------------------------------------------------
(***************************************************************************)
(* Transport: what is published for a frame was seen in it or in the frame *)
(* before or later ones, and a worker that ends by itself leaves no        *)
(* segment behind.                                                         *)
(***************************************************************************)

\* Every start has a segment of its own, the last of which the name may stand for.
RunsInv ==
  \A c \in Camera :
    /\ worker[c] # "down" => run[c] \in Run
    /\ name[c] \in {0, run[c]}
    /\ worker[c] = "down" => seq[c] = 1
    /\ worker[c] \in {"copy", "add"} => seq[c] <= MaxSeq

\* Pixels follow the header of their frame; the loop knows by how much.
SlotInv ==
  \A c \in Camera : \A i \in Run :
    /\ segment[c][i].pixels <= segment[c][i].header
    /\ segment[c][i].header <= segment[c][i].pixels + 1
    /\ i > run[c] => segment[c][i].header = 0
    /\ i = run[c] /\ worker[c] # "down" =>
         /\ worker[c] = "capture" => segment[c][i].header = seq[c] - 1
         /\ worker[c] # "capture" => segment[c][i].header = seq[c]
         /\ segment[c][i].pixels = IF worker[c] = "copy" THEN seq[c] - 1
                                   ELSE segment[c][i].header

\* What the engine holds lags behind the segment it was read from.
EngineInv ==
  /\ engine \in {"open", "pixels", "publish"} => lastId < Len(frames)
  /\ engine \in {"pixels", "publish"} =>
       /\ inHand \in Frame
       /\ inHand.run <= run[inHand.cam]
       /\ inHand.seq <= segment[inHand.cam][inHand.run].header
  /\ engine = "publish" => inHand.pixels \in Seq0 /\ inHand.pixels + 1 >= inHand.seq

IInv ==
  TypeOK /\ RunsInv /\ SlotInv /\ EngineInv /\ PixelsLagByOne /\ SegmentReleased

\* What the steps of a worker use of the types.
LEMMA WorkerTypes ==
  ASSUME IInv
  PROVE  /\ worker \in [Camera -> {"down", "capture", "copy", "add"}]
         /\ run \in [Camera -> 0..MaxRuns] /\ seq \in [Camera -> 1..(MaxSeq + 1)]
         /\ failures \in [Camera -> 0..(Threshold - 1)] /\ tries \in [Camera -> 0..(Attempts - 1)]
         /\ name \in [Camera -> 0..MaxRuns]
BY DEF IInv, TypeOK

LEMMA InitIInv == Init => IInv
<1> SUFFICES ASSUME Init
             PROVE  IInv
  OBVIOUS
<1> USE TransportAssumption
<1>1. TypeOK
  <2>1. /\ worker \in [Camera -> {"down", "capture", "copy", "add"}]
        /\ run \in [Camera -> 0..MaxRuns] /\ seq \in [Camera -> 1..(MaxSeq + 1)]
        /\ failures \in [Camera -> 0..(Threshold - 1)]
        /\ tries \in [Camera -> 0..(Attempts - 1)] /\ name \in [Camera -> 0..MaxRuns]
    BY DEF Init
  <2>2. segment \in [Camera -> [Run -> [header : Seq0, pixels : Seq0, stale : BOOLEAN]]]
    BY DEF Init, Seq0
  <2>3. published \in [Camera -> [run : 0..MaxRuns, seq : Seq0, pixels : Seq0]]
    BY DEF Init, Seq0
  <2>4. /\ frames = <<>> /\ trimmed = 0 /\ lastId = 0 /\ engine = "down"
        /\ inHand = NoFrame /\ killed = {}
    BY DEF Init
  <2>5. frames \in Seq([cam : Camera, run : Run, seq : 1..MaxSeq]) /\ Len(frames) = 0
    BY <2>4, EmptySeq
  <2> QED
    BY <2>1, <2>2, <2>3, <2>4, <2>5 DEF TypeOK
<1>2. RunsInv /\ EngineInv /\ SegmentReleased /\ PixelsLagByOne
  BY DEF Init, RunsInv, EngineInv, SegmentReleased, PixelsLagByOne
<1>3. SlotInv
  BY DEF Init, SlotInv
<1> QED
  BY <1>1, <1>2, <1>3 DEF IInv
-----------------------------------------------------------------------------
(***************************************************************************)
(* Steps that write no segment.  A worker that moves may leave its loop,   *)
(* begin the next run, or go on with the same frame.                       *)
(***************************************************************************)
LEMMA StartStep ==
  ASSUME IInv, NEW c \in Camera, Start(c)
  PROVE  IInv'
<1> USE TransportAssumption
<1>1. /\ worker[c] = "down" /\ name[c] = 0 /\ run[c] \in 0..MaxRuns /\ run[c] < MaxRuns
      /\ worker'[c] = "capture" /\ run'[c] = run[c] + 1 /\ name'[c] = run[c] + 1
      /\ \A d \in Camera \ {c} :
           worker'[d] = worker[d] /\ run'[d] = run[d] /\ name'[d] = name[d]
      /\ killed' = killed \ {c}
      /\ UNCHANGED <<seq, failures, tries, segment, stream, inference>>
  BY DEF Start, IInv, TypeOK
<1>2. /\ worker' \in [Camera -> {"down", "capture", "copy", "add"}]
      /\ run' \in [Camera -> 0..MaxRuns] /\ name' \in [Camera -> 0..MaxRuns]
  <2>1. run[c] + 1 \in 0..MaxRuns
    BY <1>1
  <2>2. worker' \in [Camera -> {"down", "capture", "copy", "add"}]
    BY WorkerTypes DEF Start
  <2>3. run' \in [Camera -> 0..MaxRuns]
    BY <2>1, WorkerTypes DEF Start
  <2>4. name' \in [Camera -> 0..MaxRuns]
    BY <1>1, <2>1, WorkerTypes DEF Start
  <2> QED
    BY <2>2, <2>3, <2>4
<1>3. TypeOK'
  BY <1>1, <1>2 DEF IInv, TypeOK, stream, inference
<1>4. RunsInv'
  BY <1>1, <1>2 DEF IInv, RunsInv, Run
<1>5. SlotInv'
  <2>1. segment[c][run[c] + 1].header = 0 /\ segment[c][run[c] + 1].pixels = 0
    <3>1. run[c] + 1 \in Run
      BY <1>1 DEF Run
    <3>2. segment[c][run[c] + 1].header = 0
      BY <1>1, <3>1 DEF IInv, SlotInv
    <3>3. segment[c][run[c] + 1].pixels \in Nat
      BY <3>1 DEF IInv, TypeOK, Seq0
    <3> QED
      BY <3>1, <3>2, <3>3 DEF IInv, SlotInv
  <2>2. seq[c] = 1
    BY <1>1 DEF IInv, RunsInv
  <2>3. ASSUME NEW i \in Run
        PROVE  /\ i > run'[c] => segment'[c][i].header = 0
               /\ i = run'[c] => /\ segment'[c][i].header = seq'[c] - 1
                                 /\ segment'[c][i].pixels = segment'[c][i].header
    BY <1>1, <2>1, <2>2 DEF IInv, SlotInv, Run
  <2> QED
    BY <1>1, <2>3 DEF IInv, SlotInv
<1>6. EngineInv'
  <2>1. ASSUME NEW d \in Camera
        PROVE  run[d] <= run'[d] /\ run[d] \in Nat /\ run'[d] \in Nat
    <3>1. run[d] \in 0..MaxRuns
      BY DEF IInv, TypeOK
    <3>2. CASE d = c
      BY <1>1, <3>1, <3>2
    <3>3. CASE d # c
      BY <1>1, <3>1, <3>3
    <3> QED
      BY <3>2, <3>3
  <2>2. inHand \in Frame => inHand.cam \in Camera /\ inHand.run \in Nat
    BY DEF Frame, Run
  <2> QED
    BY <1>1, <2>1, <2>2 DEF IInv, EngineInv, stream, inference
<1>7. PixelsLagByOne' /\ SegmentReleased'
  BY <1>1 DEF IInv, PixelsLagByOne, SegmentReleased, inference
<1> QED
  BY <1>3, <1>4, <1>5, <1>6, <1>7 DEF IInv

LEMMA EndedStep ==
  ASSUME IInv, NEW c \in Camera, Ended(c), UNCHANGED <<run, segment, stream, inference>>,
         \/ name' = [name EXCEPT ![c] = 0] /\ UNCHANGED killed
         \/ name' = name /\ killed' = killed \cup {c}
  PROVE  IInv'
<1> USE TransportAssumption
<1>1. /\ worker'[c] = "down" /\ seq'[c] = 1
      /\ \A d \in Camera \ {c} : worker'[d] = worker[d] /\ seq'[d] = seq[d] /\ name'[d] = name[d]
      /\ name'[c] = 0 \/ (name'[c] = name[c] /\ c \in killed')
      /\ \A d \in Camera \ {c} : d \in killed' <=> d \in killed
  BY DEF Ended, IInv, TypeOK
<1>2. /\ worker' \in [Camera -> {"down", "capture", "copy", "add"}]
      /\ seq' \in [Camera -> 1..(MaxSeq + 1)]
      /\ failures' \in [Camera -> 0..(Threshold - 1)] /\ tries' \in [Camera -> 0..(Attempts - 1)]
      /\ name' \in [Camera -> 0..MaxRuns] /\ killed' \subseteq Camera
  <2>1. 1 \in 1..(MaxSeq + 1) /\ 0 \in 0..(Threshold - 1) /\ 0 \in 0..(Attempts - 1)
        /\ 0 \in 0..MaxRuns
    OBVIOUS
  <2>2. /\ worker' \in [Camera -> {"down", "capture", "copy", "add"}]
        /\ seq' \in [Camera -> 1..(MaxSeq + 1)]
    BY <2>1 DEF Ended, IInv, TypeOK
  <2>3. /\ failures' \in [Camera -> 0..(Threshold - 1)] /\ tries' \in [Camera -> 0..(Attempts - 1)]
    BY <2>1 DEF Ended, IInv, TypeOK
  <2>4. name' \in [Camera -> 0..MaxRuns]
    BY <2>1, WorkerTypes
  <2>5. killed' \subseteq Camera
    BY DEF IInv, TypeOK
  <2> QED
    BY <2>2, <2>3, <2>4, <2>5
<1>3. TypeOK'
  BY <1>2 DEF IInv, TypeOK, stream, inference
<1>4. RunsInv'
  BY <1>1 DEF IInv, RunsInv
<1>5. SlotInv'
  BY <1>1 DEF IInv, SlotInv
<1>6. EngineInv'
  BY DEF IInv, EngineInv, stream, inference
<1>7. PixelsLagByOne' /\ SegmentReleased'
  BY <1>1 DEF IInv, PixelsLagByOne, SegmentReleased, inference
<1> QED
  BY <1>3, <1>4, <1>5, <1>6, <1>7 DEF IInv

LEMMA BackOffStep ==
  ASSUME IInv, NEW c \in Camera, BackOff(c)
  PROVE  IInv'
<1>1. TypeOK'
  <2>1. failures' \in [Camera -> 0..(Threshold - 1)]
    <3>1. failures[c] + 1 \in 0..(Threshold - 1)
      BY WorkerTypes, TransportAssumption DEF BackOff
    <3> QED
      BY <3>1, WorkerTypes DEF BackOff
  <2> QED
    BY <2>1 DEF BackOff, IInv, TypeOK, memory, stream, inference
<1>2. RunsInv' /\ SlotInv' /\ EngineInv' /\ PixelsLagByOne' /\ SegmentReleased'
  BY DEF BackOff, IInv, RunsInv, SlotInv, EngineInv, PixelsLagByOne, SegmentReleased,
         memory, stream, inference
<1> QED
  BY <1>1, <1>2 DEF IInv

\* The stream only grows, by pointers to the frame in hand.
LEMMA XAddEffect ==
  ASSUME IInv, NEW c \in Camera, worker[c] = "add", XAdd(Pointer(c)) \/ UNCHANGED stream
  PROVE  /\ frames' \in Seq([cam : Camera, run : Run, seq : 1..MaxSeq]) /\ trimmed' \in 0..Len(frames')
         /\ Len(frames) <= Len(frames') /\ Len(frames') \in Nat
<1> USE TransportAssumption
<1>1. frames \in Seq([cam : Camera, run : Run, seq : 1..MaxSeq]) /\ trimmed \in 0..Len(frames)
  BY DEF IInv, TypeOK
<1>2. Pointer(c) \in [cam : Camera, run : Run, seq : 1..MaxSeq]
  BY DEF IInv, TypeOK, RunsInv, Pointer
<1>3. CASE UNCHANGED stream
  BY <1>1, <1>3 DEF stream
<1>4. CASE XAdd(Pointer(c))
  <2>1. /\ frames' = Append(frames, Pointer(c))
        /\ trimmed' \in {trimmed, trimmed + 1}
    BY <1>4 DEF XAdd
  <2>2. frames' \in Seq([cam : Camera, run : Run, seq : 1..MaxSeq]) /\ Len(frames') = Len(frames) + 1
    BY <1>1, <1>2, <2>1
  <2> QED
    BY <1>1, <2>1, <2>2
<1> QED
  BY <1>3, <1>4

LEMMA AddStep ==
  ASSUME IInv, NEW c \in Camera, worker[c] = "add", XAdd(Pointer(c)) \/ UNCHANGED stream,
         \/ NextFrame(c)
         \/ /\ tries[c] + 1 < Attempts /\ tries' = [tries EXCEPT ![c] = @ + 1]
            /\ UNCHANGED <<worker, seq>>,
         UNCHANGED <<run, failures, memory, inference, killed>>
  PROVE  IInv'
<1> USE TransportAssumption
<1> DEFINE Retry == /\ tries[c] + 1 < Attempts /\ tries' = [tries EXCEPT ![c] = @ + 1]
                    /\ UNCHANGED <<worker, seq>>
<1>a. /\ worker \in [Camera -> {"down", "capture", "copy", "add"}]
      /\ seq \in [Camera -> 1..(MaxSeq + 1)] /\ tries \in [Camera -> 0..(Attempts - 1)]
      /\ seq[c] <= MaxSeq /\ seq[c] \in Nat /\ seq[c] + 1 \in 1..(MaxSeq + 1)
  <2>1. /\ worker \in [Camera -> {"down", "capture", "copy", "add"}]
        /\ seq \in [Camera -> 1..(MaxSeq + 1)] /\ tries \in [Camera -> 0..(Attempts - 1)]
    BY DEF IInv, TypeOK
  <2>2. seq[c] <= MaxSeq
    BY DEF IInv, RunsInv
  <2> QED
    BY <2>1, <2>2
<1>b. /\ frames' \in Seq([cam : Camera, run : Run, seq : 1..MaxSeq]) /\ trimmed' \in 0..Len(frames')
      /\ Len(frames) <= Len(frames') /\ Len(frames) \in Nat /\ Len(frames') \in Nat
  <2>1. Len(frames) \in Nat
    BY DEF IInv, TypeOK
  <2>2. /\ frames' \in Seq([cam : Camera, run : Run, seq : 1..MaxSeq]) /\ trimmed' \in 0..Len(frames')
        /\ Len(frames) <= Len(frames') /\ Len(frames') \in Nat
    BY XAddEffect, Zenon
  <2> QED
    BY <2>1, <2>2
<1>1. /\ \/ worker'[c] = "capture" /\ seq'[c] = seq[c] + 1
         \/ worker'[c] = "add" /\ seq'[c] = seq[c]
      /\ \A d \in Camera \ {c} : worker'[d] = worker[d] /\ seq'[d] = seq[d]
  <2>1. CASE NextFrame(c)
    BY <1>a, <2>1 DEF NextFrame
  <2>2. CASE Retry
    BY <1>a, <2>2
  <2> QED
    BY <2>1, <2>2
<1>2. /\ worker' \in [Camera -> {"down", "capture", "copy", "add"}]
      /\ seq' \in [Camera -> 1..(MaxSeq + 1)] /\ tries' \in [Camera -> 0..(Attempts - 1)]
  <2>1. CASE NextFrame(c)
    <3>1. 0 \in 0..(Attempts - 1)
      OBVIOUS
    <3> QED
      BY <1>a, <2>1, <3>1 DEF NextFrame
  <2>2. CASE Retry
    <3>1. tries[c] + 1 \in 0..(Attempts - 1)
      BY <1>a, <2>2
    <3> QED
      BY <1>a, <2>2, <3>1
  <2> QED
    BY <2>1, <2>2
<1> HIDE DEF Retry
<1>3. TypeOK'
  <2>1. /\ frames' \in Seq([cam : Camera, run : Run, seq : 1..MaxSeq]) /\ trimmed' \in 0..Len(frames')
        /\ lastId \in 0..Len(frames')
    BY <1>b DEF IInv, TypeOK
  <2> QED
    BY <1>2, <2>1 DEF IInv, TypeOK, memory, inference
<1>4. RunsInv'
  BY <1>a, <1>1 DEF IInv, RunsInv, memory
<1>5. SlotInv'
  BY <1>a, <1>1 DEF IInv, SlotInv, memory
<1>6. EngineInv'
  <2>1. lastId < Len(frames) => lastId < Len(frames')
    BY <1>b DEF IInv, TypeOK
  <2> QED
    BY <2>1 DEF IInv, EngineInv, memory, inference
<1>7. PixelsLagByOne' /\ SegmentReleased'
  BY <1>1 DEF IInv, PixelsLagByOne, SegmentReleased, memory, inference
<1> QED
  BY <1>3, <1>4, <1>5, <1>6, <1>7 DEF IInv
-----------------------------------------------------------------------------
(***************************************************************************)
(* The two halves of SHMSlot.write, and time.                              *)
(***************************************************************************)
Slot == [header : Seq0, pixels : Seq0, stale : BOOLEAN]

LEMMA OneSlot ==
  ASSUME segment \in [Camera -> [Run -> Slot]], NEW c \in Camera, NEW i \in Run, NEW s \in Slot,
         segment' = [segment EXCEPT ![c][i] = s]
  PROVE  /\ segment' \in [Camera -> [Run -> Slot]] /\ segment'[c][i] = s
         /\ \A d \in Camera, j \in Run : d # c \/ j # i => segment'[d][j] = segment[d][j]
<1>1. segment[c] \in [Run -> Slot]
  OBVIOUS
<1> DEFINE row == [segment[c] EXCEPT ![i] = s]
<1>2. row \in [Run -> Slot] /\ row[i] = s /\ \A j \in Run : j # i => row[j] = segment[c][j]
  BY <1>1
<1>3. segment' = [segment EXCEPT ![c] = row]
  OBVIOUS
<1> HIDE DEF row
<1>4. /\ segment' \in [Camera -> [Run -> Slot]] /\ segment'[c] = row
      /\ \A d \in Camera : d # c => segment'[d] = segment[d]
  BY <1>2, <1>3
<1> QED
  BY <1>2, <1>4

LEMMA CaptureStep ==
  ASSUME IInv, NEW c \in Camera, Capture(c)
  PROVE  IInv'
<1> USE TransportAssumption
<1> DEFINE i == run[c]
<1>1. /\ worker[c] = "capture" /\ worker'[c] = "copy" /\ seq[c] <= MaxSeq /\ seq[c] \in Nat
      /\ \A d \in Camera \ {c} : worker'[d] = worker[d]
      /\ UNCHANGED <<run, seq, tries, name, stream, inference, killed>>
      /\ i \in Run /\ i \in Nat
  <2>1. /\ worker[c] = "capture" /\ worker'[c] = "copy"
        /\ \A d \in Camera \ {c} : worker'[d] = worker[d]
    BY WorkerTypes DEF Capture
  <2>2. i \in Run /\ seq[c] \in Nat
    BY <2>1, WorkerTypes DEF IInv, RunsInv
  <2>3. seq[c] <= MaxSeq
    BY <2>1 DEF Capture, IInv, RunsInv
  <2> QED
    BY <2>1, <2>2, <2>3 DEF Capture, Run
<1>2. /\ segment'[c][i] = [header |-> seq[c], pixels |-> segment[c][i].pixels, stale |-> FALSE]
      /\ \A d \in Camera, j \in Run : d # c \/ j # i => segment'[d][j] = segment[d][j]
      /\ segment' \in [Camera -> [Run -> Slot]]
  <2> DEFINE s == [header |-> seq[c], pixels |-> segment[c][i].pixels, stale |-> FALSE]
  <2>1. segment \in [Camera -> [Run -> Slot]] /\ segment[c][i] \in Slot
    BY <1>1 DEF IInv, TypeOK, Slot
  <2>3. s \in Slot
    BY <1>1, <2>1 DEF Slot, Seq0
  <2>4. segment' = [segment EXCEPT ![c][i] = s]
    BY DEF Capture
  <2> HIDE DEF s, i
  <2>5. /\ segment' \in [Camera -> [Run -> Slot]] /\ segment'[c][i] = s
        /\ \A d \in Camera, j \in Run : d # c \/ j # i => segment'[d][j] = segment[d][j]
    BY <1>1, <2>1, <2>3, <2>4, OneSlot
  <2> QED
    BY <2>5 DEF s
<1> HIDE DEF i
<1>3. TypeOK'
  <2>1. /\ worker' \in [Camera -> {"down", "capture", "copy", "add"}]
        /\ failures' \in [Camera -> 0..(Threshold - 1)]
    <3>1. 0 \in 0..(Threshold - 1)
      OBVIOUS
    <3> QED
      BY <3>1, WorkerTypes DEF Capture
  <2> QED
    BY <1>1, <1>2, <2>1 DEF IInv, TypeOK, Slot, stream, inference
<1>4. RunsInv'
  BY <1>1 DEF IInv, RunsInv
<1>5. /\ segment[c][i].header = seq[c] - 1 /\ segment[c][i].pixels = seq[c] - 1
  BY <1>1 DEF IInv, SlotInv, i
<1>6. SlotInv'
  <2> SUFFICES ASSUME NEW d \in Camera, NEW j \in Run
               PROVE  /\ segment'[d][j].pixels <= segment'[d][j].header
                      /\ segment'[d][j].header <= segment'[d][j].pixels + 1
                      /\ j > run[d] => segment'[d][j].header = 0
                      /\ j = run[d] /\ worker'[d] # "down" =>
                           /\ worker'[d] = "capture" => segment'[d][j].header = seq[d] - 1
                           /\ worker'[d] # "capture" => segment'[d][j].header = seq[d]
                           /\ segment'[d][j].pixels = IF worker'[d] = "copy" THEN seq[d] - 1
                                                      ELSE segment'[d][j].header
    BY <1>1 DEF SlotInv
  <2>1. CASE d = c /\ j = i
    BY <1>1, <1>2, <1>5, <2>1 DEF i
  <2>2. CASE d # c \/ j # i
    <3>1. segment'[d][j] = segment[d][j] /\ (d = c => j # run[d])
      BY <1>2, <2>2 DEF i
    <3>2. CASE d = c
      BY <3>1, <3>2 DEF IInv, SlotInv
    <3>3. CASE d # c
      <4>1. worker'[d] = worker[d]
        BY <1>1, <3>3
      <4> QED
        BY <3>1, <4>1 DEF IInv, SlotInv
    <3> QED
      BY <3>2, <3>3
  <2> QED
    BY <2>1, <2>2
<1>7. EngineInv'
  <2>1. \A d \in Camera, j \in Run :
          segment[d][j].header <= segment'[d][j].header
          /\ segment[d][j].header \in Nat /\ segment'[d][j].header \in Nat
    <3> SUFFICES ASSUME NEW d \in Camera, NEW j \in Run
                 PROVE  /\ segment[d][j].header <= segment'[d][j].header
                        /\ segment[d][j].header \in Nat /\ segment'[d][j].header \in Nat
      OBVIOUS
    <3>1. segment[d][j].header \in Nat
      BY DEF IInv, TypeOK, Seq0
    <3>2. CASE d = c /\ j = i
      <4>1. segment'[c][i].header = seq[c] /\ segment[c][i].header = seq[c] - 1
            /\ seq[c] \in Nat
        BY <1>1, <1>2, <1>5
      <4>2. segment[d][j].header \in Nat /\ seq[c] - 1 <= seq[c]
        BY <3>1, <4>1
      <4> QED
        BY <3>2, <4>1, <4>2
    <3>3. CASE d # c \/ j # i
      BY <1>2, <3>1, <3>3
    <3> QED
      BY <3>2, <3>3
  <2>2. ASSUME inHand \in Frame, inHand.seq <= segment[inHand.cam][inHand.run].header
        PROVE  inHand.seq <= segment'[inHand.cam][inHand.run].header
    <3>1. inHand.cam \in Camera /\ inHand.run \in Run /\ inHand.seq \in Nat
      BY <2>2 DEF Frame, Seq0
    <3> QED
      BY <2>1, <2>2, <3>1
  <2> QED
    BY <1>1, <2>2 DEF IInv, EngineInv, stream, inference
<1>8. PixelsLagByOne' /\ SegmentReleased'
  BY <1>1 DEF IInv, PixelsLagByOne, SegmentReleased, inference
<1> QED
  BY <1>3, <1>4, <1>6, <1>7, <1>8 DEF IInv

LEMMA CopyStep ==
  ASSUME IInv, NEW c \in Camera, Copy(c)
  PROVE  IInv'
<1> USE TransportAssumption
<1> DEFINE i == run[c]
<1>1. /\ worker[c] = "copy" /\ worker'[c] = "add" /\ seq[c] <= MaxSeq /\ seq[c] \in Nat
      /\ \A d \in Camera \ {c} : worker'[d] = worker[d]
      /\ UNCHANGED <<run, seq, failures, tries, name, stream, inference, killed>>
      /\ i \in Run /\ i \in Nat
  <2>1. /\ worker[c] = "copy" /\ worker'[c] = "add"
        /\ \A d \in Camera \ {c} : worker'[d] = worker[d]
    BY WorkerTypes DEF Copy
  <2>2. i \in Run /\ seq[c] \in Nat
    BY <2>1, WorkerTypes DEF IInv, RunsInv
  <2>3. seq[c] <= MaxSeq
    BY <2>1 DEF IInv, RunsInv
  <2> QED
    BY <2>1, <2>2, <2>3 DEF Copy, Run
<1>2. /\ segment'[c][i].header = segment[c][i].header /\ segment'[c][i].pixels = seq[c]
      /\ \A d \in Camera, j \in Run : d # c \/ j # i => segment'[d][j] = segment[d][j]
      /\ segment' \in [Camera -> [Run -> Slot]]
  <2> DEFINE s == [header |-> segment[c][i].header, pixels |-> seq[c],
                   stale |-> segment[c][i].stale]
  <2>1. segment \in [Camera -> [Run -> Slot]] /\ segment[c][i] \in Slot
    BY <1>1 DEF IInv, TypeOK, Slot
  <2>2. s = [segment[c][i] EXCEPT !.pixels = seq[c]]
    BY <2>1 DEF Slot
  <2>3. s \in Slot
    BY <1>1, <2>1 DEF Slot, Seq0
  <2>4. segment' = [segment EXCEPT ![c][i] = s]
    BY <2>2 DEF Copy
  <2> HIDE DEF s, i
  <2>5. /\ segment' \in [Camera -> [Run -> Slot]] /\ segment'[c][i] = s
        /\ \A d \in Camera, j \in Run : d # c \/ j # i => segment'[d][j] = segment[d][j]
    BY <1>1, <2>1, <2>3, <2>4, OneSlot
  <2> QED
    BY <2>5 DEF s
<1>3. segment'[c][i].header = segment[c][i].header /\ segment'[c][i].pixels = seq[c]
  BY <1>2
<1>4. segment[c][i].header = seq[c]
  BY <1>1 DEF IInv, SlotInv
<1> HIDE DEF i
<1>5. TypeOK'
  <2>1. worker' \in [Camera -> {"down", "capture", "copy", "add"}]
    BY WorkerTypes DEF Copy
  <2> QED
    BY <1>1, <1>2, <2>1 DEF IInv, TypeOK, Slot, stream, inference
<1>6. RunsInv'
  BY <1>1 DEF IInv, RunsInv
<1>7. SlotInv'
  <2> SUFFICES ASSUME NEW d \in Camera, NEW j \in Run
               PROVE  /\ segment'[d][j].pixels <= segment'[d][j].header
                      /\ segment'[d][j].header <= segment'[d][j].pixels + 1
                      /\ j > run[d] => segment'[d][j].header = 0
                      /\ j = run[d] /\ worker'[d] # "down" =>
                           /\ worker'[d] = "capture" => segment'[d][j].header = seq[d] - 1
                           /\ worker'[d] # "capture" => segment'[d][j].header = seq[d]
                           /\ segment'[d][j].pixels = IF worker'[d] = "copy" THEN seq[d] - 1
                                                      ELSE segment'[d][j].header
    BY <1>1 DEF SlotInv
  <2>1. CASE d = c /\ j = i
    BY <1>1, <1>3, <1>4, <2>1 DEF i
  <2>2. CASE d # c \/ j # i
    <3>1. segment'[d][j] = segment[d][j] /\ (d = c => j # run[d])
      BY <1>2, <2>2 DEF i
    <3>2. CASE d = c
      BY <3>1, <3>2 DEF IInv, SlotInv
    <3>3. CASE d # c
      <4>1. worker'[d] = worker[d]
        BY <1>1, <3>3
      <4> QED
        BY <3>1, <4>1 DEF IInv, SlotInv
    <3> QED
      BY <3>2, <3>3
  <2> QED
    BY <2>1, <2>2
<1>8. EngineInv'
  <2>1. \A d \in Camera, j \in Run : segment[d][j].header = segment'[d][j].header
    BY <1>2, <1>3
  <2>2. inHand \in Frame => inHand.cam \in Camera /\ inHand.run \in Run
    BY DEF Frame
  <2> QED
    BY <1>1, <2>1, <2>2 DEF IInv, EngineInv, stream, inference
<1>9. PixelsLagByOne' /\ SegmentReleased'
  BY <1>1 DEF IInv, PixelsLagByOne, SegmentReleased, inference
<1> QED
  BY <1>5, <1>6, <1>7, <1>8, <1>9 DEF IInv

LEMMA AgeStep ==
  ASSUME IInv, NEW c \in Camera, Age(c)
  PROVE  IInv'
<1> USE TransportAssumption
<1> DEFINE i == run[c]
<1>1. i \in Run /\ UNCHANGED <<ingestion, name, stream, inference, killed>>
  BY DEF Age, IInv, TypeOK, Run
<1>2. /\ segment' \in [Camera -> [Run -> Slot]]
      /\ segment'[c][i].header = segment[c][i].header
      /\ segment'[c][i].pixels = segment[c][i].pixels
      /\ \A d \in Camera, j \in Run : d # c \/ j # i => segment'[d][j] = segment[d][j]
  <2> DEFINE s == [header |-> segment[c][i].header, pixels |-> segment[c][i].pixels,
                   stale |-> TRUE]
  <2>1. segment \in [Camera -> [Run -> Slot]] /\ segment[c][i] \in Slot
    BY <1>1 DEF IInv, TypeOK, Slot
  <2>3. s \in Slot
    BY <2>1 DEF Slot
  <2>4. segment' = [segment EXCEPT ![c][i] = s]
    BY DEF Age
  <2> HIDE DEF s, i
  <2>5. /\ segment' \in [Camera -> [Run -> Slot]] /\ segment'[c][i] = s
        /\ \A d \in Camera, j \in Run : d # c \/ j # i => segment'[d][j] = segment[d][j]
    BY <1>1, <2>1, <2>3, <2>4, OneSlot
  <2> QED
    BY <2>5 DEF s
<1>3. \A d \in Camera, j \in Run : /\ segment'[d][j].header = segment[d][j].header
                                   /\ segment'[d][j].pixels = segment[d][j].pixels
  <2> HIDE DEF i
  <2> QED
    BY <1>1, <1>2
<1> HIDE DEF i
<1>4. TypeOK'
  BY <1>1, <1>2 DEF IInv, TypeOK, Slot, ingestion, stream, inference
<1>5. RunsInv' /\ SlotInv'
  BY <1>1, <1>3 DEF IInv, RunsInv, SlotInv, ingestion
<1>6. EngineInv'
  <2>1. inHand \in Frame => inHand.cam \in Camera /\ inHand.run \in Run
    BY DEF Frame
  <2> QED
    BY <1>1, <1>3, <2>1 DEF IInv, EngineInv, ingestion, stream, inference
<1>7. PixelsLagByOne' /\ SegmentReleased'
  BY <1>1 DEF IInv, PixelsLagByOne, SegmentReleased, ingestion, inference
<1> QED
  BY <1>4, <1>5, <1>6, <1>7 DEF IInv
-----------------------------------------------------------------------------
(***************************************************************************)
(* The engine.  It writes nothing a worker reads; only when it dies may it *)
(* take names away.                                                        *)
(***************************************************************************)
LEMMA EngineTouchesNoWorker ==
  ASSUME IInv, UNCHANGED <<ingestion, memory, stream, killed>>
  PROVE  RunsInv' /\ SlotInv' /\ SegmentReleased'
BY DEF IInv, RunsInv, SlotInv, SegmentReleased, ingestion, memory

LEMMA StartEngineStep ==
  ASSUME IInv, StartEngine
  PROVE  IInv'
<1>1. /\ engine' = "read" /\ lastId' = 0
      /\ UNCHANGED <<ingestion, memory, stream, inHand, published, killed>>
  BY DEF StartEngine
<1>2. lastId' \in 0..Len(frames')
  BY <1>1 DEF IInv, TypeOK, stream
<1>3. TypeOK'
  BY <1>1, <1>2 DEF IInv, TypeOK, ingestion, memory, stream
<1>4. EngineInv' /\ PixelsLagByOne'
  BY <1>1 DEF IInv, EngineInv, PixelsLagByOne
<1> QED
  BY <1>1, <1>3, <1>4, EngineTouchesNoWorker DEF IInv

LEMMA ReadStep ==
  ASSUME IInv, Read
  PROVE  IInv'
<1>1. /\ engine' = "open"
      /\ UNCHANGED <<ingestion, memory, stream, inHand, published, killed>>
  BY DEF Read
<1>2. lastId' \in 0..Len(frames') /\ lastId' < Len(frames')
  <2>1. PICK n \in {Upcoming} \cup (IF lastId = 0 THEN {} ELSE {lastId + 1}) :
          n <= Len(frames) /\ lastId' = n - 1
    BY DEF Read
  <2>2. lastId \in Nat /\ trimmed \in Nat /\ Len(frames) \in Nat /\ frames' = frames
    BY <1>1 DEF IInv, TypeOK, stream
  <2>3. n \in Nat \ {0}
    BY <2>1, <2>2 DEF Upcoming
  <2> QED
    BY <2>1, <2>2, <2>3
<1>3. TypeOK'
  BY <1>1, <1>2 DEF IInv, TypeOK, ingestion, memory, stream
<1>4. EngineInv' /\ PixelsLagByOne'
  BY <1>1, <1>2 DEF IInv, EngineInv, PixelsLagByOne
<1> QED
  BY <1>1, <1>3, <1>4, EngineTouchesNoWorker DEF IInv

LEMMA OpenSlotStep ==
  ASSUME IInv, OpenSlot
  PROVE  IInv'
<1> DEFINE c == InHandPointer.cam
           s == segment[c][name[c]]
           f == [cam |-> c, run |-> name[c], seq |-> s.header, pixels |-> NoFrame]
<1>1. /\ engine = "open" /\ engine' = "pixels" /\ name[c] # 0 /\ inHand' = f
      /\ UNCHANGED <<ingestion, memory, stream, lastId, published, killed>>
  BY DEF OpenSlot
<1>2. c \in Camera
  <2>1. lastId + 1 \in 1..Len(frames) /\ frames \in Seq([cam : Camera, run : Run, seq : 1..MaxSeq])
    BY <1>1 DEF IInv, TypeOK, EngineInv
  <2>2. frames[lastId + 1] \in [cam : Camera, run : Run, seq : 1..MaxSeq]
    BY <2>1, ElementOfSeq
  <2> QED
    BY <2>2 DEF InHandPointer
<1> HIDE DEF c
<1>3. name[c] \in Run /\ name[c] = run[c]
  BY <1>1, <1>2, TransportAssumption DEF IInv, TypeOK, RunsInv, Run
<1>4. s.header \in Seq0
  BY <1>2, <1>3 DEF IInv, TypeOK
<1>5. /\ f \in Frame /\ f.cam = c /\ f.run = name[c] /\ f.seq = s.header
  BY <1>2, <1>3, <1>4 DEF Frame
<1> HIDE DEF f
<1>6. TypeOK'
  BY <1>1, <1>5 DEF IInv, TypeOK, ingestion, memory, stream
<1>7. EngineInv'
  <2>1. /\ lastId' < Len(frames') /\ run' = run /\ segment' = segment
    BY <1>1 DEF IInv, EngineInv, ingestion, memory, stream
  <2>2. run[c] <= run[c] /\ s.header <= s.header
    BY <1>3, <1>4 DEF Run, Seq0
  <2>3. inHand'.run <= run'[inHand'.cam]
    BY <1>1, <1>3, <1>5, <2>1, <2>2
  <2>4. inHand'.seq <= segment'[inHand'.cam][inHand'.run].header
    BY <1>1, <1>5, <2>1, <2>2
  <2> QED
    BY <1>1, <1>5, <2>1, <2>3, <2>4 DEF EngineInv
<1>8. PixelsLagByOne'
  BY <1>1 DEF IInv, PixelsLagByOne
<1> QED
  BY <1>1, <1>6, <1>7, <1>8, EngineTouchesNoWorker DEF IInv

LEMMA SkipStaleStep ==
  ASSUME IInv, SkipStale
  PROVE  IInv'
<1>1. /\ engine = "open" /\ engine' = "read" /\ lastId' = lastId + 1 /\ inHand' = NoFrame
      /\ UNCHANGED <<ingestion, memory, stream, published, killed>>
  BY DEF SkipStale, Done
<1>2. lastId' \in 0..Len(frames')
  BY <1>1 DEF IInv, TypeOK, EngineInv, stream
<1>3. TypeOK'
  BY <1>1, <1>2 DEF IInv, TypeOK, ingestion, memory, stream
<1>4. EngineInv' /\ PixelsLagByOne'
  BY <1>1 DEF IInv, EngineInv, PixelsLagByOne
<1> QED
  BY <1>1, <1>3, <1>4, EngineTouchesNoWorker DEF IInv

LEMMA OpenFailsStep ==
  ASSUME IInv, OpenFails
  PROVE  IInv'
<1>1. /\ engine' = "down" /\ lastId' = 0
      /\ UNCHANGED <<ingestion, memory, stream, inHand, published, killed>>
  BY DEF OpenFails
<1>2. lastId' \in 0..Len(frames')
  BY <1>1 DEF IInv, TypeOK, stream
<1>3. TypeOK'
  BY <1>1, <1>2 DEF IInv, TypeOK, ingestion, memory, stream
<1>4. EngineInv' /\ PixelsLagByOne'
  BY <1>1 DEF IInv, EngineInv, PixelsLagByOne
<1> QED
  BY <1>1, <1>3, <1>4, EngineTouchesNoWorker DEF IInv

\* The pixels are no older than the frame before the header's, written or not.
LEMMA ReadPixelsStep ==
  ASSUME IInv, ReadPixels
  PROVE  IInv'
<1> DEFINE c == inHand.cam
           s == segment[c][inHand.run]
<1>1. PICK p \in {s.pixels} \cup (IF Copying(c, inHand.run) THEN {s.header} ELSE {}) :
        inHand' = [inHand EXCEPT !.pixels = p]
  BY DEF ReadPixels
<1>2. /\ engine = "pixels" /\ engine' = "publish"
      /\ UNCHANGED <<ingestion, memory, stream, lastId, published, killed>>
  BY DEF ReadPixels
<1>3. /\ inHand \in Frame /\ inHand.run <= run[c] /\ inHand.seq <= s.header
      /\ lastId < Len(frames)
  BY <1>2 DEF IInv, EngineInv
<1>4. c \in Camera /\ inHand.run \in Run /\ inHand.seq \in Seq0
  BY <1>3 DEF Frame
<1>5. s.header \in Seq0 /\ s.pixels \in Seq0 /\ s.header <= s.pixels + 1
  <2>1. s.header \in Seq0 /\ s.pixels \in Seq0
    BY <1>4 DEF IInv, TypeOK
  <2>2. s.header <= s.pixels + 1
    BY <1>4 DEF IInv, SlotInv
  <2> QED
    BY <2>1, <2>2
<1> HIDE DEF c, s
<1>6. p \in Seq0 /\ p + 1 >= inHand.seq
  <2>1. p \in {s.header, s.pixels}
    BY <1>1
  <2> QED
    BY <1>3, <1>4, <1>5, <2>1 DEF Seq0
<1>7. /\ inHand' \in Frame /\ inHand'.cam = inHand.cam /\ inHand'.run = inHand.run
      /\ inHand'.seq = inHand.seq /\ inHand'.pixels = p
  BY <1>1, <1>3, <1>6 DEF Frame
<1>8. TypeOK'
  BY <1>2, <1>7 DEF IInv, TypeOK, ingestion, memory, stream
<1>9. EngineInv'
  <2>1. run' = run /\ segment' = segment /\ lastId' < Len(frames')
    BY <1>2, <1>3 DEF ingestion, memory, stream
  <2>2. /\ inHand'.run <= run'[inHand'.cam]
        /\ inHand'.seq <= segment'[inHand'.cam][inHand'.run].header
    BY <1>3, <1>7, <2>1 DEF c, s
  <2> QED
    BY <1>2, <1>6, <1>7, <2>1, <2>2 DEF EngineInv
<1>10. PixelsLagByOne'
  BY <1>2 DEF IInv, PixelsLagByOne
<1> QED
  BY <1>2, <1>8, <1>9, <1>10, EngineTouchesNoWorker DEF IInv

LEMMA PublishStep ==
  ASSUME IInv, Publish
  PROVE  IInv'
<1> DEFINE r == [run |-> inHand.run, seq |-> inHand.seq, pixels |-> inHand.pixels]
<1>1. /\ engine = "publish" /\ engine' = "read" /\ lastId' = lastId + 1 /\ inHand' = NoFrame
      /\ published' = [published EXCEPT ![inHand.cam] = r]
      /\ UNCHANGED <<ingestion, memory, stream, killed>>
  BY DEF Publish, Done
<1>2. lastId' \in 0..Len(frames')
  BY <1>1 DEF IInv, TypeOK, EngineInv, stream
<1>3. /\ inHand \in Frame /\ inHand.pixels \in Seq0 /\ inHand.pixels + 1 >= inHand.seq
      /\ published \in [Camera -> [run : 0..MaxRuns, seq : Seq0, pixels : Seq0]]
  BY <1>1 DEF IInv, TypeOK, EngineInv
<1>4. inHand.cam \in Camera /\ inHand.run \in 0..MaxRuns /\ inHand.seq \in Seq0
  BY <1>3 DEF Frame, Run
<1>5. /\ r \in [run : 0..MaxRuns, seq : Seq0, pixels : Seq0]
      /\ r.pixels + 1 >= r.seq
  BY <1>3, <1>4
<1> HIDE DEF r
<1>6. /\ published' \in [Camera -> [run : 0..MaxRuns, seq : Seq0, pixels : Seq0]]
      /\ \A c \in Camera : published'[c] \in {r, published[c]}
  BY <1>1, <1>3, <1>4, <1>5
<1>7. TypeOK'
  BY <1>1, <1>2, <1>6 DEF IInv, TypeOK, ingestion, memory, stream
<1>8. EngineInv'
  BY <1>1 DEF EngineInv
<1>9. PixelsLagByOne'
  BY <1>5, <1>6 DEF IInv, PixelsLagByOne
<1> QED
  BY <1>1, <1>7, <1>8, <1>9, EngineTouchesNoWorker DEF IInv

LEMMA EngineFailsStep ==
  ASSUME IInv, EngineFails
  PROVE  IInv'
<1>1. /\ engine' = "down" /\ lastId' = 0 /\ inHand' = NoFrame
      /\ UNCHANGED <<ingestion, segment, stream, published, killed>>
  BY DEF EngineFails
<1>2. PICK cs \in SUBSET Camera : name' = [c \in Camera |-> IF c \in cs THEN 0 ELSE name[c]]
  BY DEF EngineFails
<1>3. name' \in [Camera -> 0..MaxRuns] /\ \A c \in Camera : name'[c] \in {0, name[c]}
  BY <1>2, TransportAssumption DEF IInv, TypeOK
<1>4. lastId' \in 0..Len(frames')
  BY <1>1 DEF IInv, TypeOK, stream
<1>5. TypeOK'
  BY <1>1, <1>3, <1>4 DEF IInv, TypeOK, ingestion, stream
<1>6. RunsInv' /\ SegmentReleased'
  BY <1>1, <1>3 DEF IInv, RunsInv, SegmentReleased, ingestion
<1>7. SlotInv' /\ EngineInv' /\ PixelsLagByOne'
  BY <1>1 DEF IInv, SlotInv, EngineInv, PixelsLagByOne, ingestion
<1> QED
  BY <1>5, <1>6, <1>7 DEF IInv
-----------------------------------------------------------------------------
LEMMA StutterStep ==
  ASSUME IInv, UNCHANGED vars
  PROVE  IInv'
BY DEF IInv, TypeOK, RunsInv, SlotInv, EngineInv, PixelsLagByOne, SegmentReleased,
       vars, ingestion, memory, stream, inference

LEMMA IInvStep == IInv /\ [Next]_vars => IInv'
<1> SUFFICES ASSUME IInv, [Next]_vars
             PROVE  IInv'
  OBVIOUS
<1>1. ASSUME NEW c \in Camera,
             Start(c) \/ WorkerStep(c) \/ Stop(c) \/ Kill(c) \/ Age(c)
      PROVE  IInv'
  <2>1. CASE Start(c)
    BY <2>1, StartStep
  <2>2. CASE GiveUp(c) \/ Stop(c)
    BY <2>2, EndedStep DEF GiveUp, Stop, Release
  <2>3. CASE BackOff(c)
    BY <2>3, BackOffStep
  <2>4. CASE Capture(c)
    BY <2>4, CaptureStep
  <2>5. CASE Copy(c)
    BY <2>5, CopyStep
  <2>6. CASE Add(c)
    BY <2>6, AddStep DEF Add
  <2>7. CASE AddFails(c)
    BY <2>7, AddStep DEF AddFails
  <2>8. CASE Kill(c)
    BY <2>8, EndedStep DEF Kill
  <2>9. CASE Age(c)
    BY <2>9, AgeStep
  <2> QED
    BY <1>1, <2>1, <2>2, <2>3, <2>4, <2>5, <2>6, <2>7, <2>8, <2>9 DEF WorkerStep
<1>2. CASE StartEngine
  BY <1>2, StartEngineStep
<1>3. CASE EngineStep
  BY <1>3, ReadStep, OpenSlotStep, SkipStaleStep, OpenFailsStep, ReadPixelsStep, PublishStep
  DEF EngineStep
<1>4. CASE EngineFails
  BY <1>4, EngineFailsStep
<1>5. CASE UNCHANGED vars
  BY <1>5, StutterStep
<1> QED
  BY <1>1, <1>2, <1>3, <1>4, <1>5 DEF Next

\* A worker that ends by itself leaves no segment behind, and what is published for
\* a frame was seen in it, in the one before or in later ones, whoever crashes when:
\* the slot needs no lock for that (src/vms/ingestion/shm.py, worker.py).
THEOREM SlotSafety == Spec => []SlotSound
<1>1. IInv => SlotSound
  BY DEF IInv, SlotSound
<1> QED
  BY InitIInv, IInvStep, <1>1, PTL DEF Spec

-----------------------------------------------------------------------------
(***************************************************************************)
(* Pipeline: what a frame is published with, and what is reported of it.   *)
(* First, what loops over lists compute: least numbers, induction up to a  *)
(* number and over the parts of a finite set, and that a fold is one of    *)
(* its steps after the other.                                              *)
(***************************************************************************)
NatLess == {p \in Nat \X Nat : p[1] < p[2]}

LEMMA LeastOf ==
  ASSUME NEW S \in SUBSET Nat, S # {}
  PROVE  \E m \in S : \A n \in S : m <= n
<1>1. NatLess = OpToRel(<, Nat)
  BY DEF NatLess, OpToRel
<1>2. IsWellFoundedOn(NatLess, Nat)
  BY <1>1, NatLessThanWellFounded
<1>3. PICK m \in S : \A n \in S : ~ (<<n, m>> \in NatLess)
  BY <1>2, WFMin
<1>4. ASSUME NEW n \in S
      PROVE  m <= n
  <2>1. n \in Nat /\ m \in Nat /\ ~ (<<n, m>> \in NatLess)
    BY <1>3
  <2>2. ~ (n < m)
    BY <2>1 DEF NatLess
  <2> QED
    BY <2>1, <2>2
<1> QED
  BY <1>4

LEMMA MinIsMember ==
  ASSUME NEW S \in SUBSET Nat, S # {}
  PROVE  Min(S) \in S /\ \A n \in S : Min(S) <= n
BY LeastOf DEF Min

LEMMA MaxIsMember ==
  ASSUME NEW n \in Nat, NEW S \in SUBSET (0..n), S # {}
  PROVE  Max(S) \in S /\ \A i \in S : i <= Max(S)
<1> DEFINE R == {n - i : i \in S}
<1>1. R \in SUBSET Nat /\ R # {}
  <2>1. \A i \in S : n - i \in Nat
    OBVIOUS
  <2>2. \E i \in S : TRUE
    OBVIOUS
  <2> QED
    BY <2>1, <2>2
<1>2. PICK m \in R : \A k \in R : m <= k
  BY <1>1, LeastOf
<1>3. PICK i \in S : m = n - i
  OBVIOUS
<1>4. \A j \in S : i >= j
  <2> TAKE j \in S
  <2>1. n - j \in R
    OBVIOUS
  <2>2. m <= n - j
    BY <1>2, <2>1
  <2> QED
    BY <2>2, <1>3
<1>5. \E x \in S : \A y \in S : x >= y
  BY <1>4
<1> QED
  BY <1>5 DEF Max

\* Induction up to n: a set that has 0 and with every number its successor.
LEMMA Upwards ==
  ASSUME NEW n \in Nat, NEW S, 0 \in S, \A k \in 0..(n - 1) : k \in S => k + 1 \in S
  PROVE  \A k \in 0..n : k \in S
<1> SUFFICES ASSUME {k \in 0..n : k \notin S} # {}
             PROVE  FALSE
  OBVIOUS
<1>1. PICK m \in {k \in 0..n : k \notin S} : \A k \in {k \in 0..n : k \notin S} : m <= k
  <2> DEFINE B == {k \in 0..n : k \notin S}
  <2>1. B \in SUBSET Nat /\ B # {}
    OBVIOUS
  <2> HIDE DEF B
  <2>2. \E m \in B : \A k \in B : m <= k
    BY <2>1, LeastOf
  <2> QED
    BY <2>2 DEF B
<1>2. m \in 1..n /\ m - 1 \in 0..(n-1)
  OBVIOUS
<1>3. m - 1 \in S
  BY <1>1, <1>2
<1> QED
  BY <1>1, <1>2, <1>3

\* Induction over the subsets of a finite set, by taking elements away.
LEMMA SubsetsByRemoval ==
  ASSUME NEW S, IsFiniteSet(S), NEW G, {} \in G,
         \A s \in SUBSET S : s # {} => \E x \in s : s \ {x} \in G => s \in G
  PROVE  \A s \in SUBSET S : s \in G
<1> DEFINE H == {k \in Nat : \A s \in SUBSET S : Cardinality(s) = k => s \in G}
           n == Cardinality(S)
<1>0. n \in Nat /\ \A s \in SUBSET S : IsFiniteSet(s) /\ Cardinality(s) \in 0..n
  BY FS_Subset, FS_CardinalityType
<1>1. 0 \in H
  BY <1>0, FS_EmptySet
<1>2. ASSUME NEW k \in 0..(n - 1), k \in H
      PROVE  k + 1 \in H
  <2> SUFFICES ASSUME NEW s \in SUBSET S, Cardinality(s) = k + 1
               PROVE  s \in G
    BY <1>0
  <2>0. IsFiniteSet(s) /\ k \in Nat
    BY <1>0
  <2>1. s # {}
    BY <2>0, FS_EmptySet
  <2>2. PICK x \in s : s \ {x} \in G => s \in G
    BY <2>1
  <2>3. Cardinality(s \ {x}) = k
    <3>1. Cardinality(s \ {x}) = Cardinality(s) - 1
      BY <2>0, <2>1, <2>2, FS_RemoveElement
    <3> QED
      BY <2>0, <3>1
  <2> QED
    BY <1>2, <2>2, <2>3
<1> HIDE DEF H
<1>3. \A k \in 0..n : k \in H
  BY <1>0, <1>1, <1>2, Upwards
<1> QED
  BY <1>0, <1>3 DEF H

\* What MapThenFoldSet iterates over the subsets of S, its operators as functions.
Iterates(iter, S, base, step, pick) ==
  \A s \in SUBSET S :
    iter[s] = IF s = {} THEN base ELSE step[<<pick[s], iter[s \ {pick[s]}]>>]

\* A fold obeys its own recursion: over a finite set, by steps of V, there is such a function.
LEMMA FoldExists ==
  ASSUME NEW S, IsFiniteSet(S), NEW V, NEW base \in V, NEW step \in [S \X V -> V],
         NEW pick, \A s \in SUBSET S : s # {} => pick[s] \in s
  PROVE  \E iter \in [SUBSET S -> V] : Iterates(iter, S, base, step, pick)
<1> DEFINE upTo(k) == {s \in SUBSET S : Cardinality(s) <= k}
           good(g, k) == \A s \in upTo(k) :
             g[s] = IF s = {} THEN base ELSE step[<<pick[s], g[s \ {pick[s]}]>>]
           H == {k \in Nat : \E g \in [upTo(k) -> V] : good(g, k)}
           n == Cardinality(S)
<1>0. n \in Nat /\ \A s \in SUBSET S : IsFiniteSet(s) /\ Cardinality(s) \in 0..n
  BY FS_Subset, FS_CardinalityType
<1>1. 0 \in H
  <2> DEFINE g == [s \in upTo(0) |-> base]
  <2>1. upTo(0) = {{}}
    BY <1>0, FS_EmptySet
  <2>2. g \in [upTo(0) -> V] /\ good(g, 0)
    BY <2>1
  <2> QED
    BY <2>2
<1>2. ASSUME NEW k \in 0..(n - 1), k \in H
      PROVE  k + 1 \in H
  <2>1. PICK g \in [upTo(k) -> V] : good(g, k)
    BY <1>2
  <2> DEFINE h == [s \in upTo(k + 1) |->
                     IF s = {} THEN base ELSE step[<<pick[s], g[s \ {pick[s]}]>>]]
  <2>2. \A s \in upTo(k + 1) : s # {} => s \ {pick[s]} \in upTo(k)
    BY <1>0, FS_RemoveElement
  <2>3. h \in [upTo(k + 1) -> V]
    <3> SUFFICES ASSUME NEW s \in upTo(k + 1), s # {}
                 PROVE  step[<<pick[s], g[s \ {pick[s]}]>>] \in V
      OBVIOUS
    <3>1. g[s \ {pick[s]}] \in V /\ pick[s] \in S
      BY <2>1, <2>2
    <3> QED
      BY <3>1
  <2>4. ASSUME NEW s \in upTo(k) 
        PROVE  h[s] = g[s]
    <3>1. s \in upTo(k + 1)
      BY <1>0
    <3> QED
      BY <3>1, <2>1
  <2>5. ASSUME NEW s \in upTo(k + 1)
        PROVE  h[s] = IF s = {} THEN base ELSE step[<<pick[s], h[s \ {pick[s]}]>>]
    <3>1. h[s] = IF s = {} THEN base ELSE step[<<pick[s], g[s \ {pick[s]}]>>]
      BY Zenon
    <3>2. s # {} => h[s \ {pick[s]}] = g[s \ {pick[s]}]
      BY <2>2, <2>4
    <3> QED
      BY <3>1, <3>2
  <2>6. good(h, k + 1)
    BY <2>5, Zenon
  <2> HIDE DEF h, good, upTo
  <2>7. k + 1 \in Nat /\ h \in [upTo(k + 1) -> V] /\ good(h, k + 1)
    BY <2>3, <2>6, <1>0
  <2> QED
    BY <2>7
<1> HIDE DEF H
<1>3. n \in H
  BY <1>0, <1>1, <1>2, Upwards
<1>4. PICK g \in [upTo(n) -> V] : good(g, n)
  BY <1>3 DEF H
<1>5. upTo(n) = SUBSET S
  BY <1>0
<1> QED
  BY <1>4, <1>5 DEF Iterates

-----------------------------------------------------------------------------
(***************************************************************************)
(* Selections: a loop that takes the entries that pass.                    *)
(***************************************************************************)
LEMMA LastOfSubset ==
  ASSUME NEW n \in Nat, NEW s \in SUBSET (1..n), s # {}
  PROVE  Max(s) \in s
<1>1. s \in SUBSET (0..n)
  OBVIOUS
<1> QED
  BY <1>1, MaxIsMember

LEMMA IndicesFinite ==
  ASSUME NEW n \in Nat, NEW I \in SUBSET (1..n)
  PROVE  IsFiniteSet(I)
<1>1. IsFiniteSet(1..n)
  BY FS_Interval
<1> QED
  BY <1>1, FS_Subset

\* At obeys its recursion: the entries but the last, then the last.
LEMMA AtUnfolds ==
  ASSUME NEW list, NEW n \in Nat, NEW I \in SUBSET (1..n)
  PROVE  \E iter :
           /\ At(list, I) = iter[I]
           /\ iter[{}] = <<>>
           /\ \A s \in SUBSET I : s # {} => iter[s] = Append(iter[s \ {Max(s)}], list[Max(s)])
<1> DEFINE V == Seq({list[i] : i \in I})
           pick == [s \in SUBSET I |-> Max(s)]
           step == [p \in I \X V |-> Append(p[2], list[p[1]])]
           rule(f) == f = [s \in SUBSET I |->
                             IF s = {} THEN <<>>
                             ELSE LET x == Max(s) IN Append(f[s \ {x}], list[x])]
           iter == CHOOSE f : rule(f)
<1>1. \A s \in SUBSET I : s # {} => pick[s] \in s
  BY LastOfSubset
<1>2. /\ IsFiniteSet(I) /\ <<>> \in V /\ step \in [I \X V -> V]
  <2>1. IsFiniteSet(I)
    BY IndicesFinite
  <2>2. <<>> \in V
    BY EmptySeq
  <2>3. \A p \in I \X V : Append(p[2], list[p[1]]) \in V
    OBVIOUS
  <2> HIDE DEF V
  <2> QED
    BY <2>1, <2>2, <2>3
<1>3. PICK f \in [SUBSET I -> V] : Iterates(f, I, <<>>, step, pick)
  <2> HIDE DEF V, pick, step
  <2> QED
    BY <1>1, <1>2, FoldExists
<1>4. rule(f)
  <2>1. ASSUME NEW s \in SUBSET I
        PROVE  f[s] = IF s = {} THEN <<>>
                      ELSE LET x == Max(s) IN Append(f[s \ {x}], list[x])
    <3>1. f[s] = IF s = {} THEN <<>> ELSE step[<<Max(s), f[s \ {Max(s)}]>>]
      BY <1>3 DEF Iterates
    <3>2. CASE s # {}
      <4>1. f[s \ {Max(s)}] \in V /\ Max(s) \in I
        BY <1>1, <1>3, <3>2
      <4> HIDE DEF V
      <4> QED
        BY <3>1, <3>2, <4>1
    <3> QED
      BY <3>1, <3>2
  <2> HIDE DEF V
  <2> QED
    BY <1>3, <2>1
<1>5. rule(iter)
  <2> HIDE DEF rule
  <2> QED
    BY <1>4
<1>6. At(list, I) = iter[I]
  BY DEF At, MapThenFoldSet
<1> HIDE DEF iter
<1> QED
  BY <1>5, <1>6

\* At takes each of its indices once.
TakesEach(taken, list, I) ==
  \E m \in Nat : \E h \in Bijection(1..m, I) : taken = [k \in 1..m |-> list[h[k]]]

LEMMA AtSelects ==
  ASSUME NEW list, NEW n \in Nat, NEW I \in SUBSET (1..n)
  PROVE  TakesEach(At(list, I), list, I)
<1>1. PICK iter :
        /\ At(list, I) = iter[I]
        /\ iter[{}] = <<>>
        /\ \A s \in SUBSET I : s # {} => iter[s] = Append(iter[s \ {Max(s)}], list[Max(s)])
  BY AtUnfolds
<1> DEFINE lists(s, m, h) == /\ h \in [1..m -> s]
                             /\ \A k, l \in 1..m : h[k] = h[l] => k = l
                             /\ \A i \in s : \E k \in 1..m : h[k] = i
                             /\ iter[s] = [k \in 1..m |-> list[h[k]]]
           G == {s \in SUBSET I : \E m \in Nat : \E h : lists(s, m, h)}
<1>2. {} \in G
  <2>1. 1..0 = {} /\ <<>> \in [{} -> {}] /\ \A v : [k \in {} |-> v] = <<>>
    OBVIOUS
  <2>2. <<>> = [k \in 1..0 |-> list[<<>>[k]]]
    BY <2>1
  <2>3. lists({}, 0, <<>>)
    BY <1>1, <2>1, <2>2
  <2> HIDE DEF lists
  <2>4. \E m \in Nat : \E h : lists({}, m, h)
    BY <2>3
  <2> QED
    BY <2>4
<1>3. ASSUME NEW s \in SUBSET I, s # {}, s \ {Max(s)} \in G
      PROVE  s \in G
  <2> DEFINE top == Max(s)
             r == s \ {top}
  <2>1. top \in s /\ r \in SUBSET I /\ r \cup {top} = s /\ top \notin r
    <3>1. top \in s
      BY <1>3, LastOfSubset
    <3> HIDE DEF top
    <3> QED
      BY <1>3, <3>1
  <2>2. PICK m \in Nat : \E h : lists(r, m, h)
    BY <1>3
  <2>3. PICK h : lists(r, m, h)
    BY <2>2
  <2>4. iter[s] = Append(iter[r], list[top])
    BY <1>1, <1>3
  <2> HIDE DEF top, r
  <2> DEFINE g == [k \in 1..(m + 1) |-> IF k = m + 1 THEN top ELSE h[k]]
  <2>5. g \in [1..(m + 1) -> s]
    BY <2>1, <2>3
  <2>6. \A k, l \in 1..(m + 1) : g[k] = g[l] => k = l
    <3>1. \A k \in 1..m : g[k] = h[k] /\ h[k] \in r
      BY <2>3
    <3>2. g[m + 1] = top /\ \A k \in 1..(m + 1) : k = m + 1 \/ k \in 1..m
      OBVIOUS
    <3> HIDE DEF g
    <3> QED
      BY <2>1, <2>3, <3>1, <3>2
  <2>7. ASSUME NEW i \in s
        PROVE  \E k \in 1..(m + 1) : g[k] = i
    <3>1. CASE i = top
      <4>1. m + 1 \in 1..(m + 1) /\ g[m + 1] = i
        BY <3>1
      <4> QED
        BY <4>1
    <3>2. CASE i # top
      <4>1. PICK k \in 1..m : h[k] = i
        BY <2>1, <2>3, <3>2
      <4>2. k \in 1..(m + 1) /\ k # m + 1
        OBVIOUS
      <4> QED
        BY <4>1, <4>2
    <3> QED
      BY <3>1, <3>2
  <2>8. iter[s] = [k \in 1..(m + 1) |-> list[g[k]]]
    <3>1. iter[r] = [k \in 1..m |-> list[h[k]]]
      BY <2>3
    <3>2. iter[r] \in Seq({list[h[k]] : k \in 1..m}) /\ Len(iter[r]) = m
      BY <3>1
    <3>3. Append(iter[r], list[top]) = [k \in 1..(m + 1) |-> IF k = m + 1 THEN list[top] ELSE iter[r][k]]
      BY <3>2
    <3>4. \A k \in 1..(m + 1) : list[g[k]] = IF k = m + 1 THEN list[top] ELSE iter[r][k]
      BY <3>1
    <3> QED
      BY <2>4, <3>3, <3>4
  <2>9. lists(s, m + 1, g)
    BY <2>5, <2>6, <2>7, <2>8
  <2> HIDE DEF lists
  <2> QED
    BY <2>9
<1>4. \A s \in SUBSET I : s # {} => \E x \in s : s \ {x} \in G => s \in G
  BY <1>3, LastOfSubset
<1>5. IsFiniteSet(I)
  BY IndicesFinite
<1> HIDE DEF G
<1>6. I \in G
  BY <1>2, <1>4, <1>5, SubsetsByRemoval
<1>7. PICK m \in Nat : \E h : lists(I, m, h)
  BY <1>6 DEF G
<1>8. PICK h : lists(I, m, h)
  BY <1>7
<1>9. h \in Bijection(1..m, I)
  BY <1>8 DEF Bijection, Injection, Surjection, IsInjective
<1> QED
  BY <1>1, <1>8, <1>9 DEF TakesEach

-----------------------------------------------------------------------------
(***************************************************************************)
(* NMS: a loop from the best candidate to the worst.                       *)
(***************************************************************************)
LEMMA LastIsWorst ==
  ASSUME NEW candidates, NEW n \in Nat, \A i \in 1..n : candidates[i].conf \in Nat,
         NEW s \in SUBSET (1..n), s # {}
  PROVE  /\ LastIn(candidates, s) \in s
         /\ \A j \in s : candidates[LastIn(candidates, s)].conf <= candidates[j].conf
<1> DEFINE score(i) == candidates[i].conf
           scores == {score(i) : i \in s}
<1>1. \A i \in s : i \in 1..n /\ score(i) \in Nat
  OBVIOUS
<1> HIDE DEF score
<1>2. scores \in SUBSET Nat /\ scores # {}
  BY <1>1
<1>3. PICK i \in s : \A j \in s : score(i) <= score(j)
  <2>1. PICK m \in scores : \A k \in scores : m <= k
    BY <1>2, LeastOf
  <2> QED
    BY <2>1
<1> DEFINE worst == {j \in s : score(j) = score(i)}
<1>4. worst \in SUBSET (0..n) /\ worst # {}
  <2>1. i \in worst /\ 1..n \subseteq 0..n
    OBVIOUS
  <2> QED
    BY <1>1, <2>1
<1>5. Max(worst) \in worst /\ \A j \in worst : j <= Max(worst)
  <2> HIDE DEF worst
  <2> QED
    BY <1>4, MaxIsMember
<1> DEFINE last == Max(worst)
<1>6. last \in s /\ \A j \in s : score(last) < score(j) \/ (score(last) = score(j) /\ j <= last)
  <2>1. last \in s /\ score(last) = score(i)
    BY <1>5
  <2> HIDE DEF last
  <2>2. ASSUME NEW j \in s
        PROVE  score(last) < score(j) \/ (score(last) = score(j) /\ j <= last)
    <3>1. score(j) = score(i) => j <= last
      BY <1>5 DEF last
    <3>2. score(i) <= score(j) /\ score(i) \in Nat /\ score(j) \in Nat
      BY <1>1, <1>3
    <3> QED
      BY <2>1, <3>1, <3>2
  <2> QED
    BY <2>1, <2>2
<1> HIDE DEF last, worst
<1>7. LastIn(candidates, s) \in s /\ \A j \in s :
        \/ score(LastIn(candidates, s)) < score(j)
        \/ score(LastIn(candidates, s)) = score(j) /\ j <= LastIn(candidates, s)
  BY <1>6 DEF LastIn, score
<1> DEFINE found == LastIn(candidates, s)
<1>8. \A j \in s : score(found) <= score(j)
  <2>1. found \in s /\ \A j \in s : score(found) < score(j) \/ (score(found) = score(j) /\ j <= found)
    BY <1>7
  <2> HIDE DEF found
  <2> QED
    BY <1>1, <2>1
<1> QED
  BY <1>7, <1>8 DEF score

Above(candidates, conf) == {i \in 1..Len(candidates) : candidates[i].conf > conf}

\* What NMS makes of a candidate and those kept before it.
KeepIfApart(c, kept, pct) ==
  IF \E i \in 1..Len(kept) : Common(kept[i].box, c.box) * 100 > pct * Union(kept[i].box, c.box)
  THEN kept ELSE Append(kept, c)

NMSIterates(iter, candidates, conf, pct) ==
  /\ iter \in [SUBSET Above(candidates, conf) -> Seq({candidates[i] : i \in Above(candidates, conf)})]
  /\ NMS(candidates, conf, pct) = iter[Above(candidates, conf)]
  /\ iter[{}] = <<>>
  /\ \A s \in SUBSET Above(candidates, conf) : s # {} =>
       LET last == LastIn(candidates, s)
       IN  iter[s] = KeepIfApart(candidates[last], iter[s \ {last}], pct)

LEMMA NMSUnfolds ==
  ASSUME NEW candidates, NEW conf, NEW pct, Len(candidates) \in Nat,
         \A i \in 1..Len(candidates) : candidates[i].conf \in Nat
  PROVE  \E iter : NMSIterates(iter, candidates, conf, pct)
<1> DEFINE above == Above(candidates, conf)
           last(s) == LastIn(candidates, s)
           V == Seq({candidates[i] : i \in above})
           pick == [s \in SUBSET above |-> last(s)]
           step == [p \in above \X V |-> KeepIfApart(candidates[p[1]], p[2], pct)]
           rule(f) == f = [s \in SUBSET above |->
                             IF s = {} THEN <<>>
                             ELSE LET x == last(s) IN KeepIfApart(candidates[x], f[s \ {x}], pct)]
           iter == CHOOSE f : rule(f)
<1>0. above \in SUBSET (1..Len(candidates))
  BY DEF Above
<1>1. NMS(candidates, conf, pct) = iter[above]
  BY DEF NMS, MapThenFoldSet, KeepIfApart, Above
<1> HIDE DEF above
<1>2. \A s \in SUBSET above : s # {} => last(s) \in s
  <2> SUFFICES ASSUME NEW s \in SUBSET above, s # {}
               PROVE  last(s) \in s
    OBVIOUS
  <2>1. s \in SUBSET (1..Len(candidates))
    BY <1>0
  <2> QED
    BY <2>1, LastIsWorst
<1> HIDE DEF last
<1>3. <<>> \in V /\ \A x \in above, kept \in V : KeepIfApart(candidates[x], kept, pct) \in V
  <2>1. <<>> \in V
    BY EmptySeq
  <2>2. ASSUME NEW x \in above, NEW kept \in V
        PROVE  Append(kept, candidates[x]) \in V
    OBVIOUS
  <2> HIDE DEF V
  <2> QED
    BY <2>1, <2>2 DEF KeepIfApart
<1>4. PICK f \in [SUBSET above -> V] : Iterates(f, above, <<>>, step, pick)
  <2>1. step \in [above \X V -> V]
    <3> HIDE DEF V
    <3> QED
      BY <1>3
  <2>2. IsFiniteSet(above) /\ \A s \in SUBSET above : s # {} => pick[s] \in s
    BY <1>0, <1>2, IndicesFinite
  <2>3. <<>> \in V
    BY <1>3
  <2> HIDE DEF V, pick, step
  <2> QED
    BY <2>1, <2>2, <2>3, FoldExists
<1> HIDE DEF V
<1>5. rule(f)
  <2>1. ASSUME NEW s \in SUBSET above
        PROVE  f[s] = IF s = {} THEN <<>>
                      ELSE LET x == last(s) IN KeepIfApart(candidates[x], f[s \ {x}], pct)
    <3>1. f[s] = IF s = {} THEN <<>> ELSE step[<<last(s), f[s \ {last(s)}]>>]
      BY <1>4 DEF Iterates
    <3>2. CASE s # {}
      <4>1. f[s \ {last(s)}] \in V /\ last(s) \in above
        BY <1>2, <1>4, <3>2
      <4> QED
        BY <3>1, <3>2, <4>1
    <3> QED
      BY <3>1, <3>2
  <2> QED
    BY <1>4, <2>1
<1>6. rule(iter)
  <2> HIDE DEF rule
  <2> QED
    BY <1>5
<1> HIDE DEF iter
<1>7. iter \in [SUBSET above -> V]
  <2> DEFINE G == {s \in SUBSET above : iter[s] \in V}
  <2>1. {} \in G
    BY <1>3, <1>6
  <2>2. \A s \in SUBSET above : s # {} => \E x \in s : s \ {x} \in G => s \in G
    <3> SUFFICES ASSUME NEW s \in SUBSET above, s # {}, s \ {last(s)} \in G
                 PROVE  s \in G
      BY <1>2
    <3>1. iter[s] = KeepIfApart(candidates[last(s)], iter[s \ {last(s)}], pct)
      BY <1>6
    <3> QED
      BY <1>2, <1>3, <3>1
  <2>3. IsFiniteSet(above)
    BY <1>0, IndicesFinite
  <2> HIDE DEF G
  <2>4. \A s \in SUBSET above : s \in G
    BY <2>1, <2>2, <2>3, SubsetsByRemoval
  <2>5. \A s \in SUBSET above : iter[s] \in V
    BY <2>4 DEF G
  <2> QED
    BY <1>6, <2>5
<1>8. iter[{}] = <<>> /\ \A s \in SUBSET above : s # {} =>
        iter[s] = KeepIfApart(candidates[last(s)], iter[s \ {last(s)}], pct)
  BY <1>6
<1>9. NMSIterates(iter, candidates, conf, pct)
  BY <1>1, <1>7, <1>8 DEF above, last, V, NMSIterates
<1> QED
  BY <1>9

\* NMS keeps candidates above the threshold, among them one as good as any of these.
LEMMA NMSKeepsBest ==
  ASSUME NEW candidates, NEW conf, NEW pct, Len(candidates) \in Nat,
         \A i \in 1..Len(candidates) : candidates[i].conf \in Nat
  PROVE  LET kept == NMS(candidates, conf, pct)
         IN  /\ kept \in Seq({candidates[i] : i \in Above(candidates, conf)})
             /\ \A i \in Above(candidates, conf) : \E k \in 1..Len(kept) :
                  candidates[i].conf <= kept[k].conf
<1> DEFINE above == Above(candidates, conf)
           last(s) == LastIn(candidates, s)
           V == Seq({candidates[i] : i \in above})
           score(i) == candidates[i].conf
<1>0. PICK iter : NMSIterates(iter, candidates, conf, pct)
  BY NMSUnfolds
<1>1. /\ iter \in [SUBSET above -> V]
      /\ NMS(candidates, conf, pct) = iter[above]
      /\ iter[{}] = <<>>
      /\ \A s \in SUBSET above : s # {} =>
           iter[s] = KeepIfApart(candidates[last(s)], iter[s \ {last(s)}], pct)
  BY <1>0 DEF NMSIterates
<1>2. above \in SUBSET (1..Len(candidates))
  BY DEF Above
<1> HIDE DEF above
<1>3. ASSUME NEW s \in SUBSET above, s # {}
      PROVE  last(s) \in s /\ \A j \in s : score(last(s)) <= score(j)
  <2>1. s \in SUBSET (1..Len(candidates))
    BY <1>2
  <2> QED
    BY <1>3, <2>1, LastIsWorst
<1> HIDE DEF last
<1>4. \A i \in above : score(i) \in Nat
  BY <1>2
<1> DEFINE best(s) == \A i \in s : \E k \in 1..Len(iter[s]) : score(i) <= iter[s][k].conf
           G == {s \in SUBSET above : best(s)}
<1>5. {} \in G
  OBVIOUS
<1>6. ASSUME NEW s \in SUBSET above, s # {}, s \ {last(s)} \in G
      PROVE  s \in G
  <2> DEFINE r == s \ {last(s)}
             kept == iter[r]
             c == candidates[last(s)]
  <2>1. r \in SUBSET above /\ best(r) /\ last(s) \in s /\ last(s) \in above
    BY <1>3, <1>6
  <2>2. kept \in V /\ iter[s] \in V
    BY <1>1, <2>1
  <2>3. iter[s] = KeepIfApart(c, kept, pct)
    BY <1>1, <1>6
  <2>4. \A k \in 1..Len(kept) : k \in 1..Len(iter[s]) /\ iter[s][k] = kept[k]
    <3>1. iter[s] \in {kept, Append(kept, c)}
      BY <2>3 DEF KeepIfApart
    <3> DEFINE E == {candidates[i] : i \in above}
    <3>2. c \in E /\ kept \in Seq(E)
      BY <2>1, <2>2
    <3> HIDE DEF kept, c, E
    <3>3. CASE iter[s] = kept
      BY <3>3
    <3>4. CASE iter[s] = Append(kept, c)
      BY <3>2, <3>4
    <3> QED
      BY <3>1, <3>3, <3>4
  <2>5. \A i \in r : \E k \in 1..Len(iter[s]) : score(i) <= iter[s][k].conf
    BY <2>1, <2>4
  <2>6. \E k \in 1..Len(iter[s]) : score(last(s)) <= iter[s][k].conf
    <3>1. CASE r = {}
      <4>1. kept = <<>>
        BY <1>1, <3>1
      <4> HIDE DEF kept
      <4>2. iter[s] = Append(<<>>, c)
        BY <2>3, <4>1 DEF KeepIfApart
      <4>3. Len(iter[s]) = 1 /\ iter[s][1] = c
        BY <4>2
      <4> QED
        BY <4>3, <1>4, <2>1
    <3>2. CASE r # {}
      <4>1. PICK j \in r : TRUE
        BY <3>2
      <4>2. PICK k \in 1..Len(iter[s]) : score(j) <= iter[s][k].conf
        BY <2>5
      <4>3. score(last(s)) <= score(j) /\ j \in above
        BY <1>3, <1>6, <4>1
      <4>4. iter[s][k].conf \in Nat
        <5>1. PICK i \in above : iter[s][k] = candidates[i]
          BY <2>2
        <5> QED
          BY <1>4, <5>1
      <4>5. score(last(s)) \in Nat /\ score(j) \in Nat
        BY <1>4, <2>1, <4>3
      <4>6. score(last(s)) <= iter[s][k].conf
        <5> HIDE DEF score
        <5> QED
          BY <4>2, <4>3, <4>4, <4>5
      <4> QED
        BY <4>6
    <3> QED
      BY <3>1, <3>2
  <2>7. best(s)
    BY <2>5, <2>6
  <2> QED
    BY <2>7
<1>7. \A s \in SUBSET above : s # {} => \E x \in s : s \ {x} \in G => s \in G
  BY <1>3, <1>6
<1>8. IsFiniteSet(above)
  BY <1>2, IndicesFinite
<1> HIDE DEF G
<1>9. above \in G
  <2>1. \A s \in SUBSET above : s \in G
    BY <1>5, <1>7, <1>8, SubsetsByRemoval
  <2> QED
    BY <2>1
<1>10. best(above) /\ iter[above] \in V
  BY <1>1, <1>9 DEF G
<1> QED
  BY <1>1, <1>10 DEF above

-----------------------------------------------------------------------------
(***************************************************************************)
(* Association: a loop over the faces.                                     *)
(***************************************************************************)
LEMMA LeftFoldExists ==
  ASSUME NEW n \in Nat, NEW V, NEW base \in V, NEW step \in [(1..n) \X V -> V]
  PROVE  \E iter \in [SUBSET (1..n) -> V] :
           Iterates(iter, 1..n, base, step, [s \in SUBSET (1..n) |-> Max(s)])
<1> DEFINE S == 1..n
           pick == [s \in SUBSET S |-> Max(s)]
<1>1. \A s \in SUBSET S : s # {} => pick[s] \in s
  <2> SUFFICES ASSUME NEW s \in SUBSET S, s # {}
               PROVE  Max(s) \in s
    OBVIOUS
  <2>1. s \in SUBSET (0..n)
    OBVIOUS
  <2> QED
    BY <2>1, MaxIsMember
<1>2. IsFiniteSet(S) /\ step \in [S \X V -> V]
  BY FS_Interval
<1> HIDE DEF pick, S
<1>3. \E iter \in [SUBSET S -> V] : Iterates(iter, S, base, step, pick)
  BY <1>1, <1>2, FoldExists
<1> QED
  BY <1>3 DEF pick, S

LEMMA UpToIsPrefix ==
  ASSUME NEW k \in Nat, k # 0
  PROVE  1..k # {} /\ Max(1..k) = k /\ (1..k) \ {k} = 1..(k - 1)
<1>1. 1..k \in SUBSET (0..k) /\ k \in 1..k
  OBVIOUS
<1>2. Max(1..k) \in 1..k /\ \A i \in 1..k : i <= Max(1..k)
  BY <1>1, MaxIsMember
<1>3. Max(1..k) = k
  BY <1>1, <1>2
<1> QED
  BY <1>1, <1>3

Holders(trks, map, f) ==
  {trks[i].id : i \in {j \in 1..Len(trks) :
     map[trks[j].id] = None /\ Inside(Centre(f.box), trks[j].box)}}

Assigned(trks, map, f) ==
  [id \in DOMAIN map |-> IF id \in Holders(trks, map, f) THEN f.emb ELSE map[id]]

\* maps[k]: what the tracklets have after k faces.
Associates(maps, trks, faces) ==
  /\ maps[0] = [id \in {trks[i].id : i \in 1..Len(trks)} |-> None]
  /\ \A k \in 1..Len(faces) : maps[k] = Assigned(trks, maps[k - 1], faces[k])
  /\ AssociateFaces(trks, faces) = maps[Len(faces)]

LEMMA AssociationUnfolds ==
  ASSUME NEW trks, NEW E, NEW faces \in Seq(E)
  PROVE  \E maps : Associates(maps, trks, faces)
<1> DEFINE n == Len(faces)
           ids == {trks[i].id : i \in 1..Len(trks)}
           start == [id \in ids |-> None]
           V == [ids -> {None} \cup {e.emb : e \in E}]
           step == [p \in (1..n) \X V |-> Assigned(trks, p[2], faces[p[1]])]
           iter == CHOOSE iter : iter = [s \in SUBSET DOMAIN faces |->
                     IF s = {} THEN start
                     ELSE LET x == Max(s) IN Assigned(trks, iter[s \ {x}], faces[x])]
<1>1. n \in Nat /\ DOMAIN faces = 1..n /\ \A i \in 1..n : faces[i] \in E
  OBVIOUS
<1>2. AssociateFaces(trks, faces) = iter[DOMAIN faces]
  BY DEF AssociateFaces, FoldLeft, MapThenFoldSet, Assigned, Holders
<1>3. step \in [(1..n) \X V -> V] /\ start \in V
  BY <1>1 DEF Assigned
<1>4. PICK f \in [SUBSET (1..n) -> V] :
        Iterates(f, 1..n, start, step, [s \in SUBSET (1..n) |-> Max(s)])
  <2> HIDE DEF step, V, start, n
  <2> QED
    BY <1>1, <1>3, LeftFoldExists
<1>5. f = [s \in SUBSET DOMAIN faces |->
             IF s = {} THEN start ELSE LET x == Max(s) IN Assigned(trks, f[s \ {x}], faces[x])]
  <2>1. ASSUME NEW s \in SUBSET (1..n), s # {}
        PROVE  step[<<Max(s), f[s \ {Max(s)}]>>] = Assigned(trks, f[s \ {Max(s)}], faces[Max(s)])
    <3>1. Max(s) \in 1..n
      <4>1. s \in SUBSET (0..n) /\ n \in Nat
        BY <1>1
      <4> QED
        BY <2>1, <4>1, MaxIsMember
    <3>2. f[s \ {Max(s)}] \in V
      BY <1>4
    <3> QED
      BY <3>1, <3>2
  <2>2. \A s \in SUBSET (1..n) : f[s] =
          IF s = {} THEN start ELSE step[<<Max(s), f[s \ {Max(s)}]>>]
    BY <1>4 DEF Iterates
  <2> HIDE DEF step, V, start
  <2> QED
    BY <1>1, <1>4, <2>1, <2>2
<1>6. iter = [s \in SUBSET DOMAIN faces |->
                IF s = {} THEN start
                ELSE LET x == Max(s) IN Assigned(trks, iter[s \ {x}], faces[x])]
  BY <1>5
<1> HIDE DEF iter, start
<1> DEFINE maps == [k \in 0..n |-> iter[1..k]]
<1>7. maps[0] = start
  BY <1>1, <1>6
<1>8. ASSUME NEW k \in 1..n
      PROVE  maps[k] = Assigned(trks, maps[k - 1], faces[k])
  <2>1. 1..k \in SUBSET (1..n) /\ 1..k # {} /\ Max(1..k) = k /\ (1..k) \ {k} = 1..(k - 1)
    BY <1>1, UpToIsPrefix
  <2>2. iter[1..k] = Assigned(trks, iter[1..(k - 1)], faces[k])
    BY <1>1, <1>6, <2>1
  <2> QED
    BY <1>1, <2>2
<1>9. maps[n] = AssociateFaces(trks, faces)
  BY <1>1, <1>2
<1> QED
  BY <1>7, <1>8, <1>9 DEF start, Associates

-----------------------------------------------------------------------------
(***************************************************************************)
(* What the rules of FrameRules give.                                      *)
(***************************************************************************)
\* A selection is a sequence of the entries selected.
LEMMA AtIsSequence ==
  ASSUME NEW list, NEW n \in Nat, NEW I \in SUBSET (1..n)
  PROVE  At(list, I) \in Seq({list[i] : i \in I})
<1>0. TakesEach(At(list, I), list, I)
  BY AtSelects
<1>1. PICK m \in Nat : \E h \in Bijection(1..m, I) : At(list, I) = [k \in 1..m |-> list[h[k]]]
  BY <1>0 DEF TakesEach
<1>2. PICK h \in Bijection(1..m, I) : At(list, I) = [k \in 1..m |-> list[h[k]]]
  BY <1>1
<1>3. h \in [1..m -> I]
  BY <1>2 DEF Bijection, Injection
<1> QED
  BY <1>2, <1>3

\* SelectInSeq answers the first index that passes, 0 if there is none.
LEMMA FirstIndex ==
  ASSUME NEW n \in Nat, NEW found \in SUBSET (1..n)
  PROVE  LET at == IF found # {} THEN Min(found) ELSE 0
         IN  /\ at \in 0..n /\ (at = 0 <=> found = {})
             /\ at # 0 => at \in found /\ \A i \in found : at <= i
<1>1. CASE found = {}
  BY <1>1
<1>2. CASE found # {}
  <2>1. Min(found) \in found /\ \A i \in found : Min(found) <= i
    <3>1. found \in SUBSET Nat
      OBVIOUS
    <3> QED
      BY <1>2, <3>1, MinIsMember
  <2> DEFINE m == Min(found)
  <2>2. m \in found /\ \A i \in found : m <= i
    BY <2>1
  <2> HIDE DEF m
  <2>3. m \in 1..n
    BY <2>2
  <2> QED
    BY <1>2, <2>2, <2>3 DEF m
<1> QED
  BY <1>1, <1>2

LEMMA LoadedIsKnown ==
  ASSUME NEW n \in Nat, NEW order, DOMAIN order = 1..n, Len(order) = n, NEW there
  PROVE  FirstOf(order, there) \in {order[i] : i \in 1..n} \cup {"null"}
<1> DEFINE found == {i \in 1..n : order[i] \in there}
           at == IF found # {} THEN Min(found) ELSE 0
<1>1. FirstOf(order, there) = IF at = 0 THEN "null" ELSE order[at]
  BY DEF FirstOf, SelectInSeq
<1>2. at \in 0..n
  BY FirstIndex
<1> HIDE DEF at
<1> QED
  BY <1>1, <1>2

LEMMA LoadTypes ==
  ASSUME NEW files, NEW broken
  PROVE  LoadModels(files, broken) \in
           [detector : {"scrfd_kps", "scrfd", "yolo_face", "insightface", "null"},
            embedder : {"adaface", "insightface", "null"},
            body : {"transreid", "osnet", "disabled", "null"},
            ppe : {"ppe", "disabled", "null"}, violence : {"violence", "disabled", "null"}]
<1>1. FaceDetector(files, broken) \in {"scrfd_kps", "scrfd", "yolo_face", "insightface", "null"}
  <2> DEFINE order == <<"scrfd_kps", "scrfd", "yolo_face", "insightface">>
  <2>1. DOMAIN order = 1..4 /\ Len(order) = 4 /\ 4 \in Nat
        /\ {order[i] : i \in 1..4} \subseteq {"scrfd_kps", "scrfd", "yolo_face", "insightface"}
    OBVIOUS
  <2>2. FaceDetector(files, broken) = FirstOf(order, files \ broken)
    BY DEF FaceDetector
  <2> HIDE DEF order
  <2> QED
    BY <2>1, <2>2, LoadedIsKnown
<1>2. FaceEmbedder(files, broken) \in {"adaface", "insightface", "null"}
  <2> DEFINE order == <<"adaface", "insightface">>
  <2>1. DOMAIN order = 1..2 /\ Len(order) = 2 /\ 2 \in Nat
        /\ {order[i] : i \in 1..2} \subseteq {"adaface", "insightface"}
    OBVIOUS
  <2>2. FaceEmbedder(files, broken) = FirstOf(order, files \ broken)
    BY DEF FaceEmbedder
  <2> HIDE DEF order
  <2> QED
    BY <2>1, <2>2, LoadedIsKnown
<1>3. BodyEmbedder(files, broken) \in {"transreid", "osnet", "disabled", "null"}
  <2> DEFINE order == <<"transreid", "osnet">>
  <2>1. DOMAIN order = 1..2 /\ Len(order) = 2 /\ 2 \in Nat
        /\ {order[i] : i \in 1..2} \subseteq {"transreid", "osnet"}
    OBVIOUS
  <2>2. BodyEmbedder(files, broken) = Wrapped(FirstOf(order, files), broken)
    BY DEF BodyEmbedder
  <2> HIDE DEF order
  <2> QED
    BY <2>1, <2>2, LoadedIsKnown DEF Wrapped
<1>4. ASSUME NEW model
      PROVE  Wrapped(FirstOf(<<model>>, files), broken) \in {model, "disabled", "null"}
  <2> DEFINE order == <<model>>
  <2>1. DOMAIN order = 1..1 /\ Len(order) = 1 /\ 1 \in Nat /\ {order[i] : i \in 1..1} = {model}
    OBVIOUS
  <2> HIDE DEF order
  <2>2. FirstOf(order, files) \in {model, "null"}
    BY <2>1, LoadedIsKnown
  <2> QED
    BY <2>2 DEF Wrapped, order
<1> QED
  BY <1>1, <1>2, <1>3, <1>4 DEF LoadModels

LEMMA ScoredIsNatural ==
  ASSUME NEW list, Scored(list)
  PROVE  Len(list) \in Nat /\ \A i \in 1..Len(list) : list[i].conf \in Nat
<1>1. Len(list) \in Nat /\ \A i \in 1..Len(list) : list[i].conf \in 0..100
  BY DEF Scored
<1>2. \A s \in 0..100 : s \in Nat
  OBVIOUS
<1> QED
  BY <1>1, <1>2, Zenon

\* The best score of an item is one of its own that is above the threshold, and none
\* is better; or there is none.
LEMMA BestOfCandidates ==
  ASSUME NEW candidates, Scored(candidates)
  PROVE  LET above == Above(candidates, GearConf)
         IN  /\ BestScore(candidates) \in {candidates[i].conf : i \in above} \cup {0}
             /\ \A i \in above : BestScore(candidates) >= candidates[i].conf
<1> DEFINE above == Above(candidates, GearConf)
           kept == NMS(candidates, GearConf, 45)
           scores == {kept[i].conf : i \in 1..Len(kept)}
<1>1. /\ kept \in Seq({candidates[i] : i \in above})
      /\ \A i \in above : \E k \in 1..Len(kept) : candidates[i].conf <= kept[k].conf
  BY NMSKeepsBest, ScoredIsNatural
<1>2. BestScore(candidates) = IF kept = <<>> THEN 0 ELSE Max(scores)
  BY DEF BestScore
<1>3. \A i \in above : candidates[i].conf \in 0..100
  BY DEF Above, Scored
<1> HIDE DEF kept, above
<1>4. \A k \in 1..Len(kept) : \E i \in above : kept[k] = candidates[i]
  BY <1>1
<1>5. scores \in SUBSET (0..100)
  BY <1>3, <1>4
<1>6. CASE kept = <<>>
  BY <1>1, <1>2, <1>6 DEF above
<1>7. CASE kept # <<>>
  <2>1. scores # {}
    <3>1. 1 \in 1..Len(kept)
      BY <1>1, <1>7
    <3> QED
      BY <3>1
  <2>2. Max(scores) \in scores /\ \A s \in scores : s <= Max(scores)
    <3> HIDE DEF scores
    <3> QED
      BY <1>5, <2>1, MaxIsMember
  <2> DEFINE best == Max(scores)
  <2>3. best \in scores /\ \A s \in scores : s <= best
    BY <2>2
  <2>4. BestScore(candidates) = best
    BY <1>2, <1>7
  <2> HIDE DEF best
  <2>5. ASSUME NEW i \in above
        PROVE  best >= candidates[i].conf
    <3>1. PICK k \in 1..Len(kept) : candidates[i].conf <= kept[k].conf
      BY <1>1
    <3> DEFINE s == kept[k].conf
               c == candidates[i].conf
    <3>2. s \in 0..100 /\ s <= best /\ c <= s
      BY <1>5, <2>3, <3>1
    <3>3. best \in 0..100 /\ c \in 0..100
      BY <1>3, <1>5, <2>3
    <3> HIDE DEF s, c
    <3>4. best >= c
      BY <3>2, <3>3
    <3> QED
      BY <3>4 DEF c
  <2> QED
    BY <1>4, <2>3, <2>4, <2>5 DEF above
<1> QED
  BY <1>6, <1>7

\* The faces that are there, and lists of what a detector makes of them.
FacesThere(raw) == {raw.faces[i] : i \in 1..Len(raw.faces)}

DetectedOf(found, raw) ==
  Len(found) \in Nat /\ \A j \in 1..Len(found) : found[j].of \in FacesThere(raw)

LEMMA FoundAreThere ==
  ASSUME NEW raw, NEW net, Scored(raw.faces)
  PROVE  FoundBy(raw, net) \in Seq(FacesThere(raw))
<1> DEFINE n == Len(raw.faces)
           I == {i \in 1..n : net \in raw.faces[i].seen}
<1>1. n \in Nat /\ I \in SUBSET (1..n)
  BY ScoredIsNatural
<1>2. FoundBy(raw, net) = At(raw.faces, I)
  BY DEF FoundBy
<1>3. {raw.faces[i] : i \in I} \subseteq FacesThere(raw)
  BY DEF FacesThere
<1> HIDE DEF n, I
<1>4. At(raw.faces, I) \in Seq({raw.faces[i] : i \in I})
  BY <1>1, AtIsSequence
<1> QED
  BY <1>2, <1>3, <1>4

\* A selection from a sequence over a set, and what NMS keeps of one.
LEMMA AtIsOver ==
  ASSUME NEW S, NEW list \in Seq(S), NEW I \in SUBSET (1..Len(list))
  PROVE  At(list, I) \in Seq(S)
<1> DEFINE T == {list[i] : i \in I}
<1>1. Len(list) \in Nat /\ \A i \in I : list[i] \in S
  OBVIOUS
<1>2. At(list, I) \in Seq(T)
  BY <1>1, AtIsSequence
<1>3. T \subseteq S
  BY <1>1
<1> HIDE DEF T
<1> QED
  BY <1>2, <1>3

LEMMA NMSIsOver ==
  ASSUME NEW S, \A x \in S : x.conf \in Nat, NEW list \in Seq(S), NEW conf, NEW pct
  PROVE  NMS(list, conf, pct) \in Seq(S)
<1>1. Len(list) \in Nat /\ \A i \in 1..Len(list) : list[i] \in S /\ list[i].conf \in Nat
  OBVIOUS
<1>2. NMS(list, conf, pct) \in Seq({list[i] : i \in Above(list, conf)})
  BY <1>1, NMSKeepsBest
<1>3. {list[i] : i \in Above(list, conf)} \subseteq S
  BY <1>1 DEF Above
<1> QED
  BY <1>2, <1>3

LEMMA ScrfdFound ==
  ASSUME NEW raw, Scored(raw.faces), NEW withKeypoints
  PROVE  DetectedOf(ScrfdFaces(raw, withKeypoints), raw)
<1> DEFINE F == FacesThere(raw)
           found == NMS(FoundBy(raw, "scrfd"), FaceConf, 35)
           kept == Large(found)
<1>1. \A x \in F : x.conf \in Nat
  BY ScoredIsNatural DEF FacesThere
<1>2. FoundBy(raw, "scrfd") \in Seq(F)
  BY FoundAreThere
<1>3. found \in Seq(F)
  <2> HIDE DEF F
  <2> QED
    BY <1>1, <1>2, NMSIsOver
<1>4. ScrfdFaces(raw, withKeypoints) =
        [i \in 1..Len(kept) |-> [of |-> kept[i], box |-> kept[i].box, keypoints |-> withKeypoints]]
  BY DEF ScrfdFaces, AsFaces
<1> HIDE DEF found, F
<1>5. kept \in Seq(F)
  BY <1>3, AtIsOver DEF Large
<1> HIDE DEF kept
<1> QED
  BY <1>4, <1>5 DEF DetectedOf, F

LEMMA InsightFound ==
  ASSUME NEW raw, Scored(raw.faces)
  PROVE  DetectedOf(InsightFaces(raw), raw)
<1> DEFINE F == FacesThere(raw)
           found == FoundBy(raw, "insightface")
           kept == LargeAbove(found)
<1>1. found \in Seq(F)
  BY FoundAreThere
<1>2. InsightFaces(raw) =
        [i \in 1..Len(kept) |-> [of |-> kept[i], box |-> kept[i].box, keypoints |-> FALSE]]
  BY DEF InsightFaces, AsFaces
<1> HIDE DEF found, F
<1>3. kept \in Seq(F)
  BY <1>1, AtIsOver DEF LargeAbove
<1> HIDE DEF kept
<1> QED
  BY <1>2, <1>3 DEF DetectedOf, F

LEMMA YoloFound ==
  ASSUME NEW raw, Scored(raw.faces)
  PROVE  DetectedOf(YoloFaces(raw), raw)
<1> DEFINE F == FacesThere(raw)
           found == FoundBy(raw, "yolo_face")
           clip(f) == [of |-> f, box |-> Clipped(f.box), conf |-> f.conf]
           C == {clip(f) : f \in F}
           clipped == ClippedFaces(found)
           large == LargeAbove(clipped)
           kept == NMS(large, FaceConf, 45)
<1>1. found \in Seq(F)
  BY FoundAreThere
<1>2. \A f \in F : f.conf \in Nat
  BY ScoredIsNatural DEF FacesThere
<1>3. \A x \in C : x.of \in F /\ x.conf \in Nat
  BY <1>2
<1>4. YoloFaces(raw) =
        [i \in 1..Len(kept) |-> [of |-> kept[i].of, box |-> kept[i].box, keypoints |-> FALSE]]
  BY DEF YoloFaces, WithoutConf
<1> HIDE DEF found, F
<1>5. clipped \in Seq(C)
  <2>1. \A i \in 1..Len(found) : clip(found[i]) \in C
    BY <1>1
  <2>2. Len(found) \in Nat
    BY <1>1
  <2>3. clipped = [i \in 1..Len(found) |-> clip(found[i])]
    BY DEF ClippedFaces
  <2> HIDE DEF clip, C, clipped
  <2> QED
    BY <2>1, <2>2, <2>3
<1> HIDE DEF clipped, C
<1>6. large \in Seq(C)
  BY <1>5, AtIsOver DEF LargeAbove
<1> HIDE DEF large
<1>7. kept \in Seq(C)
  BY <1>3, <1>6, NMSIsOver
<1> HIDE DEF kept
<1> QED
  BY <1>3, <1>4, <1>7 DEF DetectedOf, F

LEMMA DetectedAreThere ==
  ASSUME NEW loaded, NEW raw, Scored(raw.faces)
  PROVE  DetectedOf(Detected(loaded, raw), raw)
<1>1. DetectedOf(<<>>, raw)
  BY DEF DetectedOf
<1>2. Detected(loaded, raw) \in
        {ScrfdFaces(raw, TRUE), ScrfdFaces(raw, FALSE), YoloFaces(raw), InsightFaces(raw), <<>>}
  BY DEF Detected
<1> QED
  BY <1>1, <1>2, ScrfdFound, YoloFound, InsightFound

\* An embedding is one of a face that is there, by either embedder.
LEMMA EmbeddedIsThere ==
  ASSUME NEW loaded, NEW raw, Scored(raw.faces), NEW f, f.of \in FacesThere(raw),
         Embedded(loaded, f, raw) # <<>>
  PROVE  \E face \in FacesThere(raw) : Embedded(loaded, f, raw)[1].emb = face.name
<1>1. CASE loaded.embedder = "adaface"
  <2>1. Embedded(loaded, f, raw) = AdaFace(f)
    BY <1>1 DEF Embedded
  <2>2. AdaFace(f) = <<[box |-> f.box, emb |-> f.of.name, quality |-> f.of.norm]>>
    BY <2>1 DEF AdaFace
  <2> QED
    BY <2>1, <2>2
<1>2. CASE loaded.embedder = "insightface"
  <2> DEFINE found == FoundBy(raw, "insightface")
             better(g, h) ==
               Common(f.box, g.box) * Union(f.box, h.box) > Common(f.box, h.box) * Union(f.box, g.box)
             I == {i \in 1..Len(found) : /\ Common(f.box, found[i].box) > 0
                                         /\ \A j \in 1..Len(found) : ~better(found[j], found[i])}
             best == IF I # {} THEN Min(I) ELSE 0
  <2>1. Embedded(loaded, f, raw) = InsightFace(f, raw)
    BY <1>2 DEF Embedded
  <2>2. InsightFace(f, raw) =
          IF SmallerThan(f.box, MinFace) \/ best = 0 \/ ~found[best].arcface
          THEN <<>> ELSE <<[box |-> f.box, emb |-> found[best].name, quality |-> Full]>>
    BY DEF InsightFace, SelectInSeq
  <2>3. found \in Seq(FacesThere(raw))
    BY FoundAreThere
  <2>4. I \in SUBSET (1..Len(found)) /\ Len(found) \in Nat
    BY <2>3
  <2> HIDE DEF found, I
  <2>5. best \in 0..Len(found)
    BY <2>4, FirstIndex
  <2> HIDE DEF best
  <2>6. best # 0 /\ Embedded(loaded, f, raw)[1].emb = found[best].name
    BY <2>1, <2>2
  <2>7. found[best] \in FacesThere(raw)
    BY <2>3, <2>5, <2>6
  <2> QED
    BY <2>6, <2>7
<1> QED
  BY <1>1, <1>2 DEF Embedded

\* What becomes of the faces: a sequence, of faces that are there.
LEMMA FacesAreThere ==
  ASSUME NEW loaded, NEW raw, Scored(raw.faces)
  PROVE  /\ Len(FacesOf(loaded, raw)) \in Nat
         /\ FacesOf(loaded, raw) = [k \in 1..Len(FacesOf(loaded, raw)) |-> FacesOf(loaded, raw)[k]]
         /\ \A k \in 1..Len(FacesOf(loaded, raw)) :
              \E face \in FacesThere(raw) : FacesOf(loaded, raw)[k].emb = face.name
<1> DEFINE found == Detected(loaded, raw)
           n == Len(found)
           embedded == Embeddings(loaded, found, raw)
           I == {i \in 1..n : embedded[i] # <<>>}
           kept == GivenOf(embedded)
           E == {embedded[i] : i \in I}
<1>1. DetectedOf(found, raw)
  BY DetectedAreThere
<1>2. n \in Nat /\ \A i \in 1..n : found[i].of \in FacesThere(raw)
  BY <1>1 DEF DetectedOf
<1>3. FacesOf(loaded, raw) = [i \in 1..Len(kept) |-> kept[i][1]]
  BY DEF FacesOf, HeadsOf
<1>4. embedded = [i \in 1..n |-> Embedded(loaded, found[i], raw)]
  BY DEF Embeddings
<1> HIDE DEF found, embedded
<1>5. \A e \in E : \E face \in FacesThere(raw) : e[1].emb = face.name
  BY <1>2, <1>4, EmbeddedIsThere
<1>6. Len(embedded) = n
  BY <1>2, <1>4
<1>7. kept = At(embedded, I)
  BY <1>6 DEF GivenOf
<1> HIDE DEF n
<1>8. kept \in Seq(E)
  BY <1>2, <1>7, AtIsSequence
<1> HIDE DEF kept, E
<1> QED
  BY <1>3, <1>5, <1>8

\* The faces among the first k whose centre is in the box, and what of them a
\* tracklet with that box gets.
InsideOf(faces, box, k) == {j \in 1..k : Inside(Centre(faces[j].box), box)}

FaceFor(faces, box, k) ==
  IF InsideOf(faces, box, k) = {} THEN None ELSE faces[Min(InsideOf(faces, box, k))].emb

FaceOrNext(faces, box, k) ==
  IF FaceFor(faces, box, k) = None /\ Inside(Centre(faces[k + 1].box), box)
  THEN faces[k + 1].emb ELSE FaceFor(faces, box, k)

LEMMA NextFace ==
  ASSUME NEW faces, NEW n \in Nat, \A j \in 1..n : faces[j].emb # None,
         NEW box, NEW k \in 0..(n - 1)
  PROVE  FaceFor(faces, box, k + 1) = FaceOrNext(faces, box, k)
<1> DEFINE old == InsideOf(faces, box, k)
           new == InsideOf(faces, box, k + 1)
           hit == Inside(Centre(faces[k + 1].box), box)
<1>1. /\ old \in SUBSET (1..k) /\ new = old \cup (IF hit THEN {k + 1} ELSE {})
      /\ old \in SUBSET Nat /\ new \in SUBSET Nat
  BY DEF InsideOf
<1>2. /\ FaceFor(faces, box, k) = (IF old = {} THEN None ELSE faces[Min(old)].emb)
      /\ FaceFor(faces, box, k + 1) = (IF new = {} THEN None ELSE faces[Min(new)].emb)
  BY DEF FaceFor
<1> HIDE DEF old, new, hit
<1>3. ASSUME old # {}
      PROVE  Min(new) = Min(old) /\ faces[Min(old)].emb # None
  <2>1. new # {}
    BY <1>1, <1>3
  <2> DEFINE a == Min(old)
             b == Min(new)
  <2>2. a \in old /\ \A i \in old : a <= i
    BY <1>1, <1>3, MinIsMember
  <2>3. b \in new /\ \A i \in new : b <= i
    BY <1>1, <2>1, MinIsMember
  <2> HIDE DEF a, b
  <2>4. a \in 1..k /\ a \in new /\ b \in 1..(k + 1)
    BY <1>1, <2>2, <2>3
  <2>5. b <= a
    BY <2>3, <2>4
  <2>6. b \in old
    BY <1>1, <2>3, <2>4, <2>5
  <2>7. a = b
    BY <2>2, <2>4, <2>5, <2>6
  <2>8. a \in 1..n
    BY <2>4
  <2> QED
    BY <2>7, <2>8 DEF a, b
<1>4. ASSUME old = {}, hit
      PROVE  new # {} /\ Min(new) = k + 1
  <2>1. new = {k + 1} /\ new # {}
    BY <1>1, <1>4
  <2>2. Min(new) \in new
    BY <1>1, <2>1, MinIsMember
  <2> QED
    BY <2>1, <2>2
<1>5. CASE old # {}
  <2>1. new # {}
    BY <1>1, <1>5
  <2> QED
    BY <1>2, <1>3, <1>5, <2>1 DEF FaceOrNext
<1>6. CASE old = {} /\ hit
  BY <1>2, <1>4, <1>6 DEF hit, FaceOrNext
<1>7. CASE old = {} /\ ~hit
  <2>1. new = {}
    BY <1>1, <1>7
  <2> QED
    BY <1>2, <1>7, <2>1 DEF hit, FaceOrNext
<1> QED
  BY <1>5, <1>6, <1>7

\* _associate_faces gives every tracklet the first face inside its box.
LEMMA FirstFaceIsGiven ==
  ASSUME NEW trks, Len(trks) \in Nat,
         \A i, j \in 1..Len(trks) : trks[i].id = trks[j].id => i = j,
         NEW E, NEW faces \in Seq(E), \A e \in E : e.emb # None
  PROVE  \A i \in 1..Len(trks) :
           AssociateFaces(trks, faces)[trks[i].id] = FaceFor(faces, trks[i].box, Len(faces))
<1> DEFINE n == Len(faces)
           ids == {trks[i].id : i \in 1..Len(trks)}
<1>1. n \in Nat /\ \A j \in 1..n : faces[j].emb # None
  OBVIOUS
<1>0. PICK maps : Associates(maps, trks, faces)
  BY AssociationUnfolds
<1>2. /\ maps[0] = [id \in ids |-> None]
      /\ \A k \in 1..n : maps[k] = Assigned(trks, maps[k - 1], faces[k])
      /\ AssociateFaces(trks, faces) = maps[n]
  BY <1>0 DEF Associates
<1> HIDE DEF n
<1> DEFINE agree(k) == /\ DOMAIN maps[k] = ids
                       /\ \A i \in 1..Len(trks) :
                            maps[k][trks[i].id] = FaceFor(faces, trks[i].box, k)
           G == {k \in 0..n : agree(k)}
<1>3. 0 \in G
  <2>1. \A box : FaceFor(faces, box, 0) = None
    BY DEF FaceFor, InsideOf
  <2> QED
    BY <1>1, <1>2, <2>1
<1>4. ASSUME NEW k \in 0..(n - 1), k \in G
      PROVE  k + 1 \in G
  <2>1. agree(k)
    BY <1>4
  <2> DEFINE map == maps[k]
             f == faces[k + 1]
  <2>2. maps[k + 1] = Assigned(trks, map, f)
    <3>1. k + 1 \in 1..n /\ (k + 1) - 1 = k
      BY <1>1
    <3> QED
      BY <1>2, <3>1
  <2>3. DOMAIN maps[k + 1] = ids
    BY <2>1, <2>2 DEF Assigned
  <2>4. ASSUME NEW i \in 1..Len(trks)
        PROVE  maps[k + 1][trks[i].id] = FaceFor(faces, trks[i].box, k + 1)
    <3> DEFINE id == trks[i].id
               hit == Inside(Centre(f.box), trks[i].box)
    <3>1. id \in ids /\ id \in DOMAIN map
      BY <2>1
    <3>2. id \in Holders(trks, map, f) <=> map[id] = None /\ hit
      BY DEF Holders
    <3>3. maps[k + 1][id] = IF map[id] = None /\ hit THEN f.emb ELSE map[id]
      BY <2>2, <3>1, <3>2 DEF Assigned
    <3>4. map[id] = FaceFor(faces, trks[i].box, k)
      BY <2>1
    <3>5. FaceFor(faces, trks[i].box, k + 1) = FaceOrNext(faces, trks[i].box, k)
      BY <1>1, NextFace
    <3> QED
      BY <3>3, <3>4, <3>5 DEF FaceOrNext
  <2> QED
    BY <1>1, <2>3, <2>4
<1> HIDE DEF G
<1>5. n \in G
  BY <1>1, <1>3, <1>4, Upwards
<1> QED
  BY <1>2, <1>5 DEF G, n

-----------------------------------------------------------------------------
(***************************************************************************)
(* Each message goes through the stages by itself; what the invariant says *)
(* of it is that it is made of the frame in hand.                          *)
(***************************************************************************)
\* The people of a frame, their published tracklets and the frame that is encoded.
SeenIn(raw) == IF raw.tracked THEN raw.people ELSE <<>>

FacesIn(raw) == Faces(Tracked(raw), raw)

MeasuredIn(raw) ==
  WithGear(WithBodies(WithFaces(Tracked(raw), FacesIn(raw)), raw), raw)

FrameOf(c, raw) ==
  [cam |-> c, tracklets |-> MeasuredIn(raw), faces |-> FacesIn(raw),
   violence |-> IF Gated(Tracked(raw)) THEN None ELSE raw.score]

TrackletFields == {"id", "box", "face", "body", "pose", "visible", "gear", "quality"}

\* What a tracklet keeps of its person, and what each stage puts into it.
Follows(t, p) ==
  DOMAIN t = TrackletFields /\ t.id = p.id /\ t.box = p.box /\ (t.visible => t.pose # None)

GearOf(p) == IF GearSeen(models, p) THEN [g \in Gear |-> BestScore(p.gear[g])] ELSE NotRun

BodyOf(t, p) == t.body \in {None, p.id} /\ (t.body # None => t.quality = p.norm)

\* Each stage makes the tracklets anew, of the same people in the same order.
LEMMA TrackedKeeps ==
  ASSUME NEW raw, Len(raw.people) \in Nat, raw.tracked
  PROVE  /\ Len(Tracked(raw)) = Len(raw.people)
         /\ \A i \in 1..Len(raw.people) :
              LET t == Tracked(raw)[i]
              IN  Follows(t, raw.people[i]) /\ t.body = None /\ t.gear = NotRun
<1> DEFINE made(i) == [Tracklet(raw.people[i].id, raw.people[i].box) EXCEPT
                         !.pose = raw.people[i].pose, !.visible = FaceVisible(raw.people[i].pose)]
<1>1. Tracked(raw) = [i \in 1..Len(raw.people) |-> made(i)]
  BY DEF Tracked
<1>2. ASSUME NEW i \in 1..Len(raw.people)
      PROVE  Follows(made(i), raw.people[i]) /\ made(i).body = None /\ made(i).gear = NotRun
  <2>1. FaceVisible(raw.people[i].pose) => raw.people[i].pose # None
    BY DEF FaceVisible
  <2>2. /\ DOMAIN made(i) = TrackletFields
        /\ made(i).id = raw.people[i].id /\ made(i).box = raw.people[i].box
        /\ made(i).pose = raw.people[i].pose /\ made(i).visible = FaceVisible(raw.people[i].pose)
        /\ made(i).body = None /\ made(i).gear = NotRun
    BY DEF Tracklet, TrackletFields
  <2> HIDE DEF made
  <2> QED
    BY <2>1, <2>2 DEF Follows
<1> HIDE DEF made
<1> QED
  BY <1>1, <1>2

LEMMA FacesKeep ==
  ASSUME NEW trks, NEW faces, NEW people, Len(trks) \in Nat
  PROVE  /\ Len(WithFaces(trks, faces)) = Len(trks)
         /\ \A i \in 1..Len(trks) :
              Follows(trks[i], people[i]) =>
                LET t == WithFaces(trks, faces)[i]
                IN  /\ Follows(t, people[i]) /\ t.body = trks[i].body /\ t.gear = trks[i].gear
                    /\ t.face = AssociateFaces(trks, faces)[trks[i].id]
<1> DEFINE face(i) == AssociateFaces(trks, faces)[trks[i].id]
           made(i) == [trks[i] EXCEPT !.face = face(i)]
<1>1. WithFaces(trks, faces) = [i \in 1..Len(trks) |-> made(i)]
  BY DEF WithFaces
<1> HIDE DEF face
<1>2. ASSUME NEW i \in 1..Len(trks), Follows(trks[i], people[i])
      PROVE  /\ Follows(made(i), people[i]) /\ made(i).body = trks[i].body /\ made(i).gear = trks[i].gear
             /\ made(i).face = face(i)
  BY <1>2 DEF Follows, TrackletFields
<1> HIDE DEF made
<1> QED
  BY <1>1, <1>2 DEF face

LEMMA BodiesKeep ==
  ASSUME NEW trks, NEW raw, Len(trks) \in Nat
  PROVE  /\ Len(WithBodies(trks, raw)) = Len(trks)
         /\ \A i \in 1..Len(trks) :
              Follows(trks[i], raw.people[i]) /\ trks[i].body = None /\ trks[i].gear = NotRun =>
                LET t == WithBodies(trks, raw)[i]
                IN  /\ Follows(t, raw.people[i]) /\ BodyOf(t, raw.people[i])
                    /\ t.face = trks[i].face /\ t.gear = NotRun
<1> DEFINE p(i) == raw.people[i]
           made(i) == [Tracklet(trks[i].id, trks[i].box) EXCEPT
                         !.face = trks[i].face,
                         !.body = IF BodySeen(models, p(i)) THEN p(i).id ELSE None,
                         !.quality = IF BodySeen(models, p(i)) THEN p(i).norm ELSE 0]
<1>1. WithBodies(trks, raw) = IF models.body = "null" THEN trks ELSE [i \in 1..Len(trks) |-> made(i)]
  BY DEF WithBodies
<1>2. ASSUME NEW i \in 1..Len(trks), Follows(trks[i], p(i))
      PROVE  /\ Follows(made(i), p(i)) /\ BodyOf(made(i), p(i))
             /\ made(i).face = trks[i].face /\ made(i).gear = NotRun
  <2>1. /\ DOMAIN made(i) = TrackletFields /\ made(i).visible = FALSE
        /\ made(i).id = trks[i].id /\ made(i).box = trks[i].box
        /\ made(i).face = trks[i].face /\ made(i).gear = NotRun
        /\ made(i).body = IF BodySeen(models, p(i)) THEN p(i).id ELSE None
        /\ made(i).quality = IF BodySeen(models, p(i)) THEN p(i).norm ELSE 0
    BY DEF Tracklet, TrackletFields
  <2> HIDE DEF made
  <2> QED
    BY <1>2, <2>1 DEF Follows, BodyOf
<1>3. \A i \in 1..Len(trks) : trks[i].body = None => BodyOf(trks[i], p(i))
  BY DEF BodyOf
<1> HIDE DEF made
<1> QED
  BY <1>1, <1>2, <1>3

LEMMA GearKeeps ==
  ASSUME NEW trks, NEW raw, Len(trks) \in Nat
  PROVE  /\ Len(WithGear(trks, raw)) = Len(trks)
         /\ \A i \in 1..Len(trks) :
              Follows(trks[i], raw.people[i]) /\ trks[i].gear = NotRun =>
                LET t == WithGear(trks, raw)[i]
                IN  /\ Follows(t, raw.people[i])
                    /\ t.body = trks[i].body /\ t.face = trks[i].face
                    /\ models.ppe = "null" => t.quality = trks[i].quality
                    /\ t.gear = GearOf(raw.people[i])
<1> DEFINE gear(i) == GearOf(raw.people[i])
           made(i) == [trks[i] EXCEPT !.quality = Full, !.gear = gear(i)]
<1>1. WithGear(trks, raw) = IF models.ppe = "null" THEN trks ELSE [i \in 1..Len(trks) |-> made(i)]
  BY DEF WithGear, GearOf
<1>2. models.ppe = "null" => \A i \in 1..Len(trks) : gear(i) = NotRun
  BY DEF GearOf, GearSeen
<1> HIDE DEF gear
<1>3. ASSUME NEW i \in 1..Len(trks), Follows(trks[i], raw.people[i])
      PROVE  /\ Follows(made(i), raw.people[i])
             /\ made(i).body = trks[i].body /\ made(i).face = trks[i].face
             /\ made(i).gear = gear(i)
  BY <1>3 DEF Follows, TrackletFields
<1> HIDE DEF made
<1> QED
  BY <1>1, <1>2, <1>3 DEF gear

\* Encoding and decoding a frame loses nothing.
LEMMA FieldsRoundTrip ==
  ASSUME NEW c, NEW trks, NEW faces, NEW score
  PROVE  LET frame == [cam |-> c, tracklets |-> trks, faces |-> faces, violence |-> score]
         IN  FromFields(Fields(frame)) = frame
<1> DEFINE frame == [cam |-> c, tracklets |-> trks, faces |-> faces, violence |-> score]
           fields == Fields(frame)
<1>1. /\ DOMAIN fields = {"cam", "tracklets", "faces"} \cup IF score # None THEN {"violence"} ELSE {}
      /\ \A f \in DOMAIN fields : fields[f] = frame[f]
  BY DEF Fields
<1>2. FromFields(fields) = [f \in {"cam", "tracklets", "faces", "violence"} |-> frame[f]]
  <2> HIDE DEF fields
  <2>1. frame.violence = score
    OBVIOUS
  <2>2. DOMAIN fields \cup {"violence"} = {"cam", "tracklets", "faces", "violence"}
    BY <1>1
  <2>3. ASSUME NEW f \in {"cam", "tracklets", "faces", "violence"}
        PROVE  (IF f \in DOMAIN fields THEN fields[f] ELSE None) = frame[f]
    BY <1>1, <2>1
  <2> HIDE DEF frame
  <2> QED
    BY <2>2, <2>3 DEF FromFields
<1> QED
  BY <1>2

LEMMA FacesAreEmbedded ==
  ASSUME NEW raw \in Shot
  PROVE  /\ Len(FacesIn(raw)) \in Nat 
         /\ FacesIn(raw) = [k \in 1..Len(FacesIn(raw)) |-> FacesIn(raw)[k]]
         /\ \A k \in 1..Len(FacesIn(raw)) : FacesIn(raw)[k].emb # None
<1>1. Scored(raw.faces) /\ \A i \in 1..Len(raw.faces) : raw.faces[i].name # None
  BY PipelineAssumption DEF ShotSound
<1>2. \A face \in FacesThere(raw) : face.name # None
  BY <1>1 DEF FacesThere
<1> DEFINE all == FacesOf(models, raw)
<1>3. /\ Len(all) \in Nat /\ all = [k \in 1..Len(all) |-> all[k]]
      /\ \A k \in 1..Len(all) : \E face \in FacesThere(raw) : all[k].emb = face.name
  BY <1>1, FacesAreThere
<1>4. FacesIn(raw) \in {all, <<>>}
  BY DEF FacesIn, Faces
<1>5. \A k \in 1..Len(all) : all[k].emb # None
  BY <1>2, <1>3
<1> HIDE DEF all
<1>6. CASE FacesIn(raw) = all
  BY <1>3, <1>5, <1>6
<1>7. CASE FacesIn(raw) = <<>>
  BY <1>7
<1> QED
  BY <1>4, <1>6, <1>7

\* What is published of a frame: its people, each with what was measured of them.
Measures(t, p, faces) ==
  /\ Follows(t, p)
  /\ t.body \in {None, p.id} /\ (t.body # None /\ models.ppe = "null" => t.quality = p.norm)
  /\ t.gear = GearOf(p) /\ t.face = FaceFor(faces, p.box, Len(faces))

LEMMA OwnTracklets ==
  ASSUME NEW raw \in Shot
  PROVE  /\ Len(MeasuredIn(raw)) = Len(SeenIn(raw)) /\ Len(SeenIn(raw)) \in Nat
         /\ \A i \in 1..Len(SeenIn(raw)) :
              Measures(MeasuredIn(raw)[i], SeenIn(raw)[i], FacesIn(raw))
<1> DEFINE first == Tracked(raw)
           faces == FacesIn(raw)
           second == WithFaces(first, faces)
           third == WithBodies(second, raw)
           fourth == WithGear(third, raw)
           people == raw.people
<1>1. /\ Len(people) \in Nat
      /\ \A i, j \in 1..Len(people) : people[i].id = people[j].id => i = j
  BY PipelineAssumption DEF ShotSound
<1>2. MeasuredIn(raw) = fourth
  BY DEF MeasuredIn
<1>3. /\ Len(faces) \in Nat /\ faces = [k \in 1..Len(faces) |-> faces[k]]
      /\ \A k \in 1..Len(faces) : faces[k].emb # None
  BY FacesAreEmbedded
<1>4. CASE raw.tracked
  <2>1. SeenIn(raw) = people
    BY <1>4 DEF SeenIn
  <2>2. /\ Len(first) = Len(people)
        /\ \A i \in 1..Len(people) :
             Follows(first[i], people[i]) /\ first[i].body = None /\ first[i].gear = NotRun
    BY <1>1, <1>4, TrackedKeeps
  <2> HIDE DEF first, faces
  <2>3. /\ Len(second) = Len(people)
        /\ \A i \in 1..Len(people) :
             /\ Follows(second[i], people[i]) /\ second[i].body = None /\ second[i].gear = NotRun
             /\ second[i].face = AssociateFaces(first, faces)[first[i].id]
    BY <1>1, <2>2, FacesKeep
  <2>4. \A i \in 1..Len(people) :
          AssociateFaces(first, faces)[first[i].id] = FaceFor(faces, people[i].box, Len(faces))
    <3>1. \A i \in 1..Len(people) : first[i].id = people[i].id /\ first[i].box = people[i].box
      BY <2>2 DEF Follows
    <3>2. \A i, j \in 1..Len(first) : first[i].id = first[j].id => i = j
      BY <1>1, <2>2, <3>1
    <3> DEFINE E == {faces[k] : k \in 1..Len(faces)}
    <3>3. faces \in Seq(E) /\ \A e \in E : e.emb # None
      BY <1>3
    <3> HIDE DEF E
    <3>4. \A i \in 1..Len(first) :
            AssociateFaces(first, faces)[first[i].id] = FaceFor(faces, first[i].box, Len(faces))
      BY <1>1, <2>2, <3>2, <3>3, FirstFaceIsGiven
    <3> QED
      BY <2>2, <3>1, <3>4
  <2> HIDE DEF second
  <2>5. /\ Len(third) = Len(people)
        /\ \A i \in 1..Len(people) :
             /\ Follows(third[i], people[i]) /\ BodyOf(third[i], people[i])
             /\ third[i].face = second[i].face /\ third[i].gear = NotRun
    BY <1>1, <2>3, BodiesKeep
  <2> HIDE DEF third
  <2>6. /\ Len(fourth) = Len(people)
        /\ \A i \in 1..Len(people) :
             /\ Follows(fourth[i], people[i]) /\ fourth[i].gear = GearOf(people[i])
             /\ fourth[i].body = third[i].body /\ fourth[i].face = third[i].face
             /\ models.ppe = "null" => fourth[i].quality = third[i].quality
    BY <1>1, <2>5, GearKeeps
  <2> HIDE DEF fourth
  <2>7. ASSUME NEW i \in 1..Len(people)
        PROVE  Measures(fourth[i], people[i], faces)
    BY <2>3, <2>4, <2>5, <2>6 DEF Measures, BodyOf
  <2> QED
    BY <1>1, <1>2, <2>1, <2>6, <2>7 DEF faces
<1>5. CASE ~raw.tracked
  <2>1. SeenIn(raw) = <<>> /\ Len(SeenIn(raw)) = 0
    BY <1>5 DEF SeenIn
  <2>2. Len(first) = 0
    BY <1>5 DEF Tracked
  <2> HIDE DEF first
  <2>3. Len(second) = 0
    BY <2>2, FacesKeep
  <2> HIDE DEF second
  <2>4. Len(third) = 0
    BY <2>3, BodiesKeep
  <2> HIDE DEF third
  <2>5. Len(fourth) = 0
    BY <2>4, GearKeeps
  <2> QED
    BY <1>2, <2>1, <2>5
<1> QED
  BY <1>4, <1>5

\* Nothing that is loaded changes.
SetupKept ==
  /\ setup \in Setup /\ models = LoadModels(setup.files, setup.broken)
  /\ registry = LoadEnabled(setup.rows)

\* The message in hand is what the stages make of the frame in hand.
MessageOfShot ==
  message # None =>
    \E c \in Cam, raw \in Shot :
      shot = [raw EXCEPT !.people = SeenIn(raw)] /\ message = FrameOf(c, raw)

\* What is reported is what the rules say of the message in hand.
ReportOf(view, type) ==
  [what |-> Reports([view EXCEPT !.frame = message])[type], view |-> view]

ReportsOfMessage ==
  reports # None =>
    /\ message # None
    /\ \E view \in View :
         reports = [type \in DOMAIN Reports([view EXCEPT !.frame = message]) \cap registry.loaded |->
                      ReportOf(view, type)]

ContextsKept == context \in [Cam -> {"none", "zero", "fed"}]

PipelineInv == SetupKept /\ MessageOfShot /\ ReportsOfMessage /\ ContextsKept

LEMMA InitPipelineInv == PipelineInit => PipelineInv
<1> SUFFICES ASSUME PipelineInit
             PROVE  PipelineInv
  OBVIOUS
<1>1. message = None /\ reports = None /\ context = [c \in Cam |-> "none"]
  BY DEF PipelineInit
<1>2. ContextsKept
  BY <1>1 DEF ContextsKept
<1>3. SetupKept
  BY DEF PipelineInit, SetupKept
<1> QED
  BY <1>1, <1>2, <1>3 DEF PipelineInv, MessageOfShot, ReportsOfMessage

LEMMA FrameKept ==
  ASSUME NEW c, NEW raw, models' = models
  PROVE  FrameOf(c, raw)' = FrameOf(c, raw)
BY DEF FrameOf, MeasuredIn, FacesIn, Gated, Faces, WithFaces, WithBodies, WithGear

LEMMA MessageStep ==
  ASSUME NEW c \in Cam, NEW raw \in Shot, PipelineInv, ProcessMessage(c, raw)
  PROVE  PipelineInv'
<1> DEFINE trks == Tracked(raw)
<1>1. /\ shot' = [raw EXCEPT !.people = SeenIn(raw)]
      /\ message' = FromFields(Fields(FrameOf(c, raw)))
      /\ context' \in Feed(c, trks, raw)
      /\ UNCHANGED <<setup, models, registry, reports>> /\ message = None
  BY DEF ProcessMessage, FrameOf, MeasuredIn, FacesIn, SeenIn
<1>2. message' = FrameOf(c, raw)
  <2>1. FromFields(Fields(FrameOf(c, raw))) = FrameOf(c, raw)
    BY FieldsRoundTrip DEF FrameOf
  <2> QED
    BY <1>1, <2>1
<1>3. MessageOfShot'
  <2>1. FrameOf(c, raw)' = FrameOf(c, raw)
    BY <1>1, FrameKept
  <2>2. SeenIn(raw)' = SeenIn(raw)
    BY DEF SeenIn
  <2> QED
    BY <1>1, <1>2, <2>1, <2>2 DEF MessageOfShot
<1>4. reports' = None /\ SetupKept'
  BY <1>1 DEF PipelineInv, ReportsOfMessage, SetupKept
<1>5. ContextsKept'
  <2>1. /\ (IF context[c] = "none" THEN "zero" ELSE context[c]) \in {"none", "zero", "fed"}
        /\ context[c] \in {"none", "zero", "fed"}
    BY DEF PipelineInv, ContextsKept
  <2>2. \/ context' = context
        \/ \E s \in {"none", "zero", "fed"} : context' = [context EXCEPT ![c] = s]
    BY <1>1, <2>1 DEF Feed
  <2> QED
    BY <2>2 DEF PipelineInv, ContextsKept
<1> QED
  BY <1>3, <1>4, <1>5 DEF PipelineInv, ReportsOfMessage

LEMMA MessageKept ==
  ASSUME MessageOfShot, UNCHANGED <<models, shot, message>>
  PROVE  MessageOfShot'
<1> SUFFICES ASSUME message # None
             PROVE  MessageOfShot'
  BY DEF MessageOfShot
<1>1. PICK c \in Cam, raw \in Shot :
        shot = [raw EXCEPT !.people = SeenIn(raw)] /\ message = FrameOf(c, raw)
  BY DEF MessageOfShot
<1>2. FrameOf(c, raw)' = FrameOf(c, raw)
  BY FrameKept
<1>3. SeenIn(raw)' = SeenIn(raw)
  BY DEF SeenIn
<1> QED
  BY <1>1, <1>2, <1>3 DEF MessageOfShot

LEMMA JudgeStep ==
  ASSUME NEW view \in View, PipelineInv, Judge(view)
  PROVE  PipelineInv'
<1> DEFINE all == Reports([view EXCEPT !.frame = message])
<1>1. /\ message # None /\ UNCHANGED <<setup, models, registry, context, shot, message>>
      /\ reports' = [type \in DOMAIN all \cap registry.loaded |-> [what |-> all[type], view |-> view]]
  BY DEF Judge
<1>2. ReportsOfMessage'
  BY <1>1 DEF ReportsOfMessage, ReportOf
<1>3. MessageOfShot'
  BY <1>1, MessageKept DEF PipelineInv
<1> QED
  BY <1>1, <1>2, <1>3 DEF PipelineInv, SetupKept, ContextsKept

LEMMA PipelineStep == PipelineInv /\ [PipelineNext]_pipelineVars => PipelineInv'
<1> SUFFICES ASSUME PipelineInv, [PipelineNext]_pipelineVars
             PROVE  PipelineInv'
  OBVIOUS
<1>1. CASE Returned
  BY <1>1 DEF Returned, PipelineInv, SetupKept, MessageOfShot, ReportsOfMessage, ContextsKept
<1>2. CASE UNCHANGED pipelineVars
  <2>1. MessageOfShot'
    BY <1>2, MessageKept DEF pipelineVars, PipelineInv
  <2>2. ReportsOfMessage'
    BY <1>2 DEF pipelineVars, PipelineInv, ReportsOfMessage, ReportOf
  <2> QED
    BY <1>2, <2>1, <2>2 DEF pipelineVars, PipelineInv, SetupKept, ContextsKept
<1> QED
  BY <1>1, <1>2, MessageStep, JudgeStep DEF PipelineNext

-----------------------------------------------------------------------------
(***************************************************************************)
(* What follows of it for the message, and for the reports.                *)
(***************************************************************************)
\* What the invariant says of the message in hand.
PublishedSound ==
  /\ Len(message.tracklets) = Len(shot.people) /\ Len(shot.people) \in Nat
  /\ message.violence \in 0..100 \cup {None}
  /\ \A i \in 1..Len(shot.people) :
       /\ Measures(message.tracklets[i], shot.people[i], message.faces)
       /\ shot.people[i].id # None
       /\ \A g \in Gear : Scored(shot.people[i].gear[g])

LEMMA PublishedIsSound ==
  ASSUME PipelineInv, message # None
  PROVE  PublishedSound
<1>1. PICK c \in Cam, raw \in Shot :
        shot = [raw EXCEPT !.people = SeenIn(raw)] /\ message = FrameOf(c, raw)
  BY DEF PipelineInv, MessageOfShot
<1>2. ShotSound(raw)
  BY PipelineAssumption
<1>3. /\ message.tracklets = MeasuredIn(raw) /\ message.faces = FacesIn(raw)
      /\ message.violence = IF Gated(Tracked(raw)) THEN None ELSE raw.score
  BY <1>1 DEF FrameOf
<1>4. shot.people = SeenIn(raw)
  BY <1>1, <1>2 DEF ShotSound
<1>5. /\ Len(MeasuredIn(raw)) = Len(SeenIn(raw)) /\ Len(SeenIn(raw)) \in Nat
      /\ \A i \in 1..Len(SeenIn(raw)) :
           Measures(MeasuredIn(raw)[i], SeenIn(raw)[i], FacesIn(raw))
  BY OwnTracklets
<1>6. message.violence \in 0..100 \cup {None}
  BY <1>2, <1>3 DEF ShotSound
<1>7. ASSUME NEW i \in 1..Len(SeenIn(raw))
      PROVE  SeenIn(raw)[i].id # None /\ \A g \in Gear : Scored(SeenIn(raw)[i].gear[g])
  <2>1. CASE raw.tracked
    BY <1>2, <2>1 DEF ShotSound, SeenIn
  <2>2. CASE ~raw.tracked
    BY <2>2 DEF SeenIn
  <2> QED
    BY <2>1, <2>2
<1> QED
  BY <1>3, <1>4, <1>5, <1>6, <1>7 DEF PublishedSound

LEMMA FacesAreFirst ==
  ASSUME PipelineInv
  PROVE  FirstFaceInside
<1> SUFFICES ASSUME message # None, NEW i \in 1..Len(message.tracklets)
             PROVE  LET t == message.tracklets[i]
                        inside == {j \in 1..Len(message.faces) :
                                     Inside(Centre(message.faces[j].box), t.box)}
                    IN  t.face = IF inside = {} THEN None ELSE message.faces[Min(inside)].emb
  BY DEF FirstFaceInside
<1>1. Measures(message.tracklets[i], shot.people[i], message.faces)
  BY PublishedIsSound DEF PublishedSound
<1> DEFINE t == message.tracklets[i]
<1>2. t.face = FaceFor(message.faces, t.box, Len(message.faces))
  BY <1>1 DEF Measures, Follows
<1> QED
  BY <1>2 DEF FaceFor, InsideOf

LEMMA MeasuresAreTogether ==
  ASSUME PipelineInv
  PROVE  MeasuresStayTogether
<1> SUFFICES ASSUME message # None
             PROVE  MeasuresStayTogether
  BY DEF MeasuresStayTogether
<1>1. PublishedSound
  BY PublishedIsSound
<1>2. ASSUME NEW i \in 1..Len(shot.people)
      PROVE  LET t == message.tracklets[i]
                 p == shot.people[i]
                 scores(g) == {p.gear[g][j].conf : j \in 1..Len(p.gear[g])}
             IN  /\ t.id = p.id /\ t.box = p.box /\ t.body \in {None, p.id}
                 /\ t.body # None /\ models.ppe = "null" => t.quality = p.norm
                 /\ t.gear # NotRun =>
                      \A g \in Gear :
                        /\ t.gear[g] \in scores(g) \cup {0}
                        /\ \A s \in scores(g) : s > GearConf => t.gear[g] >= s
  <2> DEFINE t == message.tracklets[i]
             p == shot.people[i]
             list(g) == p.gear[g]
             scores(g) == {list(g)[j].conf : j \in 1..Len(list(g))}
  <2>1. Measures(t, p, message.faces) /\ \A g \in Gear : Scored(list(g))
    BY <1>1 DEF PublishedSound
  <2>2. /\ t.id = p.id /\ t.box = p.box /\ t.body \in {None, p.id}
        /\ t.body # None /\ models.ppe = "null" => t.quality = p.norm
        /\ t.gear = GearOf(p)
    BY <2>1 DEF Measures, Follows
  <2>3. ASSUME t.gear # NotRun, NEW g \in Gear
        PROVE  /\ t.gear[g] \in scores(g) \cup {0}
               /\ \A s \in scores(g) : s > GearConf => t.gear[g] >= s
    <3>1. t.gear[g] = BestScore(list(g))
      BY <2>2, <2>3 DEF GearOf
    <3> DEFINE above == Above(list(g), GearConf)
    <3>2. /\ BestScore(list(g)) \in {list(g)[j].conf : j \in above} \cup {0}
          /\ \A j \in above : BestScore(list(g)) >= list(g)[j].conf
      BY <2>1, BestOfCandidates
    <3>3. \A j : j \in above <=> j \in 1..Len(list(g)) /\ list(g)[j].conf > GearConf
      BY DEF Above
    <3> HIDE DEF above, list, t
    <3> QED
      BY <3>1, <3>2, <3>3
  <2> QED
    BY <2>2, <2>3
<1> QED
  BY <1>1, <1>2 DEF MeasuresStayTogether, PublishedSound

LEMMA TypesAreRight ==
  ASSUME PipelineInv
  PROVE  PipelineTypeOK
<1>1. models \in
       [detector : {"scrfd_kps", "scrfd", "yolo_face", "insightface", "null"},
        embedder : {"adaface", "insightface", "null"},
        body : {"transreid", "osnet", "disabled", "null"},
        ppe : {"ppe", "disabled", "null"}, violence : {"violence", "disabled", "null"}]
  BY LoadTypes DEF PipelineInv, SetupKept
<1>2. context \in [Cam -> {"none", "zero", "fed"}]
  BY DEF PipelineInv, ContextsKept
<1>3. ASSUME message # None
      PROVE  message.violence \in 0..100 \cup {None}
  BY <1>3, PublishedIsSound DEF PublishedSound
<1>4. ASSUME message # None, NEW i \in 1..Len(message.tracklets)
      PROVE  LET t == message.tracklets[i]
             IN  /\ \A g \in Gear : t.gear[g] \in 0..100 \cup {None}
                 /\ t.visible => t.pose # None
                 /\ t.face # None => \E j \in 1..Len(message.faces) : message.faces[j].emb = t.face
  <2> DEFINE t == message.tracklets[i]
             p == shot.people[i]
             faces == message.faces
             inside == InsideOf(faces, p.box, Len(faces))
  <2>1. Measures(t, p, faces) /\ \A g \in Gear : Scored(p.gear[g])
    BY <1>4, PublishedIsSound DEF PublishedSound
  <2>2. ASSUME NEW g \in Gear
        PROVE  t.gear[g] \in 0..100 \cup {None}
    <3>1. CASE GearSeen(models, p)
      <4> DEFINE list == p.gear[g]
      <4>1. t.gear[g] = BestScore(list)
        BY <2>1, <3>1 DEF Measures, GearOf
      <4>2. BestScore(list) \in {list[j].conf : j \in Above(list, GearConf)} \cup {0}
        BY <2>1, BestOfCandidates
      <4>3. \A j \in Above(list, GearConf) : list[j].conf \in 0..100
        BY <2>1 DEF Above, Scored
      <4> DEFINE score == BestScore(list)
                 above == Above(list, GearConf)
      <4>4. score \in {list[j].conf : j \in above} \cup {0} /\ \A j \in above : list[j].conf \in 0..100
        BY <4>2, <4>3
      <4> HIDE DEF list, t, score, above
      <4>5. score \in 0..100
        <5>1. CASE score = 0
          BY <5>1
        <5>2. CASE score # 0
          BY <4>4, <5>2, Zenon
        <5> QED
          BY <5>1, <5>2
      <4> QED
        BY <4>1, <4>5 DEF score
    <3>2. CASE ~GearSeen(models, p)
      BY <2>1, <3>2 DEF Measures, GearOf, NotRun
    <3> QED
      BY <3>1, <3>2
  <2>3. t.visible => t.pose # None
    BY <2>1 DEF Measures, Follows
  <2>4. ASSUME t.face # None
        PROVE  \E j \in 1..Len(faces) : faces[j].emb = t.face
    <3>1. t.face = FaceFor(faces, p.box, Len(faces))
      BY <2>1 DEF Measures
    <3>2. inside # {} /\ t.face = faces[Min(inside)].emb
      BY <2>4, <3>1 DEF FaceFor
    <3>3. Min(inside) \in inside
      <4>1. inside \in SUBSET Nat
        BY DEF InsideOf
      <4> HIDE DEF inside
      <4> QED
        BY <3>2, <4>1, MinIsMember
    <3>4. \A j \in inside : j \in 1..Len(faces)
      BY DEF InsideOf
    <3> HIDE DEF inside, t, faces
    <3> QED
      BY <3>2, <3>3, <3>4
  <2> QED
    BY <2>2, <2>3, <2>4
<1> QED
  BY <1>1, <1>2, <1>3, <1>4 DEF PipelineTypeOK

\* Whatever the networks find, everybody the tracker saw is published once, in order,
\* with the first embedded face in their box (which may be in another's box too), their
\* own body, and of every item the best score of their own crop.
THEOREM MeasuresAreMatched == PipelineSpec => []MeasuresMatched
<1>1. PipelineInv => MeasuresMatched
  BY FacesAreFirst, MeasuresAreTogether, TypesAreRight DEF MeasuresMatched
<1> QED
  BY <1>1, InitPipelineInv, PipelineStep, PTL DEF PipelineSpec

LEMMA EntryFound ==
  ASSUME NEW ctx, NEW t, Len(ctx.entries) \in Nat, EntryOf(ctx, t) # Nobody
  PROVE  \E i \in 1..Len(ctx.entries) :
           /\ EntryOf(ctx, t) = ctx.entries[i]
           /\ ctx.entries[i].cam = ctx.frame.cam /\ ctx.entries[i].id = t.id
<1> DEFINE found == {i \in 1..Len(ctx.entries) :
                       ctx.entries[i].cam = ctx.frame.cam /\ ctx.entries[i].id = t.id}
           at == IF found # {} THEN Min(found) ELSE 0
<1>1. EntryOf(ctx, t) = IF at = 0 THEN Nobody ELSE ctx.entries[at]
  BY DEF EntryOf, FirstThat, SelectInSeq
<1>2. found # {} => Min(found) \in found
  <2>1. found \in SUBSET Nat
    OBVIOUS
  <2> HIDE DEF found
  <2> QED
    BY <2>1, MinIsMember
<1>3. at \in found
  BY <1>1, <1>2
<1>4. at # 0
  BY <1>3
<1> HIDE DEF at
<1> QED
  BY <1>1, <1>3, <1>4

LEMMA PersonFound ==
  ASSUME NEW ctx, NEW gid, Len(ctx.entries) \in Nat,
         NEW k \in 1..Len(ctx.entries), ctx.entries[k].gid = gid
  PROVE  \E i \in 1..Len(ctx.entries) :
           ctx.entries[i].gid = gid /\ PersonOf(ctx, gid) = ctx.entries[i].person
<1> DEFINE found == {i \in 1..Len(ctx.entries) : ctx.entries[i].gid = gid}
           at == IF found # {} THEN Min(found) ELSE 0
<1>1. PersonOf(ctx, gid) = (IF at = 0 THEN Nobody ELSE ctx.entries[at]).person
  BY DEF PersonOf, FirstThat, SelectInSeq
<1>2. Min(found) \in found
  <2>1. found \in SUBSET Nat /\ k \in found
    OBVIOUS
  <2> HIDE DEF found
  <2> QED
    BY <2>1, MinIsMember
<1>3. at \in found /\ at # 0
  BY <1>2
<1> HIDE DEF at
<1> QED
  BY <1>1, <1>3

\* Whom the detector names: somebody in the frame whose track nobody is known for.
LEMMA UnknownIsOfFrame ==
  ASSUME NEW ctx, Len(ctx.entries) \in Nat, Len(ctx.frame.tracklets) \in Nat,
         UnknownReport(ctx) # Nobody
  PROVE  \E j \in 1..Len(ctx.frame.tracklets) :
           LET t == ctx.frame.tracklets[j]
           IN  /\ UnknownReport(ctx) = GidOf(ctx, t) /\ PersonOf(ctx, GidOf(ctx, t)) = Nobody
<1> DEFINE trks == ctx.frame.tracklets
           found == {j \in 1..Len(trks) :
                       GidOf(ctx, trks[j]) # Nobody /\ PersonOf(ctx, GidOf(ctx, trks[j])) = Nobody}
           at == IF found # {} THEN Min(found) ELSE 0
           tr == IF at = 0 THEN Nobody ELSE trks[at]
<1>1. UnknownReport(ctx) = IF tr = Nobody THEN Nobody ELSE GidOf(ctx, tr)
  BY DEF UnknownReport, FirstThat, SelectInSeq
<1>2. found # {} => Min(found) \in found
  <2>1. found \in SUBSET Nat
    OBVIOUS
  <2> HIDE DEF found
  <2> QED
    BY <2>1, MinIsMember
<1>3. tr # Nobody
  BY <1>1
<1>4. at \in found /\ tr = trks[at]
  BY <1>2, <1>3
<1> HIDE DEF at, tr
<1>5. UnknownReport(ctx) = GidOf(ctx, trks[at])
  BY <1>1, <1>3, <1>4
<1> QED
  BY <1>4, <1>5

LEMMA UnknownIsUnknown ==
  ASSUME PipelineInv
  PROVE  KnownIsNotReported
<1> SUFFICES ASSUME reports # None, "UNKNOWN_PERSON" \in DOMAIN reports,
                    reports["UNKNOWN_PERSON"].what # Nobody
             PROVE  LET gid == reports["UNKNOWN_PERSON"].what
                        entries == reports["UNKNOWN_PERSON"].view.entries
                    IN  /\ \A i \in 1..Len(entries) :
                             entries[i].gid = gid => entries[i].person = Nobody
                        /\ \E i \in 1..Len(entries), j \in 1..Len(shot.people) :
                             /\ entries[i].gid = gid /\ entries[i].cam = message.cam
                             /\ entries[i].id = shot.people[j].id
  BY DEF KnownIsNotReported
<1>0. PICK view \in View :
        reports = [type \in DOMAIN Reports([view EXCEPT !.frame = message]) \cap registry.loaded |->
                     ReportOf(view, type)]
  BY DEF PipelineInv, ReportsOfMessage
<1>1. reports["UNKNOWN_PERSON"] =
        [what |-> UnknownReport([view EXCEPT !.frame = message]), view |-> view]
  BY <1>0 DEF ReportOf, Reports
<1> DEFINE ctx == [view EXCEPT !.frame = message]
           entries == view.entries
           gid == UnknownReport(ctx)
<1>2. ctx.frame = message /\ ctx.entries = entries /\ Len(entries) \in Nat
  BY PipelineAssumption DEF ViewSound
<1>3. /\ reports["UNKNOWN_PERSON"].what = gid /\ reports["UNKNOWN_PERSON"].view.entries = entries
      /\ gid # Nobody
  BY <1>1
<1>4. /\ Len(message.tracklets) = Len(shot.people) /\ Len(message.tracklets) \in Nat
      /\ \A j \in 1..Len(shot.people) : message.tracklets[j].id = shot.people[j].id
  BY PublishedIsSound DEF PipelineInv, ReportsOfMessage, PublishedSound, Measures, Follows
<1>5. \A i, j \in 1..Len(entries) :
        entries[i].gid = entries[j].gid => entries[i].person = entries[j].person
  BY PipelineAssumption DEF ViewSound
<1> HIDE DEF ctx, entries
<1>6. PICK j \in 1..Len(message.tracklets) :
        gid = GidOf(ctx, message.tracklets[j]) /\ PersonOf(ctx, gid) = Nobody
  BY <1>2, <1>3, <1>4, UnknownIsOfFrame
<1>7. PICK i \in 1..Len(entries) :
        /\ EntryOf(ctx, message.tracklets[j]) = entries[i]
        /\ entries[i].cam = message.cam /\ entries[i].id = message.tracklets[j].id
  <2>1. EntryOf(ctx, message.tracklets[j]) # Nobody
    BY <1>3, <1>6 DEF GidOf
  <2> QED
    BY <1>2, <2>1, EntryFound
<1>8. entries[i].gid = gid
  BY <1>3, <1>6, <1>7 DEF GidOf
<1>9. PICK k \in 1..Len(entries) : entries[k].gid = gid /\ entries[k].person = Nobody
  BY <1>2, <1>6, <1>8, PersonFound
<1> HIDE DEF gid
<1>10. \A n \in 1..Len(entries) : entries[n].gid = gid => entries[n].person = Nobody
  BY <1>5, <1>9
<1> QED
  BY <1>3, <1>4, <1>7, <1>8, <1>10

\* An item on somebody the PPE model looked at is violated if its best score is below
\* the threshold, that is if none above the model's own threshold reaches it.
LEMMA ViolatesItem ==
  ASSUME NEW candidates, Scored(candidates)
  PROVE  BestScore(candidates) < GearMin <=>
           \A j \in 1..Len(candidates) :
             candidates[j].conf < GearMin \/ candidates[j].conf <= GearConf
<1> DEFINE above == Above(candidates, GearConf)
           best == BestScore(candidates)
           score(j) == candidates[j].conf
           low(j) == score(j) < GearMin \/ score(j) <= GearConf
<1>1. /\ best \in {score(j) : j \in above} \cup {0}
      /\ \A j \in above : best >= score(j)
  BY BestOfCandidates
<1>2. Len(candidates) \in Nat /\ \A j \in 1..Len(candidates) : score(j) \in Nat
  BY ScoredIsNatural
<1>3. \A j : j \in above <=> j \in 1..Len(candidates) /\ score(j) > GearConf
  BY DEF Above
<1>4. GearMin \in Nat /\ GearMin > 0 /\ GearConf \in Nat
  BY PipelineAssumption
<1> HIDE DEF above, best, score
<1>5. best \in Nat
  BY <1>1, <1>2, <1>3
<1>6. ASSUME best < GearMin, NEW j \in 1..Len(candidates), score(j) > GearConf
      PROVE  score(j) < GearMin
  <2>1. best >= score(j) /\ score(j) \in Nat
    BY <1>1, <1>2, <1>3, <1>6
  <2> QED
    BY <1>4, <1>5, <1>6, <2>1
<1>7. ASSUME \A j \in 1..Len(candidates) : low(j)
      PROVE  best < GearMin
  <2>1. CASE best = 0
    BY <1>4, <2>1
  <2>2. CASE best # 0
    <3>1. PICK j \in above : best = score(j)
      BY <1>1, <2>2
    <3>2. j \in 1..Len(candidates) /\ score(j) > GearConf /\ score(j) \in Nat
      BY <1>2, <1>3, <3>1
    <3> QED
      BY <1>4, <1>7, <3>1, <3>2
  <2> QED
    BY <2>1, <2>2
<1>8. best < GearMin <=> \A j \in 1..Len(candidates) : low(j)
  <2>1. ASSUME best < GearMin, NEW j \in 1..Len(candidates)
        PROVE  low(j)
    BY <1>2, <1>4, <1>6, <2>1
  <2> HIDE DEF low
  <2> QED
    BY <1>7, <2>1
<1> QED
  BY <1>8 DEF best, score

Bare(p) ==
  /\ GearSeen(models, p)
  /\ \E g \in MustWear : \A j \in 1..Len(p.gear[g]) :
       p.gear[g][j].conf < GearMin \/ p.gear[g][j].conf <= GearConf

LEMMA ViolationsAreBare ==
  ASSUME NEW t, NEW p, t.gear = GearOf(p), \A g \in Gear : Scored(p.gear[g])
  PROVE  Violations(t) # {} <=> Bare(p)
<1>1. MustWear \subseteq Gear /\ Nobody = None /\ None \notin 0..100
  BY PipelineAssumption
<1>2. CASE GearSeen(models, p)
  <2> DEFINE list(g) == p.gear[g]
  <2>1. ASSUME NEW g \in MustWear
        PROVE  /\ t.gear[g] = BestScore(list(g)) /\ BestScore(list(g)) # None
               /\ BestScore(list(g)) < GearMin <=>
                    \A j \in 1..Len(list(g)) : list(g)[j].conf < GearMin \/ list(g)[j].conf <= GearConf
    <3>0. g \in Gear /\ Scored(list(g))
      BY <1>1
    <3>1. t.gear[g] = BestScore(list(g))
      BY <1>2, <3>0 DEF GearOf
    <3>2. BestScore(list(g)) \in {list(g)[j].conf : j \in Above(list(g), GearConf)} \cup {0}
      BY <3>0, BestOfCandidates
    <3>3. \A j \in Above(list(g), GearConf) : list(g)[j].conf \in 0..100
      BY <3>0 DEF Above, Scored
    <3>4. BestScore(list(g)) # None
      <4> DEFINE above == Above(list(g), GearConf)
                 c(j) == list(g)[j].conf
      <4>1. \A j \in above : c(j) # None
        BY <1>1, <3>3
      <4>2. 0 # None
        BY <1>1
      <4>3. BestScore(list(g)) \in {c(j) : j \in above} \cup {0}
        BY <3>2
      <4> HIDE DEF above, c
      <4> QED
        BY <4>1, <4>2, <4>3
    <3>5. BestScore(list(g)) < GearMin <=>
            \A j \in 1..Len(list(g)) : list(g)[j].conf < GearMin \/ list(g)[j].conf <= GearConf
      BY <3>0, ViolatesItem
    <3> QED
      BY <3>1, <3>4, <3>5
  <2>2. Violations(t) = {g \in MustWear : BestScore(list(g)) < GearMin}
    BY <1>1, <2>1 DEF Violations
  <2> QED
    BY <1>2, <2>1, <2>2 DEF Bare
<1>3. CASE ~GearSeen(models, p)
  <2>1. \A g \in MustWear : t.gear[g] = None
    BY <1>1, <1>3 DEF GearOf, NotRun
  <2> QED
    BY <1>1, <1>3, <2>1 DEF Violations, Bare
<1> QED
  BY <1>2, <1>3

\* The report names the first tracklet that violates, if there is one.
LEMMA PPEReportNames ==
  ASSUME NEW ctx, Len(ctx.frame.tracklets) \in Nat,
         \A i \in 1..Len(ctx.frame.tracklets) : ctx.frame.tracklets[i].id # Nobody
  PROVE  LET bad == {i \in 1..Len(ctx.frame.tracklets) : Violations(ctx.frame.tracklets[i]) # {}}
         IN  /\ bad = {} => PPEReport(ctx) = Nobody
             /\ bad # {} => /\ PPEReport(ctx) # Nobody
                            /\ \E i \in bad : PPEReport(ctx) = ctx.frame.tracklets[i].id
<1> DEFINE trks == ctx.frame.tracklets
           bad == {i \in 1..Len(trks) : Violations(trks[i]) # {}}
           at == IF bad # {} THEN Min(bad) ELSE 0
<1>1. PPEReport(ctx) = IF at = 0 THEN Nobody ELSE trks[at].id
  BY DEF PPEReport, SelectInSeq
<1>2. bad \in SUBSET (1..Len(trks))
  OBVIOUS
<1> HIDE DEF bad
<1>3. at \in 0..Len(trks) /\ (at = 0 <=> bad = {}) /\ (at # 0 => at \in bad)
  BY <1>2, FirstIndex
<1> HIDE DEF at
<1>4. CASE bad = {}
  BY <1>1, <1>3, <1>4 DEF bad
<1>5. CASE bad # {}
  <2>1. PPEReport(ctx) = trks[at].id /\ at \in bad
    BY <1>1, <1>3, <1>5
  <2>2. at \in 1..Len(trks)
    BY <1>2, <2>1
  <2> QED
    BY <1>5, <2>1, <2>2 DEF bad
<1> QED
  BY <1>4, <1>5

LEMMA BareAreReported ==
  ASSUME PipelineInv
  PROVE  BareHeadsReported
<1> SUFFICES ASSUME reports # None, "PPE_VIOLATION" \in registry.loaded
             PROVE  LET reported == reports["PPE_VIOLATION"].what
                    IN  /\ (\E i \in 1..Len(shot.people) : Bare(shot.people[i])) <=> reported # Nobody
                        /\ reported # Nobody =>
                             \E i \in 1..Len(shot.people) :
                               shot.people[i].id = reported /\ Bare(shot.people[i])
  BY DEF BareHeadsReported, Bare
<1>1. message # None /\ PublishedSound
  BY PublishedIsSound DEF PipelineInv, ReportsOfMessage
<1>2. PICK view \in View :
        reports = [type \in DOMAIN Reports([view EXCEPT !.frame = message]) \cap registry.loaded |->
                     ReportOf(view, type)]
  BY DEF PipelineInv, ReportsOfMessage
<1> DEFINE ctx == [view EXCEPT !.frame = message]
           reported == PPEReport(ctx)
<1>3. "PPE_VIOLATION" \in DOMAIN Reports(ctx) /\ Reports(ctx)["PPE_VIOLATION"] = PPEReport(ctx)
  BY DEF Reports
<1>4. reports["PPE_VIOLATION"].what = reported
  BY <1>2, <1>3 DEF ReportOf
<1>5. ctx.frame = message
  BY PipelineAssumption DEF ViewSound
<1>6. /\ Len(message.tracklets) = Len(shot.people) /\ Len(shot.people) \in Nat
      /\ \A i \in 1..Len(shot.people) :
           /\ message.tracklets[i].id = shot.people[i].id /\ shot.people[i].id # Nobody
           /\ Violations(message.tracklets[i]) # {} <=> Bare(shot.people[i])
  <2>1. ASSUME NEW i \in 1..Len(shot.people)
        PROVE  /\ message.tracklets[i].id = shot.people[i].id /\ shot.people[i].id # Nobody
               /\ Violations(message.tracklets[i]) # {} <=> Bare(shot.people[i])
    <3>1. /\ Measures(message.tracklets[i], shot.people[i], message.faces)
          /\ shot.people[i].id # Nobody
          /\ \A g \in Gear : Scored(shot.people[i].gear[g])
      BY <1>1, PipelineAssumption DEF PublishedSound
    <3>2. /\ message.tracklets[i].id = shot.people[i].id
          /\ message.tracklets[i].gear = GearOf(shot.people[i])
      BY <3>1 DEF Measures, Follows
    <3> QED
      BY <3>1, <3>2, ViolationsAreBare
  <2> QED
    BY <1>1, <2>1 DEF PublishedSound
<1> DEFINE bad == {i \in 1..Len(message.tracklets) : Violations(message.tracklets[i]) # {}}
<1>7. /\ bad = {} => reported = Nobody
      /\ bad # {} => reported # Nobody /\ \E i \in bad : reported = message.tracklets[i].id
  <2> HIDE DEF ctx
  <2> QED
    BY <1>5, <1>6, PPEReportNames
<1>8. bad = {i \in 1..Len(shot.people) : Bare(shot.people[i])}
  BY <1>6
<1> HIDE DEF reported, bad
<1> QED
  BY <1>4, <1>6, <1>7, <1>8

\* A row of an enabled detector is loaded, or it is one of the errors.
RowAccounted(row, result) ==
  LET inErrors == Cardinality({j \in 1..Len(result.errors) : result.errors[j] = row.type})
      loaded == IF row.type \in result.loaded THEN 1 ELSE 0
  IN  loaded + inErrors = IF row.enabled THEN 1 ELSE 0

LEMMA RowsAreAccounted ==
  ASSUME NEW rows, Len(rows) \in Nat,
         \A j, k \in 1..Len(rows) : rows[j].type = rows[k].type => j = k,
         NEW i \in 1..Len(rows)
  PROVE  RowAccounted(rows[i], LoadEnabled(rows))
<1> DEFINE enabled == {j \in 1..Len(rows) : rows[j].enabled}
           I == {j \in enabled : ~Loadable(rows[j])}
           bad == At(rows, I)
           errors == [j \in 1..Len(bad) |-> bad[j].type]
           ours == {j \in 1..Len(errors) : errors[j] = rows[i].type}
           result == LoadEnabled(rows)
<1>1. result.errors = errors /\ result.loaded = {rows[j].type : j \in {k \in enabled : Loadable(rows[k])}}
  BY DEF LoadEnabled
<1>2. I \in SUBSET (1..Len(rows))
  OBVIOUS
<1>3. rows[i].type \in result.loaded <=> rows[i].enabled /\ Loadable(rows[i])
  BY <1>1
<1>4. i \in I <=> rows[i].enabled /\ ~Loadable(rows[i])
  OBVIOUS
<1> HIDE DEF I, result
<1>5. PICK m \in Nat : \E h \in Bijection(1..m, I) : bad = [k \in 1..m |-> rows[h[k]]]
  <2>1. TakesEach(bad, rows, I)
    BY <1>2, AtSelects
  <2> QED
    BY <2>1 DEF TakesEach
<1>6. PICK h \in Bijection(1..m, I) : bad = [k \in 1..m |-> rows[h[k]]]
  BY <1>5
<1>7. /\ h \in [1..m -> I] /\ \A k, l \in 1..m : h[k] = h[l] => k = l
      /\ \A j \in I : \E k \in 1..m : h[k] = j
  BY <1>6 DEF Bijection, Injection, Surjection, IsInjective
<1>8. Len(errors) = m /\ \A k \in 1..m : errors[k] = rows[h[k]].type
  BY <1>6
<1> HIDE DEF errors, bad
<1>9. ASSUME NEW k \in 1..m
      PROVE  h[k] \in 1..Len(rows) /\ (errors[k] = rows[i].type <=> h[k] = i)
  <2>1. h[k] \in 1..Len(rows) /\ errors[k] = rows[h[k]].type
    BY <1>2, <1>7, <1>8
  <2> QED
    BY <2>1
<1>10. CASE i \in I
  <2>1. PICK k \in 1..m : h[k] = i
    BY <1>7, <1>10
  <2>2. ours = {k}
    BY <1>7, <1>8, <1>9, <2>1
  <2>3. Cardinality(ours) = 1
    BY <2>2, FS_Singleton
  <2> QED
    BY <1>1, <1>3, <1>4, <1>10, <2>3 DEF result, RowAccounted
<1>11. CASE i \notin I
  <2>1. ours = {}
    BY <1>7, <1>8, <1>9, <1>11
  <2>2. Cardinality(ours) = 0
    BY <2>1, FS_EmptySet
  <2> QED
    BY <1>1, <1>3, <1>4, <1>11, <2>2 DEF result, RowAccounted
<1> QED
  BY <1>10, <1>11

\* What the detectors report is so, and every enabled detector runs or is an error.
THEOREM ReportsAreJustified == PipelineSpec => []ReportsJustified
<1>1. PipelineInv => EnabledRowsAccounted
  <2> SUFFICES ASSUME PipelineInv, NEW i \in 1..Len(setup.rows)
               PROVE  RowAccounted(setup.rows[i], registry)
    BY DEF EnabledRowsAccounted, RowAccounted
  <2>1. SetupSound(setup) /\ registry = LoadEnabled(setup.rows)
    BY PipelineAssumption DEF PipelineInv, SetupKept
  <2> QED
    BY <2>1, RowsAreAccounted DEF SetupSound
<1>2. PipelineInv => ReportsJustified
  BY <1>1, BareAreReported, UnknownIsUnknown DEF ReportsJustified
<1> QED
  BY <1>2, InitPipelineInv, PipelineStep, PTL DEF PipelineSpec

\* A person is not reported unknown as long as any camera has a name for them.
THEOREM NobodyKnownReported == PipelineSpec => []KnownIsNotReported
BY InitPipelineInv, PipelineStep, UnknownIsUnknown, PTL DEF PipelineSpec
=============================================================================
