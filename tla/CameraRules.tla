---------------------------- MODULE CameraRules ----------------------------
(***************************************************************************)
(* The pure rules of a camera's configuration: what a probe measures       *)
(* (src/vms/profiler/probe.py), the tier it assigns (profiler/tier.py) and *)
(* the settings a shutter type and manual overrides resolve to             *)
(* (inference/shutter_profile.py).                                         *)
(***************************************************************************)
EXTENDS Integers, Sequences, FiniteSets

CONSTANTS
  Unknown,                     \* None
  HeightFull, HeightMid,       \* profiler_res_full_min_h, profiler_res_mid_min_h
  FpsFull, FpsMid,             \* profiler_fps_full_min, profiler_fps_mid_min
  FocusFull, FocusMid,         \* profiler_focus_full_min, profiler_focus_mid_min
  Duration,                    \* profiler_probe_duration_s; 0: until the sample is full
  Samples,                     \* profiler_sample_frames
  Patience,                    \* failed reads a probe puts up with (30)
  SkewLimit                    \* profiler_shutter_skew_threshold

ASSUME ThresholdsAssumption ==
  /\ Unknown \notin Nat /\ Unknown \notin BOOLEAN
  /\ {HeightFull, HeightMid, FpsFull, FpsMid, FocusFull, FocusMid} \subseteq Nat
  /\ {Duration, Samples, Patience, SkewLimit} \subseteq Nat /\ Samples # 0
  /\ HeightMid <= HeightFull /\ FpsMid <= FpsFull /\ FocusMid <= FocusFull

Tier == {"FULL", "MID", "LOW"}
Shutter == {"rolling", "global", "unknown"}

\* ProfileData, as far as a rule reads it.
Measurement ==
  [height : Nat \cup {Unknown}, fps : Nat \cup {Unknown},
   focus : Nat \cup {Unknown}, analog : BOOLEAN \cup {Unknown}, shutter : Shutter]

\* "is not None and < minimum".
Under(value, least) == value # Unknown /\ value < least

AssignTier(d) ==
  IF \/ Under(d.height, HeightMid) \/ Under(d.fps, FpsMid)
     \/ d.analog = TRUE \/ Under(d.focus, FocusMid)
  THEN "LOW"
  ELSE IF Under(d.height, HeightFull) \/ Under(d.fps, FpsFull) \/ Under(d.focus, FocusFull)
       THEN "MID"
       ELSE "FULL"

\* _ROLLING_DELTAS and _ROLLING_ABSOLUTES between them cover every setting.
Setting == {"adaface_min_sim", "scrfd_conf", "burst_frames", "body_weight_multiplier"}

\* The source resolve_camera_config gives of a setting; overrides that are no
\* JSON object count as none.
Source(shutter, overrides, key) ==
  IF key \in overrides THEN "manual_override"
  ELSE IF shutter = "rolling" THEN "shutter:rolling" ELSE "global_default"

(***************************************************************************)
(* The probe.  A stream is what it declares, the reads there is time for   *)
(* (does each return a frame?  without a time limit, as many as it takes)  *)
(* and what its frames have on average.                                    *)
(***************************************************************************)
Decoded(s, n) == Cardinality({i \in 1..n : s.reads[i]})

\* The loop ends: no time is left, too many reads failed, or the sample is full.
Over(s, n) ==
  \/ n = Len(s.reads)
  \/ n - Decoded(s, n) > Patience
  \/ Duration = 0 /\ Decoded(s, n) >= Samples

Reads(s) == CHOOSE n \in 0..Len(s.reads) : Over(s, n) /\ \A k \in 0..(n - 1) : ~Over(s, k)

Frames(s) == Decoded(s, Reads(s))

Insufficient(s) == Duration = 0 /\ Frames(s) < (8 * Samples) \div 10

\* _detect_shutter_type: fewer than four frames tell nothing.
ShutterSeen(s) ==
  IF Frames(s) < 4 \/ Samples < 4 THEN "unknown"
  ELSE IF s.skew > SkewLimit THEN "rolling"
       ELSE IF 2 * s.skew < SkewLimit THEN "global" ELSE "unknown"

Probe(s) ==
  [height |-> s.height, fps |-> IF Duration = 0 THEN s.declared ELSE Frames(s) \div Duration,
   focus |-> IF Frames(s) = 0 THEN Unknown ELSE s.focus,
   analog |-> IF Frames(s) = 0 THEN Unknown ELSE s.combed,
   shutter |-> ShutterSeen(s)]

=============================================================================
