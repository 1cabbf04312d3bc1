----------------------- MODULE MCAnomalyOrchestrator -----------------------
(***************************************************************************)
(* Two detectors with one dedup key each: INTRUSION-like keys that fire at *)
(* once, CROWD_DENSITY-like keys that sustain.  Maintenance windows have   *)
(* their runs with AlertFSM; WinId = {} means there are none here.         *)
(***************************************************************************)
EXTENDS AnomalyOrchestrator

CONSTANTS intrusion, crowd

MCKey == {intrusion, crowd}
MCSustain == [k \in MCKey |-> IF k = intrusion THEN 0 ELSE MaxTime]
MCEvent ==
  [key : MCKey, type : {"ANY"}, cam : {"c1"}, zone : {"z1"}, ts : Time]

EventOf(k, t, seen) ==
  IF seen THEN CHOOSE e \in MCEvent : e.key = k /\ e.ts = t ELSE NoEvent

MCKeysOf == <<{intrusion}, {crowd}>>

\* The sustaining rule holds early, late and together with the other one, and a
\* late frame may show nothing.
FrameAt(t, i, c) == [ts |-> t, ev |-> <<EventOf(intrusion, t, i), EventOf(crowd, t, c)>>]
MCFrame == {FrameAt(0, FALSE, TRUE), FrameAt(1, TRUE, TRUE), FrameAt(1, FALSE, FALSE)}
=============================================================================
