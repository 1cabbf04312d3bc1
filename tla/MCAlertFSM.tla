----------------------------- MODULE MCAlertFSM -----------------------------
(***************************************************************************)
(* Two dedup keys, one that fires at once (LOITERING-like, sustain 0) and  *)
(* one that must sustain for one tick (UNKNOWN_PERSON-like), from one      *)
(* camera; one maintenance window of that camera, which covers ticks 1..2. *)
(***************************************************************************)
EXTENDS AlertFSM

CONSTANTS loiter, unknown

MCKey == {loiter, unknown}
MCSustain == [k \in MCKey |-> IF k = loiter THEN 0 ELSE 1]
MCEvent ==
  [key : MCKey, type : {"ANY"}, cam : {"c1"}, zone : {"z1"}, ts : 0..MaxTime]
MCWindowRow ==
  [active : BOOLEAN, scope : {"CAMERA"}, scopeId : {"c1"}, types : {{"ANY"}},
   schedule : {"ONE_TIME"}, starts : {1}, ends : {2}]
=============================================================================
