------------------------------ MODULE MCUpkeep ------------------------------
(***************************************************************************)
(* Five parts of the site's upkeep that share no state, side by side: the  *)
(* freshness of the maintenance calendar, the set-up of a camera, the      *)
(* partitions of tracking_events, the writer that fills them, and the jobs *)
(* that watch over the system.  A behaviour belongs to one of them, chosen *)
(* at the start; the others rest.                                          *)
(*                                                                         *)
(* Calendar: one-time windows of a camera and recurring ones of a zone,    *)
(* which start at ticks 0 and 2 and may overlap.  Partitions: the          *)
(* migration runs in a December.  Writer: a track that enters a zone,      *)
(* changes to the other and leaves, one that is seen once, an empty frame, *)
(* and one that does not parse.                                            *)
(***************************************************************************)
EXTENDS CalendarFreshness, CameraSetup, Partitions, SchedulerJobs, TrackWriter

CONSTANTS a, b, z1, z2

VARIABLE part

upkeepVars ==
  <<freshnessVars, cameraVars, partitionVars, jobsVars, writerVars, part>>

UpkeepInit ==
  /\ part \in {"calendar", "camera", "partitions", "jobs", "writer"}
  /\ Init /\ CamerasInit /\ PartitionsInit /\ JobsInit /\ WriterInit
  /\ camera.tier = "FULL" /\ camera.shutter = "unknown"
  /\ part # "partitions" => default = {}
  /\ part # "jobs" => alive = [w \in Worker |-> TRUE]

OthersRest ==
  /\ part # "calendar" => UNCHANGED freshnessVars
  /\ part # "camera" => UNCHANGED cameraVars
  /\ part # "partitions" => UNCHANGED partitionVars
  /\ part # "jobs" => UNCHANGED jobsVars
  /\ part # "writer" => UNCHANGED writerVars

UpkeepNext ==
  /\ \/ part = "calendar" /\ Next
     \/ part = "camera" /\ CamerasNext
     \/ part = "partitions" /\ PartitionsNext
     \/ part = "jobs" /\ JobsNext
     \/ part = "writer" /\ WriterNext
  /\ OthersRest /\ UNCHANGED part

\* The fairness is that of FairWriterSpec.
UpkeepSpec ==
  /\ UpkeepInit /\ [][UpkeepNext]_upkeepVars
  /\ WF_writerVars(part = "writer" /\ ReadBatch)
  /\ WF_writerVars(part = "writer" /\ CacheExpires)
  /\ SF_writerVars(part = "writer" /\ WriteFrame)
  /\ SF_writerVars(part = "writer" /\ CommitBatch)
  /\ WF_writerVars(part = "writer" /\ Writer)

MCEvent ==
  [type : {"INTRUSION"}, cam : {"c1", "c2"}, zone : {"z1", "none"}, ts : 0..5]

MCWindowRow ==
  [active : BOOLEAN, scope : {"CAMERA"}, scopeId : {"c1"},
   types : {{"INTRUSION"}, {"LOITERING"}}, schedule : {"ONE_TIME"},
   starts : {1}, ends : {2}]
  \cup
  [active : BOOLEAN, scope : {"ZONE"}, scopeId : {"z1"},
   types : {{"INTRUSION", "LOITERING"}}, schedule : {"RECURRING"},
   fires : {{0, 2}}, duration : {1, 3}]

Shows(reads, focus, skew) ==
  [height |-> 1080, declared |-> 25, reads |-> reads, focus |-> focus,
   combed |-> FALSE, skew |-> skew]

MCStream ==
  LET T == TRUE
      F == FALSE
  IN  {Shows(<<F, F, F, F, F, F>>, 40, 0),
       Shows(<<T, T, T, F, F, F>>, 10, 9), Shows(<<T, T, T, T, F, F>>, 10, 9),
       Shows(<<T, T, F, T, T, T>>, 40, 1)}

MCCorrection ==
  {[tier |-> "FULL", shutter |-> "rolling"], [tier |-> "LOW", shutter |-> "unknown"]}

MCOverride == {{"scrfd_conf"}, {"scrfd_conf", "burst_frames"}}

Seen(t, z, ts) == [parses |-> TRUE, track |-> t, zone |-> z, ts |-> ts]

MCFrame ==
  {Seen(a, z1, 1), Seen(a, z2, 2), Seen(a, Outside, 2), Seen(b, z1, 1),
   Seen(NoTrack, Outside, 3), [Seen(NoTrack, Outside, 3) EXCEPT !.parses = FALSE]}
=============================================================================
