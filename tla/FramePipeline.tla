---------------------------- MODULE FramePipeline ----------------------------
(***************************************************************************)
(* What becomes of one frame: InferenceEngine._process_one_message puts    *)
(* the models of src/vms/inference in a row and publishes a                *)
(* DetectionFrame; the orchestrator decodes it and asks the detectors the  *)
(* registry loaded.                                                        *)
(* Each message passes through on its own; what stays is the state the     *)
(* violence model streams, one for each camera.                            *)
(*                                                                         *)
(* The loop around it, shared memory and the streams are FrameTransport;   *)
(* faults of detectors and their alerts are AnomalyOrchestrator.           *)
(***************************************************************************)
EXTENDS FrameRules, DetectorRules, FiniteSets

CONSTANTS
  Cam,        \* cameras, all with a tracker
  Setup,      \* model files, broken ones, rows of anomaly_detectors
  Shot,       \* what may be in front of a camera
  View,       \* what the identity engine and zone presence may answer
  GateMin     \* violence_gate_min_persons

\* The identity engine's entries are a list of entries that have a track and agree on
\* whom it is (GidAgrees of IdentityEngine, proved there).
ViewSound(view) ==
  /\ {"frame", "entries"} \subseteq DOMAIN view /\ Len(view.entries) \in Nat
  /\ \A i \in 1..Len(view.entries) :
       /\ view.entries[i] # Nobody /\ view.entries[i].gid # Nobody
       /\ \A j \in 1..Len(view.entries) :
            view.entries[i].gid = view.entries[j].gid =>
              view.entries[i].person = view.entries[j].person

\* Lists of what the networks find, with their scores in percent.
Scored(list) == Len(list) \in Nat /\ \A i \in 1..Len(list) : list[i].conf \in 0..100

\* What is in front of a camera is a list of people, each with an id of its own from
\* BoT-SORT, and a list of faces; violence has a score, unless the model fails.
ShotSound(raw) ==
  /\ "people" \in DOMAIN raw /\ Len(raw.people) \in Nat
  /\ \A i \in 1..Len(raw.people) :
       /\ raw.people[i].id # None
       /\ \A j \in 1..Len(raw.people) : raw.people[i].id = raw.people[j].id => i = j
       /\ \A g \in Gear : Scored(raw.people[i].gear[g])
  /\ Scored(raw.faces) /\ \A i \in 1..Len(raw.faces) : raw.faces[i].name # None
  /\ raw.score \in 0..100 \cup {None}

\* alert_type is unique in anomaly_detectors.
SetupSound(choice) ==
  /\ Len(choice.rows) \in Nat
  /\ \A i, j \in 1..Len(choice.rows) : choice.rows[i].type = choice.rows[j].type => i = j

ASSUME PipelineAssumption ==
  /\ Nobody = None /\ None \notin 0..100 /\ GateMin \in Nat
  /\ MustWear \subseteq Gear /\ GearMin \in Nat \ {0} /\ GearConf \in Nat
  /\ \A choice \in Setup : SetupSound(choice)
  /\ \A raw \in Shot : ShotSound(raw)
  /\ \A view \in View : ViewSound(view)

VARIABLES
  setup,     \* the choice of Setup
  models,    \* what is loaded
  registry,  \* the result of load_enabled_detectors
  context,   \* _states of the violence model: "none", "zero" or "fed" for each camera
  shot,      \* what the last frame showed
  message,   \* the last DetectionFrame, as decoded
  reports    \* what the detectors make of it, None: not asked yet

pipelineVars == <<setup, models, registry, context, shot, message, reports>>

PipelineTypeOK ==
  /\ models \in
       [detector : {"scrfd_kps", "scrfd", "yolo_face", "insightface", "null"},
        embedder : {"adaface", "insightface", "null"},
        body : {"transreid", "osnet", "disabled", "null"},
        ppe : {"ppe", "disabled", "null"}, violence : {"violence", "disabled", "null"}]
  /\ context \in [Cam -> {"none", "zero", "fed"}]
  /\ message # None =>
       /\ message.violence \in 0..100 \cup {None}
       /\ \A i \in 1..Len(message.tracklets) :
            LET t == message.tracklets[i]
            IN  /\ \A g \in Gear : t.gear[g] \in 0..100 \cup {None}
                /\ t.visible => t.pose # None
                /\ t.face # None => \E j \in 1..Len(message.faces) : message.faces[j].emb = t.face

PipelineInit ==
  /\ setup \in Setup
  /\ models = LoadModels(setup.files, setup.broken) /\ registry = LoadEnabled(setup.rows)
  /\ context = [c \in Cam |-> "none"]
  /\ shot = None /\ message = None /\ reports = None
-----------------------------------------------------------------------------
\* The keypoint gate: faces are looked for only if somebody shows one.
Faces(tracklets, raw) ==
  IF \E i \in 1..Len(tracklets) : tracklets[i].visible THEN FacesOf(models, raw) ELSE <<>>

\* The tracklets made anew with their face embeddings.
WithFaces(tracklets, faces) ==
  [i \in 1..Len(tracklets) |->
     [tracklets[i] EXCEPT !.face = AssociateFaces(tracklets, faces)[tracklets[i].id]]]

\* Mutant of WithBodies: a crop without an embedding leaves no tracklet.
WithBodiesOnly(tracklets, raw) ==
  IF models.body = "null" THEN tracklets
  ELSE LET seen == At(raw.people, {i \in 1..Len(raw.people) : BodySeen(models, raw.people[i])})
       IN  [i \in 1..Len(seen) |->
              [Tracklet(tracklets[i].id, tracklets[i].box) EXCEPT
                 !.face = tracklets[i].face, !.body = seen[i].id, !.quality = seen[i].norm]]

\* _extract_body_embeddings: the tracklets made anew, without pose and visible.
WithBodies(tracklets, raw) ==
  IF models.body = "null" THEN tracklets
  ELSE [i \in 1..Len(tracklets) |->
          LET p == raw.people[i]
          IN  [Tracklet(tracklets[i].id, tracklets[i].box) EXCEPT
                 !.face = tracklets[i].face,
                 !.body = IF BodySeen(models, p) THEN p.id ELSE None,
                 !.quality = IF BodySeen(models, p) THEN p.norm ELSE 0]]

\* _score_ppe: the tracklets made anew, without the quality of their bodies.
WithGear(tracklets, raw) ==
  IF models.ppe = "null" THEN tracklets
  ELSE [i \in 1..Len(tracklets) |->
          LET p == raw.people[i]
          IN  [tracklets[i] EXCEPT
                 !.quality = Full,
                 !.gear = IF GearSeen(models, p)
                          THEN [g \in Gear |-> BestScore(p.gear[g])] ELSE NotRun]]

\* _compute_violence_score: too few people, or no model, and the frame is not fed.
Gated(tracklets) == models.violence # "violence" \/ Len(tracklets) < GateMin

\* score_frame: a new camera starts from zero, the new state is kept, then the score is
\* read.  It fails before the first, before the second or after it.
Feed(c, tracklets, raw) ==
  LET zero == IF context[c] = "none" THEN "zero" ELSE context[c]
      left == IF raw.score = None THEN {context[c], zero, "fed"} ELSE {"fed"}
  IN  IF Gated(tracklets) THEN {context} ELSE {[context EXCEPT ![c] = s] : s \in left}

\* DetectionFrame.to_redis_fields and from_redis_fields: a score that is None is no
\* field.
Fields(frame) == [k \in {f \in DOMAIN frame : f # "violence" \/ frame[f] # None} |-> frame[k]]

FromFields(fields) ==
  [k \in DOMAIN fields \cup {"violence"} |-> IF k \in DOMAIN fields THEN fields[k] ELSE None]

\* _process_one_message for a fresh frame of camera c.
ProcessMessage(c, raw) ==
  LET tracklets == Tracked(raw)
      faces == Faces(tracklets, raw)
      measured == WithGear(WithBodies(WithFaces(tracklets, faces), raw), raw)
  IN  /\ message = None
      /\ shot' = [raw EXCEPT !.people = IF raw.tracked THEN @ ELSE <<>>]
      /\ message' = FromFields(Fields(
           [cam |-> c, tracklets |-> measured, faces |-> faces,
            violence |-> IF Gated(tracklets) THEN None ELSE raw.score]))
      /\ context' \in Feed(c, tracklets, raw)
      /\ UNCHANGED <<setup, models, registry, reports>>

\* The frame's turn in process_frame: what the loaded detectors report.
Judge(view) ==
  LET all == Reports([view EXCEPT !.frame = message])
  IN  /\ message # None /\ reports = None
      /\ reports' = [type \in DOMAIN all \cap registry.loaded |-> [what |-> all[type], view |-> view]]
      /\ UNCHANGED <<setup, models, registry, context, shot, message>>

\* process_frame returns: nothing of the frame is kept but the context.
Returned ==
  /\ reports # None
  /\ shot' = None /\ message' = None /\ reports' = None
  /\ UNCHANGED <<setup, models, registry, context>>

PipelineNext ==
  \/ \E c \in Cam, raw \in Shot : ProcessMessage(c, raw)
  \/ \E view \in View : Judge(view)
  \/ Returned

PipelineSpec == PipelineInit /\ [][PipelineNext]_pipelineVars
-----------------------------------------------------------------------------
(***************************************************************************)
(* Properties.                                                             *)
(***************************************************************************)

\* The tracklet of a person carries the first embedded face with its centre in the
\* person's box and no other.  It need not be theirs: _associate_faces goes on after a
\* match, and who stands in front of somebody else shares a face (OneTrackletPerFace).
FirstFaceInside ==
  message # None =>
    \A i \in 1..Len(message.tracklets) :
      LET t == message.tracklets[i]
          inside == {j \in 1..Len(message.faces) : Inside(Centre(message.faces[j].box), t.box)}
      IN  t.face = IF inside = {} THEN None ELSE message.faces[Min(inside)].emb

\* Through all the copies of the tracklets, everybody the tracker saw is published
\* once, in order: with the body that is theirs, of every item the best score the
\* model gave, NMS or not, and the quality measured of the body where no PPE model
\* is there (where one is, it is lost: BodyQualityPublished).
MeasuresStayTogether ==
  message # None =>
    /\ Len(message.tracklets) = Len(shot.people)
    /\ \A i \in 1..Len(shot.people) :
         LET t == message.tracklets[i]
             p == shot.people[i]
             scores(g) == {p.gear[g][j].conf : j \in 1..Len(p.gear[g])}
         IN  /\ t.id = p.id /\ t.box = p.box /\ t.body \in {None, p.id}
             /\ t.body # None /\ models.ppe = "null" => t.quality = p.norm
             /\ t.gear # NotRun =>
                  \A g \in Gear :
                    /\ t.gear[g] \in scores(g) \cup {0}
                    /\ \A s \in scores(g) : s > GearConf => t.gear[g] >= s

\* The engine makes the tracklets anew up to four times and matches what it measures
\* by position or box: nobody is dropped or doubled, bodies and items are never
\* another person's, and faces are those _associate_faces finds in the boxes.
MeasuresMatched == PipelineTypeOK /\ FirstFaceInside /\ MeasuresStayTogether

\* engine.py:51, "Each face is assigned to the first unmatched tracklet whose bbox
\* contains the face centre": a frame has no more tracklets with a face than faces.
OneTrackletPerFace ==
  message # None =>
    Cardinality({i \in 1..Len(message.tracklets) : message.tracklets[i].face # None})
      <= Len(message.faces)

\* messages.py:26, body_quality_norm is the "pre-L2-normalisation body embedding norm":
\* who is published with a body embedding is published with its norm.
BodyQualityPublished ==
  message # None =>
    \A i \in 1..Len(message.tracklets) :
      message.tracklets[i].body # None => message.tracklets[i].quality = shot.people[i].norm

\* PPE_VIOLATION from the camera to the report: if the model looked at somebody and
\* saw less of an item than the threshold, somebody is reported, and whoever is
\* reported is such a person.
BareHeadsReported ==
  reports # None /\ "PPE_VIOLATION" \in registry.loaded =>
    LET bare(p) == /\ GearSeen(models, p)
                   /\ \E g \in MustWear : \A j \in 1..Len(p.gear[g]) :
                        p.gear[g][j].conf < GearMin \/ p.gear[g][j].conf <= GearConf
        reported == reports["PPE_VIOLATION"].what
    IN  /\ (\E i \in 1..Len(shot.people) : bare(shot.people[i])) <=> reported # Nobody
        /\ reported # Nobody =>
             \E i \in 1..Len(shot.people) :
               shot.people[i].id = reported /\ bare(shot.people[i])

\* UNKNOWN_PERSON names a track of somebody in the frame, and never one that any
\* camera has a person for, as long as the identity engine keeps the entries of a
\* track in agreement (GidAgrees of IdentityEngine; the seam reads one entry only).
KnownIsNotReported ==
  reports # None /\ "UNKNOWN_PERSON" \in DOMAIN reports =>
    LET gid == reports["UNKNOWN_PERSON"].what
        entries == reports["UNKNOWN_PERSON"].view.entries
    IN  gid # Nobody =>
          /\ \A i \in 1..Len(entries) : entries[i].gid = gid => entries[i].person = Nobody
          /\ \E i \in 1..Len(entries), j \in 1..Len(shot.people) :
               /\ entries[i].gid = gid /\ entries[i].cam = message.cam
               /\ entries[i].id = shot.people[j].id

\* Every enabled row of anomaly_detectors is loaded or in the errors, never both,
\* never neither, and a disabled one is in neither (load_enabled_detectors).
EnabledRowsAccounted ==
  \A i \in 1..Len(setup.rows) :
    LET row == setup.rows[i]
        inErrors == Cardinality({j \in 1..Len(registry.errors) : registry.errors[j] = row.type})
        loaded == IF row.type \in registry.loaded THEN 1 ELSE 0
    IN  loaded + inErrors = IF row.enabled THEN 1 ELSE 0

\* What the detectors report is so, and which of them run is told.
ReportsJustified == BareHeadsReported /\ KnownIsNotReported /\ EnabledRowsAccounted
=============================================================================
