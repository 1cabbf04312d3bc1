----------------------------- MODULE FrameRules -----------------------------
(***************************************************************************)
(* The pure rules of src/vms/inference: which model is loaded, what it     *)
(* keeps of a frame, and which face belongs to whom.  Boxes are tuples     *)
(* <<x1, y1, x2, y2>> in the frame's own pixels: the letterboxing of an    *)
(* image and its undoing cancel out.  An embedding is the face or the      *)
(* person it was computed from.                                            *)
(***************************************************************************)
EXTENDS Integers, SequencesExt, Selection

CONSTANTS
  None,         \* no embedding, no score, no pose
  Full,         \* the quality 1.0, default of body_ and face_quality_norm
  Width, Height,  \* of a frame
  MinFace,      \* min_face_px
  MinCrop,      \* _MIN_CROP of the PPE model
  MinBodyW, MinBodyH,  \* _MIN_W and _MIN_H of the body embedders
  FaceConf,     \* scrfd_conf
  PoseConf,     \* face_kpt_min_conf
  GearConf      \* _conf_threshold of the PPE model

Gear == {"helmet", "vest", "gloves", "mask"}
NotRun == [g \in Gear |-> None]
-----------------------------------------------------------------------------
(***************************************************************************)
(* Boxes.                                                                  *)
(***************************************************************************)
Wide(b) == b[3] - b[1]
High(b) == b[4] - b[2]
Larger(i, j) == IF i > j THEN i ELSE j
Lesser(i, j) == IF i < j THEN i ELSE j

SmallerThan(b, px) == Wide(b) < px \/ High(b) < px

Centre(b) == <<(b[1] + b[3]) \div 2, (b[2] + b[4]) \div 2>>

Inside(p, b) == b[1] <= p[1] /\ p[1] <= b[3] /\ b[2] <= p[2] /\ p[2] <= b[4]

Common(a, b) ==
  Larger(0, Lesser(a[3], b[3]) - Larger(a[1], b[1])) *
  Larger(0, Lesser(a[4], b[4]) - Larger(a[2], b[2]))

Union(a, b) == Wide(a) * High(a) + Wide(b) * High(b) - Common(a, b)

\* The bounds of the slice [lo:hi] of n pixels: a negative bound counts from the end.
Bound(i, n) == IF i < 0 THEN Larger(0, i + n) ELSE Lesser(i, n)

\* frame_bgr[y1:y2, x1:x2] has no pixel.
EmptySlice(b) ==
  Bound(b[3], Width) <= Bound(b[1], Width) \/ Bound(b[4], Height) <= Bound(b[2], Height)

\* A person's box cut to the frame before it is cropped.
Clamped(b) == <<Larger(0, b[1]), Larger(0, b[2]), Lesser(Width, b[3]), Lesser(Height, b[4])>>

\* Cut to the last pixel, as the YOLO fallback does.
Clipped(b) ==
  <<Larger(0, b[1]), Larger(0, b[2]), Lesser(Width - 1, b[3]), Lesser(Height - 1, b[4])>>

\* The sort by score is stable: of the worst the latest comes last.
LastIn(candidates, S) ==
  CHOOSE i \in S : \A j \in S :
    \/ candidates[i].conf < candidates[j].conf
    \/ candidates[i].conf = candidates[j].conf /\ j <= i

\* cv2.dnn.NMSBoxes: of the candidates above conf, the best first, those that do
\* not overlap a kept one by more than pct percent.
NMS(candidates, conf, pct) ==
  LET keep(c, kept) ==
        IF \E i \in 1..Len(kept) : Common(kept[i].box, c.box) * 100 > pct * Union(kept[i].box, c.box)
        THEN kept ELSE Append(kept, c)
  IN  MapThenFoldSet(keep, <<>>, LAMBDA i : candidates[i], LAMBDA S : LastIn(candidates, S),
                     {i \in 1..Len(candidates) : candidates[i].conf > conf})
-----------------------------------------------------------------------------
(***************************************************************************)
(* Loading.  `files` are the models that are there, `broken` those of them *)
(* that raise when loaded.                                                 *)
(***************************************************************************)
FirstOf(order, there) ==
  LET i == SelectInSeq(order, LAMBDA m : m \in there) IN IF i = 0 THEN "null" ELSE order[i]

\* SCRFDDetector.from_path and AdaFaceEmbedder.from_path go on to the next model
\* when one does not load.
FaceDetector(files, broken) ==
  FirstOf(<<"scrfd_kps", "scrfd", "yolo_face", "insightface">>, files \ broken)

FaceEmbedder(files, broken) == FirstOf(<<"adaface", "insightface">>, files \ broken)

\* create_body_embedder and the PPE and violence models look for the file only: one
\* that does not load stays, and answers nothing.
Wrapped(model, broken) == IF model \in broken THEN "disabled" ELSE model

BodyEmbedder(files, broken) == Wrapped(FirstOf(<<"transreid", "osnet">>, files), broken)

LoadModels(files, broken) ==
  [detector |-> FaceDetector(files, broken), embedder |-> FaceEmbedder(files, broken),
   body |-> BodyEmbedder(files, broken),
   ppe |-> Wrapped(FirstOf(<<"ppe">>, files), broken),
   violence |-> Wrapped(FirstOf(<<"violence">>, files), broken)]
-----------------------------------------------------------------------------
(***************************************************************************)
(* People: PerCameraTracker.update and what is measured of each.           *)
(***************************************************************************)

\* face_visible: the nose and an eye.
FaceVisible(pose) ==
  pose # None /\ pose.nose >= PoseConf /\ (pose.leye >= PoseConf \/ pose.reye >= PoseConf)

\* A tracklet as the dataclass makes it when only these fields are given.
Tracklet(id, box) ==
  [id |-> id, box |-> box, face |-> None, body |-> None, pose |-> None, visible |-> FALSE,
   gear |-> NotRun, quality |-> Full]

\* update: nothing while BoT-SORT has given no identities.
Tracked(raw) ==
  IF raw.tracked
  THEN [i \in 1..Len(raw.people) |->
          [Tracklet(raw.people[i].id, raw.people[i].box) EXCEPT
             !.pose = raw.people[i].pose, !.visible = FaceVisible(raw.people[i].pose)]]
  ELSE <<>>

\* The embed() of both body embedders, and _extract_body_embeddings around it:
\* too blurred, too small or out of the frame gives the embedding () and 0.0.
BodySeen(models, p) ==
  /\ models.body \in {"transreid", "osnet"}
  /\ ~EmptySlice(Clamped(p.box)) /\ p.sharp
  /\ Wide(Clamped(p.box)) >= MinBodyW /\ High(Clamped(p.box)) >= MinBodyH

\* _postprocess: the best of the candidates of an item after NMS, 0 if there is none.
BestScore(candidates) ==
  LET kept == NMS(candidates, GearConf, 45)
  IN  IF kept = <<>> THEN 0 ELSE Max({kept[i].conf : i \in 1..Len(kept)})

\* score_crop: no score for a crop that is too small or makes the model raise.
GearSeen(models, p) ==
  /\ models.ppe = "ppe" /\ ~EmptySlice(Clamped(p.box))
  /\ ~SmallerThan(Clamped(p.box), MinCrop) /\ ~p.raises
-----------------------------------------------------------------------------
(***************************************************************************)
(* Faces.  A raw face has a box, a confidence, `seen`: the networks that   *)
(* find it, `aligns`: its landmarks are not degenerate, `sharp` and        *)
(* `norm`: what the embedder measures of it, `arcface`: InsightFace has an *)
(* embedding of it.                                                        *)
(***************************************************************************)
FoundBy(raw, net) == At(raw.faces, {i \in 1..Len(raw.faces) : net \in raw.faces[i].seen})

\* Those that are not too small; of them, those from scrfd_conf on.
Large(found) == At(found, {i \in 1..Len(found) : ~SmallerThan(found[i].box, MinFace)})

LargeAbove(found) ==
  At(found, {i \in 1..Len(found) : found[i].conf >= FaceConf /\ ~SmallerThan(found[i].box, MinFace)})

AsFaces(kept, withKeypoints) ==
  [i \in 1..Len(kept) |-> [of |-> kept[i], box |-> kept[i].box, keypoints |-> withKeypoints]]

\* SCRFDDetector._decode: strictly above scrfd_conf, then NMS, then the small go.
ScrfdFaces(raw, withKeypoints) ==
  AsFaces(Large(NMS(FoundBy(raw, "scrfd"), FaceConf, 35)), withKeypoints)

\* _YoloFaceBackend._decode: from scrfd_conf on, clipped, the small go, then NMS.
ClippedFaces(found) ==
  [i \in 1..Len(found) |-> [of |-> found[i], box |-> Clipped(found[i].box), conf |-> found[i].conf]]

WithoutConf(kept) ==
  [i \in 1..Len(kept) |-> [of |-> kept[i].of, box |-> kept[i].box, keypoints |-> FALSE]]

YoloFaces(raw) ==
  WithoutConf(NMS(LargeAbove(ClippedFaces(FoundBy(raw, "yolo_face"))), FaceConf, 45))

\* _InsightFaceBackend.detect: from scrfd_conf on, the small go.
InsightFaces(raw) == AsFaces(LargeAbove(FoundBy(raw, "insightface")), FALSE)

Detected(models, raw) ==
  CASE models.detector = "scrfd_kps" -> ScrfdFaces(raw, TRUE)
    [] models.detector = "scrfd" -> ScrfdFaces(raw, FALSE)
    [] models.detector = "yolo_face" -> YoloFaces(raw)
    [] models.detector = "insightface" -> InsightFaces(raw)
    [] OTHER -> <<>>

\* AdaFaceEmbedder.embed: the aligned face, or the crop of its box where there are
\* no landmarks or only degenerate ones; None if it is small, empty or blurred.
AdaFace(f) ==
  IF \/ SmallerThan(f.box, MinFace)
     \/ ~(f.keypoints /\ f.of.aligns) /\ EmptySlice(f.box)
     \/ ~f.of.sharp
  THEN <<>>
  ELSE <<[box |-> f.box, emb |-> f.of.name, quality |-> f.of.norm]>>

\* _InsightFaceEmbedder.embed: the embedding of that face of its own detector which
\* overlaps the box best, the first of equals, if it has one.
InsightFace(f, raw) ==
  LET found == FoundBy(raw, "insightface")
      better(g, h) ==
        Common(f.box, g.box) * Union(f.box, h.box) > Common(f.box, h.box) * Union(f.box, g.box)
      best == SelectInSeq(found, LAMBDA g : /\ Common(f.box, g.box) > 0
                                            /\ \A j \in 1..Len(found) : ~better(found[j], g))
  IN  IF SmallerThan(f.box, MinFace) \/ best = 0 \/ ~found[best].arcface
      THEN <<>>
      ELSE <<[box |-> f.box, emb |-> found[best].name, quality |-> Full]>>

Embedded(models, f, raw) ==
  CASE models.embedder = "adaface" -> AdaFace(f)
    [] models.embedder = "insightface" -> InsightFace(f, raw)
    [] OTHER -> <<>>

\* The faces of a frame, those the embedder gives up on left out.
Embeddings(models, found, raw) == [i \in 1..Len(found) |-> Embedded(models, found[i], raw)]

GivenOf(embedded) == At(embedded, {i \in 1..Len(embedded) : embedded[i] # <<>>})

HeadsOf(kept) == [i \in 1..Len(kept) |-> kept[i][1]]

FacesOf(models, raw) == HeadsOf(GivenOf(Embeddings(models, Detected(models, raw), raw)))

\* _associate_faces: every face goes to all the tracklets without one whose box
\* contains its centre.
AssociateFaces(tracklets, faces) ==
  LET holders(map, f) ==
        {tracklets[i].id : i \in {j \in 1..Len(tracklets) :
           map[tracklets[j].id] = None /\ Inside(Centre(f.box), tracklets[j].box)}}
      assign(map, f) == [id \in DOMAIN map |-> IF id \in holders(map, f) THEN f.emb ELSE map[id]]
  IN  FoldLeft(assign, [id \in {tracklets[i].id : i \in 1..Len(tracklets)} |-> None], faces)
=============================================================================
