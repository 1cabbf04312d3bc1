--------------------------- MODULE GalleryAndZones ---------------------------
(***************************************************************************)
(* The rules of src/vms/identity at work: the crops of a tracklet come to  *)
(* its gallery one after another, and the foot points of tracklets to the  *)
(* zones of a camera.  A vector is the number of its crop.  Coordinates    *)
(* are counted in the unit in which the rounding errors of point_in_polygon*)
(* are counted.                                                            *)
(***************************************************************************)
EXTENDS IdentityRules

CONSTANTS
  Windows,    \* reid_quality_window_s, reid_quality_norm_floor, reid_gallery_size
  Grade,      \* pre-normalisation norms
  Pause,      \* times from one crop to the next
  FirstSeen,  \* the clock before the first crop
  MaxCrops,   \* bound
  Division,   \* zones, each cut in two from one of its corners to another, with
              \* the edges, as pairs of points, whose crossings are computed
              \* inexactly
  Foot,       \* coordinates of foot points
  Slack       \* how far off a crossing may be computed

\* Timestamps are milliseconds since 1970: the first crop is not in the window that
\* would have begun with the clock.
ASSUME InputsAssumption ==
  /\ Windows \in [window : Nat, floor : Nat, size : Nat \ {0}]
  /\ Grade \subseteq Nat /\ Pause \subseteq Nat /\ MaxCrops \in Nat
  /\ FirstSeen \in Nat /\ Windows.window <= FirstSeen
  /\ Foot \subseteq Int /\ Slack \in Nat
  /\ \A d \in Division :
       /\ d.zone \in Seq(Int \X Int)
       /\ {d.from, d.to} \subseteq 1..Len(d.zone) /\ d.from < d.to
       /\ d.inexact \subseteq (Int \X Int) \X (Int \X Int)

VARIABLES
  crops,     \* history: of the tracklet, each with its quality and its time
  gallery,   \* gallery, face_window_start_ms and face_window_best_quality
  division,  \* the choice of Division
  foot,      \* the foot point that is looked up
  error      \* the errors of its crossings with the inexact edges

galleryVars == <<crops, gallery, division, foot, error>>

GalleryInit ==
  /\ crops = <<>> /\ gallery = EmptyGallery
  /\ division \in Division /\ foot \in Foot \X Foot
  /\ error \in [division.inexact -> -Slack .. Slack]

LastTime == IF crops = <<>> THEN FirstSeen ELSE crops[Len(crops)].at

\* _update_galleries for a crop of quality q.
AddCrop(q, pause) ==
  /\ Len(crops) < MaxCrops
  /\ crops' = Append(crops, [q |-> q, at |-> LastTime + pause])
  /\ gallery' = Admit(gallery, Len(crops) + 1, q, LastTime + pause, Windows)
  /\ UNCHANGED <<division, foot, error>>

GalleryNext == \E q \in Grade, pause \in Pause : AddCrop(q, pause)

GallerySpec == GalleryInit /\ [][GalleryNext]_galleryVars
-----------------------------------------------------------------------------
(***************************************************************************)
(* Properties.                                                             *)
(***************************************************************************)

\* opened lists the crops that open a window: all those which are good enough and
\* come at least a window after the one before.
Opens(opened) ==
  /\ \A k, l \in DOMAIN opened : k < l => opened[k] < opened[l]
  /\ \A i \in DOMAIN crops :
       (\E k \in DOMAIN opened : opened[k] = i) <=>
         /\ crops[i].q >= Windows.floor
         /\ \A k \in DOMAIN opened :
              opened[k] < i => crops[i].at - crops[opened[k]].at >= Windows.window

\* The crops from the opener of window k to the next opener.
CropsOf(opened, k) ==
  {j \in opened[k]..Len(crops) : k + 1 \in DOMAIN opened => j < opened[k + 1]}

FirstBest(S) ==
  CHOOSE b \in S :
    \A j \in S : crops[j].q <= crops[b].q /\ (crops[j].q = crops[b].q => b <= j)

\* "Within each time window, only the highest-quality embedding is kept"
\* (_update_galleries): whatever crops come, the gallery is the best crops of the
\* last windows, in order, and a better crop does not prolong its window.
GalleryKeepsBest ==
  \E m \in 0..Len(crops) : \E opened \in [1..m -> 1..Len(crops)] :
    /\ Opens(opened)
    /\ gallery.slots = LastOf([k \in 1..m |-> FirstBest(CropsOf(opened, k))], Windows.size)

\* The two zones the cut makes of one.
OneSide(d) == SubSeq(d.zone, d.from, d.to)
OtherSide(d) == SubSeq(d.zone, 1, d.from) \o SubSeq(d.zone, d.to, Len(d.zone))

\* The foot point is farther to the left or to the right of the line from a to b
\* than a crossing may be off, where that edge is looked at at all.
Beside(a, b) ==
  LET off == (foot[1] - a[1]) * (b[2] - a[2]) - (b[1] - a[1]) * (foot[2] - a[2])
      tall == IF b[2] > a[2] THEN b[2] - a[2] ELSE a[2] - b[2]
  IN  (a[2] > foot[2]) # (b[2] > foot[2]) => off > Slack * tall \/ -off > Slack * tall

\* point_in_polygon on zones that share an edge, which one of them traverses
\* upwards and the other downwards: as long as rounding cannot take it across the
\* edge, a foot point of the whole is in exactly one of the two, and one outside is
\* in neither or, where the zones fold over each other, in both.  Nearer to the
\* shared edge the two computations may disagree, and it is in both or in neither.
AdjacentZonesShareNothing ==
  LET In(zone) == InPolygon(foot[1], foot[2], zone, error)
  IN  Beside(division.zone[division.from], division.zone[division.to])
        => (In(division.zone) <=> In(OneSide(division)) # In(OtherSide(division)))

\* The rules of src/vms/identity on whatever comes to the gallery and the zones.
IdentityRulesHold == GalleryKeepsBest /\ AdjacentZonesShareNothing
=============================================================================
