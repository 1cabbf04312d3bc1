------------------------------ MODULE MCPeople -------------------------------
(***************************************************************************)
(* Who the persons are to the face index, and to the identity engine.  A   *)
(* behaviour belongs to one of these parts, chosen at the start, or to the *)
(* rules of src/vms/identity on inputs of their own; the others rest.      *)
(*                                                                         *)
(* Enrolment: two persons with the same face, two requests at once.        *)
(* Engine: a tracklet on each of two cameras, close enough to be confused  *)
(* at once, one look, two persons to take it for, and a badge event.       *)
(* Badges: events that outgrow the stream and the batch, while the clock   *)
(* and FAISS rest.                                                         *)
(* Gallery: up to four crops come to it.  Zones: a square, cut in two, the *)
(* crossings with the cut off by up to a unit.                             *)
(***************************************************************************)
EXTENDS Enrolment, IdentityEngine, GalleryAndZones

CONSTANTS v1, p1, p2, b1

VARIABLE part

peopleVars == <<enrolmentVars, vars, galleryVars, part>>

PeopleInit ==
  /\ part \in {"enrolment", "engine", "badges", "gallery", "zones"}
  /\ EnrolmentInit /\ Init /\ GalleryInit
  /\ part # "zones" => /\ division = CHOOSE d \in Division : TRUE
                       /\ foot = CHOOSE point \in Foot \X Foot : TRUE
                       /\ error = [edge \in division.inexact |-> 0]

PeopleNext ==
  /\ UNCHANGED part
  /\ \/ part = "enrolment" /\ EnrolmentNext /\ UNCHANGED <<vars, galleryVars>>
     \/ /\ part = "engine" /\ Next /\ Len(badges') <= 1
        /\ bleUp' /\ \A i \in DOMAIN badges' : badges'[i].parses
        /\ UNCHANGED <<enrolmentVars, galleryVars>>
     \/ /\ part = "badges" /\ Next /\ Cardinality(live') <= 1
        /\ UNCHANGED <<enrolmentVars, galleryVars>> /\ now' = now /\ faiss' = faiss
     \/ part = "gallery" /\ GalleryNext /\ UNCHANGED <<enrolmentVars, vars>>

\* At rest neither consumer has anything to read.
PeopleSpec ==
  PeopleInit /\ [][PeopleNext]_peopleVars /\ EnrolmentFairness /\ Fairness

MCKey == {<<1, 1>>, <<2, 1>>}
MCSim == [v \in Vector |-> [w \in Vector |-> IF v = w THEN 100 ELSE 0]]
MCGallery == [window |-> 1, floor |-> 1, size |-> 1]
MCSettings ==
  [staleMs |-> 0, confirmedStaleMs |-> 1, confirmAfter |-> 2, margin |-> 8,
   threshold |-> [t \in {"face", "body"} |-> [c \in BOOLEAN |-> IF c THEN 60 ELSE 70]],
   gallery |-> MCGallery]
MCTransit == [pair \in {<<1, 2>>} |-> [min |-> 0, max |-> 1]]
MCBadge == [b \in {b1} |-> {p1}]

\* A gallery of two slots with a window of two; a square, cut from a point of its
\* lower edge to one of its upper edge, which are corners of it too.
MCWindows == [window |-> 2, floor |-> 1, size |-> 2]
MCDivision ==
  {[zone |-> <<<<1, 1>>, lower, <<7, 1>>, <<7, 7>>, upper, <<1, 7>>>>, from |-> 2, to |-> 5,
    inexact |-> {<<lower, upper>>, <<upper, lower>>}] :
     lower \in {<<2, 1>>, <<4, 1>>, <<7, 1>>}, upper \in {<<2, 7>>, <<5, 7>>, <<1, 7>>}}

\* Both consumers, of faiss_dirty and of the badges, catch up with their streams.
ConsumersCatchUp == CatchesUp /\ BadgesHandled
=============================================================================
