--------------------------- MODULE IdentityEngine ---------------------------
(***************************************************************************)
(* src/vms/identity/engine.py: the registry of tracklets, cross-camera     *)
(* matching and the anchoring of persons, with the BLE consumer of         *)
(* src/vms/ble/consumer.py, which anchors persons in the same registry     *)
(* from the stream of badge sightings.                                     *)
(*                                                                         *)
(* A vector is a model value; Sim gives the similarity of two as an        *)
(* integer.  FAISS is the map from a face to the person it identifies      *)
(* (the module Enrolment has the index itself).                            *)
(***************************************************************************)
EXTENDS People, IdentityRules

CONSTANTS
  Key,              \* the (camera_id, local_track_id) pairs
  Vector, NoVector, \* embeddings, faces and bodies alike; a crop without one
  Sim,              \* Sim[v][w]: cosine similarity in percent
  Quality,          \* pre-normalisation norms
  Settings,         \* thresholds and sizes, see below
  Transit,          \* reid_camera_topology_json
  Badge,            \* Badge[b]: the persons a badge may belong to
  BleMaxLen,        \* ble_stream_maxlen
  ReadCount,        \* count of the consumer's XREAD
  MaxTime, MaxGid, MaxBadges   \* bounds

\* staleMs, confirmedStaleMs; confirmAfter; margin; the thresholds of face and
\* body queries against unconfirmed and confirmed gids; gallery parameters.
ASSUME EngineAssumption ==
  /\ \A k \in Key : k[1] \in Nat
  /\ Nobody \notin Person /\ NoVector \notin Vector
  /\ \A b \in DOMAIN Badge : Badge[b] \subseteq Person
  /\ BleMaxLen \in Nat \ {0} /\ ReadCount \in Nat \ {0}
  /\ Sim \in [Vector -> [Vector -> Int]] /\ Quality \subseteq Nat
  /\ Settings \in [staleMs : Nat, confirmedStaleMs : Nat, confirmAfter : Nat, margin : Nat,
                   threshold : [{"face", "body"} -> [BOOLEAN -> Int]],
                   gallery : [window : Nat, floor : Nat, size : Nat \ {0}]]
  /\ MaxTime \in Nat /\ MaxGid \in Nat /\ MaxBadges \in Nat

VARIABLES
  registry,   \* _registry: what is known of each tracklet, if it is live
  live,       \* its keys
  nextGid,    \* uuid4: the ids handed out so far are below this one
  now,        \* the clock, in steps
  faiss,      \* the person a face vector identifies
  badges,     \* the ble_events stream: [parses, badge]
  bleLow,     \* the messages up to here are trimmed from it
  bleLast,    \* _last_id: the messages up to here are behind the consumer
  bleEnd,     \* the last message of the batch in hand
  bleUp,      \* the consumer's run() has not ended
  rows,       \* rows[n]: the rows of event n in the table ble_events that the
              \* consumer has stored since the process began
  skipped     \* history: the events it has handled without a row since then

consumerVars == <<badges, bleLow, bleLast, bleEnd, bleUp, rows, skipped>>
vars == <<registry, live, nextGid, now, faiss, consumerVars>>

Holder == DOMAIN Badge
Gallery == [slots : Seq(Vector), start : Nat, best : Int]
Entry == [gid : 0..MaxGid, person : Person \cup {Nobody}, via : {"face", "other", "none"},
          seen : Nat, faces : Gallery, bodies : Gallery, sightings : Nat]
NoEntry == [gid |-> 0, person |-> Nobody, via |-> "none", seen |-> 0,
            faces |-> EmptyGallery, bodies |-> EmptyGallery, sightings |-> 0]

TypeOK ==
  /\ registry \in [Key -> Entry] /\ live \subseteq Key
  /\ \A k \in Key \ live : registry[k] = NoEntry
  /\ nextGid \in 0..(MaxGid + 1) /\ now \in Nat
  /\ faiss \in [Vector -> Person \cup {Nobody}]
  /\ badges \in Seq([parses : BOOLEAN, badge : Holder])
  /\ bleLow \in 0..Len(badges) /\ bleEnd \in 0..Len(badges)
  /\ bleLast \in 0..bleEnd /\ bleUp \in BOOLEAN
  /\ rows \in [1..MaxBadges -> Nat] /\ skipped \subseteq 1..MaxBadges

Init ==
  /\ registry = [k \in Key |-> NoEntry] /\ live = {} /\ nextGid = 0
  /\ now = Settings.gallery.window
  /\ faiss = [v \in Vector |-> Nobody]
  /\ badges = <<>> /\ bleLow = 0 /\ bleLast = 0 /\ bleEnd = 0 /\ bleUp = TRUE
  /\ rows = [n \in 1..MaxBadges |-> 0] /\ skipped = {}
-----------------------------------------------------------------------------
(***************************************************************************)
(* Cross-camera matching                                                   *)
(***************************************************************************)

Confirmed(k) == registry[k].sightings >= Settings.confirmAfter
TTL(k) == IF Confirmed(k) THEN Settings.confirmedStaleMs ELSE Settings.staleMs
Elapsed(k) == now - registry[k].seen
Stale(k) == Elapsed(k) > TTL(k)

GalleryOf(k, type) == IF type = "face" THEN registry[k].faces.slots ELSE registry[k].bodies.slots

\* Tracklets of other cameras a query may be compared with.
Comparable(camera, type) ==
  {k \in live : /\ k[1] # camera /\ ~Stale(k)
                /\ GalleryOf(k, type) # <<>>
                /\ TransitOK(Transit, camera, k[1], Elapsed(k))}

\* _gallery_sim
Similarity(v, k, type) ==
  CHOOSE s \in {Sim[v][GalleryOf(k, type)[i]] : i \in DOMAIN GalleryOf(k, type)} :
    \A i \in DOMAIN GalleryOf(k, type) : s >= Sim[v][GalleryOf(k, type)[i]]

\* The best tracklet of each gid, with the confirmation of that tracklet.
IsBestOf(k, v, camera, type) ==
  \A j \in Comparable(camera, type) :
    registry[j].gid = registry[k].gid => Similarity(v, k, type) >= Similarity(v, j, type)

Leaders(v, camera, type) == {k \in Comparable(camera, type) : IsBestOf(k, v, camera, type)}

\* The leader k beats every other gid, by the margin; on its own it has its own
\* similarity for a margin.
Wins(k, v, camera, type) ==
  LET others == {j \in Leaders(v, camera, type) : registry[j].gid # registry[k].gid} IN
  /\ k \in Leaders(v, camera, type)
  /\ \A j \in others : Similarity(v, k, type) >= Similarity(v, j, type)
  /\ Similarity(v, k, type) >= Settings.threshold[type][Confirmed(k)]
  /\ IF others = {} THEN Similarity(v, k, type) >= Settings.margin
     ELSE \A j \in others : Similarity(v, k, type) - Similarity(v, j, type) >= Settings.margin

\* _cross_camera_match: the gids it may return (the order of the registry breaks
\* ties between equally similar tracklets).
Matches(v, camera, type) ==
  IF v = NoVector THEN {} ELSE {registry[k].gid : k \in {j \in live : Wins(j, v, camera, type)}}

\* Body first; the face only if the body finds nothing.
Candidates(camera, face, body) ==
  IF Matches(body, camera, "body") # {} THEN Matches(body, camera, "body")
  ELSE Matches(face, camera, "face")
-----------------------------------------------------------------------------
(***************************************************************************)
(* assign_and_identify                                                     *)
(***************************************************************************)

Grown(g, v, q) == IF v = NoVector THEN g ELSE Admit(g, v, q, now, Settings.gallery)

\* The entry of a tracklet after a sighting; confirmation is by count, which is
\* kept up to the number that matters.
Sighted(e, gid, face, body, q) ==
  [e EXCEPT !.gid = gid, !.seen = now,
            !.faces = Grown(@, face, q), !.bodies = Grown(@, body, q),
            !.sightings = IF {face, body} = {NoVector} \/ @ >= Settings.confirmAfter
                          THEN @ ELSE @ + 1]

\* _anchor_person_id: every entry of the gid.
Anchored(reg, keys, gid, person, how) ==
  [k \in Key |-> IF k \in keys /\ reg[k].gid = gid
                 THEN [reg[k] EXCEPT !.person = person, !.via = how] ELSE reg[k]]

\* Mutant of Identified: only the tracklet at hand learns who it is.
IdentifiedAlone(reg, keys, k, face) ==
  LET gid == reg[k].gid
      known == {reg[j].person : j \in {i \in keys : reg[i].gid = gid}} \ {Nobody}
      faceId == IF face = NoVector THEN Nobody ELSE faiss[face]
  IN  {[reg EXCEPT ![k].person = Resolve(faceId, b, Nobody, Nobody).person] :
         b \in IF known = {} THEN {Nobody} ELSE known}

\* The face as FAISS knows it, else whom the gid was anchored to; ble_person_id
\* is never passed.  An anchor that was there is renewed, not replaced.
Identified(reg, keys, k, face) ==
  LET gid == reg[k].gid
      known == {reg[j].person : j \in {i \in keys : reg[i].gid = gid}} \ {Nobody}
      faceId == IF face = NoVector THEN Nobody ELSE faiss[face]
      by == IF faceId # Nobody \/ \E j \in keys : reg[j].gid = gid /\ reg[j].via = "face"
            THEN "face" ELSE "other"
  IN  {IF Resolve(faceId, b, Nobody, Nobody).person = Nobody THEN reg
       ELSE Anchored(reg, keys, gid, Resolve(faceId, b, Nobody, Nobody).person, by) :
         b \in IF known = {} THEN {Nobody} ELSE known}

\* A tracklet that is in the registry keeps its gid.
SeeKnown(k, face, body, q) ==
  /\ k \in live
  /\ registry' \in Identified(
       [registry EXCEPT ![k] = Sighted(@, @.gid, face, body, q)], live, k, face)
  /\ UNCHANGED <<live, nextGid>>

\* A new one takes over a gid it matches, or gets one of its own.
SeeNew(k, face, body, q) ==
  /\ k \notin live /\ nextGid <= MaxGid
  /\ \E gid \in IF Candidates(k[1], face, body) = {} THEN {nextGid}
                ELSE Candidates(k[1], face, body) :
       /\ registry' \in Identified(
            [registry EXCEPT ![k] = Sighted(NoEntry, gid, face, body, q)],
            live \cup {k}, k, face)
       /\ nextGid' = IF gid = nextGid THEN nextGid + 1 ELSE nextGid
  /\ live' = live \cup {k}

See ==
  /\ \E k \in Key, face, body \in Vector \cup {NoVector}, q \in Quality :
       SeeKnown(k, face, body, q) \/ SeeNew(k, face, body, q)
  /\ UNCHANGED <<now, faiss, consumerVars>>

\* evict_stale
Evict ==
  /\ \E k \in live : Stale(k)
  /\ live' = {k \in live : ~Stale(k)}
  /\ registry' = [k \in Key |-> IF k \in live' THEN registry[k] ELSE NoEntry]
  /\ UNCHANGED <<nextGid, now, faiss, consumerVars>>
-----------------------------------------------------------------------------
(***************************************************************************)
(* The BLE consumer                                                        *)
(***************************************************************************)

\* MqttBleReader publishes what parses as JSON; other writers may add anything.
\* XADD may trim the stream down to BleMaxLen messages, but need not.
BadgeArrives ==
  /\ Len(badges) < MaxBadges
  /\ \E m \in [parses : BOOLEAN, badge : Holder] : badges' = Append(badges, m)
  /\ bleLow' \in {bleLow} \cup {n \in bleLow..Len(badges) : Len(badges) + 1 - n >= BleMaxLen}
  /\ UNCHANGED <<registry, live, nextGid, now, faiss, bleLast, bleEnd, bleUp, rows, skipped>>

\* Mutant of AnchorByBadge: a badge takes over whoever is there.
AnchorByBadgeAll(p) ==
  registry' = [k \in Key |-> IF k \in live
                             THEN [registry[k] EXCEPT !.person = p, !.via = "other"]
                             ELSE registry[k]]

\* anchor_person_by_badge: every entry that has no person, on all cameras.
AnchorByBadge(p) ==
  registry' = [k \in Key |-> IF k \in live /\ registry[k].person = Nobody
                             THEN [registry[k] EXCEPT !.person = p, !.via = "other"]
                             ELSE registry[k]]

\* The first message XREAD finds: what was trimmed unread is passed over.
Oldest == IF bleLast < bleLow THEN bleLow ELSE bleLast

\* Mutant of ReadBadges: the batch begins with the message handled last.
ReadBadgesInclusive ==
  /\ bleUp /\ bleLast = bleEnd /\ Oldest < Len(badges)
  /\ bleLast' = IF bleLow < bleLast THEN bleLast - 1 ELSE bleLow
  /\ bleEnd' = IF Oldest + ReadCount < Len(badges) THEN Oldest + ReadCount ELSE Len(badges)
  /\ UNCHANGED <<registry, live, nextGid, now, faiss, badges, bleLow, bleUp, rows, skipped>>

\* XREAD when the batch is handled: up to ReadCount messages, which are then in
\* memory whatever is trimmed.  (An empty answer is followed by another XREAD.)
ReadBadges ==
  /\ bleUp /\ bleLast = bleEnd /\ Oldest < Len(badges)
  /\ bleLast' = Oldest
  /\ bleEnd' = IF Oldest + ReadCount < Len(badges) THEN Oldest + ReadCount ELSE Len(badges)
  /\ UNCHANGED <<registry, live, nextGid, now, faiss, badges, bleLow, bleUp, rows, skipped>>

Turn == bleUp /\ bleLast < bleEnd
ThisBadge == bleLast + 1

StoreRow == rows' = [rows EXCEPT ![ThisBadge] = @ + 1] /\ UNCHANGED skipped
NoRowStored == skipped' = skipped \cup {ThisBadge} /\ UNCHANGED rows

\* Mutant of BadgeHandled: a sighting waits for somebody to anchor.
BadgeHandledIfAnchored ==
  /\ Turn /\ badges[ThisBadge].parses
  /\ \E p \in Badge[badges[ThisBadge].badge] :
       /\ \E k \in live : registry[k].person \in {Nobody, p}
       /\ AnchorByBadge(p) /\ StoreRow
  /\ bleLast' = ThisBadge
  /\ UNCHANGED <<live, nextGid, now, faiss, badges, bleLow, bleEnd, bleUp>>

\* _process: nobody active has the badge, or the lookup raises; or somebody has, is
\* anchored, and the row is committed or not.  The registry keeps the anchor of a
\* transaction that fails.
BadgeHandled ==
  /\ Turn /\ badges[ThisBadge].parses
  /\ \/ NoRowStored /\ UNCHANGED registry
     \/ \E p \in Badge[badges[ThisBadge].badge] : AnchorByBadge(p) /\ (StoreRow \/ NoRowStored)
  /\ bleLast' = ThisBadge
  /\ UNCHANGED <<live, nextGid, now, faiss, badges, bleLow, bleEnd, bleUp>>

LoopEnds ==
  /\ bleUp' = FALSE
  /\ UNCHANGED <<registry, live, nextGid, now, faiss, badges, bleLow, bleLast, bleEnd,
                 rows, skipped>>

\* from_redis_fields raises outside the try of _process: run() ends, and the
\* process stays up without it.
BadgeEnds == Turn /\ ~badges[ThisBadge].parses /\ LoopEnds

\* So it does when the XREAD raises, or the resolver or the session factory.
BadgeLoopRaises == bleUp /\ LoopEnds

\* FAISS learns or forgets a face (see Enrolment).
FaissChanges ==
  /\ \E v \in Vector, p \in Person \cup {Nobody} :
       faiss[v] # p /\ faiss' = [faiss EXCEPT ![v] = p]
  /\ UNCHANGED <<registry, live, nextGid, now, consumerVars>>

Tick ==
  /\ now < MaxTime /\ now' = now + 1
  /\ UNCHANGED <<registry, live, nextGid, faiss, consumerVars>>

\* The process starts again: the registry, the cursor and the batch are memory, so
\* the stream is read from its oldest message, and read rows are stored again.
Restart ==
  /\ live # {} \/ bleEnd # 0 \/ ~bleUp
  /\ registry' = [k \in Key |-> NoEntry] /\ live' = {}
  /\ bleLast' = 0 /\ bleEnd' = 0 /\ bleUp' = TRUE
  /\ rows' = [n \in 1..MaxBadges |-> 0] /\ skipped' = {}
  /\ UNCHANGED <<nextGid, now, faiss, badges, bleLow>>

ConsumeBadges == ReadBadges \/ BadgeHandled \/ BadgeEnds

Next ==
  \/ See \/ Evict \/ FaissChanges \/ Tick \/ Restart
  \/ BadgeArrives \/ ConsumeBadges \/ BadgeLoopRaises

Spec == Init /\ [][Next]_vars

\* The event loop runs the consumer; that nothing raises is not promised.
Fairness == WF_vars(ConsumeBadges)
-----------------------------------------------------------------------------
(***************************************************************************)
(* Properties                                                              *)
(***************************************************************************)

\* "Once resolved, person_id propagates to all tracklets sharing the gid":
\* whatever joins a gid, is evicted, seen by a badge reader or identified anew,
\* the tracklets of a gid never name different persons, and none of them is
\* left unknown while another is known.
GidAgrees ==
  \A j, k \in live : registry[j].gid = registry[k].gid => registry[j].person = registry[k].person

\* process_frame, anchor_ble and the eviction keep the registry well formed, and the
\* tracklets of a gid in agreement.
OnePersonPerGid == TypeOK /\ GidAgrees

\* A badge and a body never overwrite what a face has identified: while a
\* tracklet lives, only a face that FAISS takes for somebody else changes a
\* person known by face.
FaceIdentityStands ==
  [][\A k \in live \cap live' :
       registry[k].via = "face" =>
         \/ registry'[k].person = registry[k].person
         \/ /\ registry'[k].via = "face"
            /\ \E v \in Vector : faiss[v] = registry'[k].person]_vars

\* Each badge event is stored once in a life of the process: not before it is
\* read, not twice over the batches, and none is passed without a row unless it
\* was trimmed, or its badge is nobody's, or its transaction failed.
BadgesStoredOnce ==
  \A n \in DOMAIN badges :
    /\ rows[n] <= 1
    /\ n > bleLast => rows[n] = 0
    /\ n \in bleLow + 1 .. bleLast => (rows[n] = 1 <=> n \notin skipped)

\* While the process is not started again and its consumer goes on, no badge event
\* is left behind, however the events arrive and are trimmed.
BadgesHandled ==
  <>[]bleUp /\ <>[][~Restart]_vars => []<>(bleLast = Len(badges))
=============================================================================
