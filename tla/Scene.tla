------------------------------- MODULE Scene -------------------------------
(***************************************************************************)
(* What the orchestrator shows its detectors                               *)
(* (src/vms/anomaly/orchestrator.py): the zone each track is in, the zones *)
(* it has cached, the head count (src/vms/identity/head_count.py); and the *)
(* two detectors that judge it by zone, INTRUSION and CROWD_DENSITY.       *)
(*                                                                         *)
(* Time is kept as ages, which stop where they cannot matter any more; a   *)
(* frame's timestamp lags behind the clock by up to MaxLag.  Tracks are    *)
(* numbered in the order of the tracker's dict.  What becomes of a report  *)
(* is AnomalyOrchestrator's subject.                                       *)
(***************************************************************************)
EXTENDS Places, Integers, FiniteSets

CONSTANTS
  Tracks,          \* the global track ids are 1..Tracks
  NoRow, Unread,   \* a zone that is not in the table; nothing cached
  Rows,            \* Rows[z]: what z's row may say, NoRow or
                   \* [restricted, capacity, hours]
  CacheTTL,        \* zone_cache_ttl_s
  HeadTTL,         \* head_count_track_ttl_s
  MaxLag           \* bound on a frame's delay

Tracked == 1..Tracks
Hours == {"always", "never", "unset"}
AnyRow == UNION {Rows[z] : z \in Zone}

ASSUME SceneAssumption ==
  /\ Tracks \in Nat /\ CacheTTL \in Nat \ {0} /\ HeadTTL \in Nat /\ MaxLag \in Nat
  /\ Outside \notin Zone
  /\ \A z \in Zone : Rows[z] \subseteq
       {NoRow} \cup [restricted : BOOLEAN, capacity : Nat, hours : Hours]

VARIABLES
  zones,       \* the table
  heldAge,     \* history: since when the zone's row has not said this
  serving,     \* the process runs
  standing,    \* zone_tracker._current, None as Outside
  zoneCache,   \* _zone_cache, or Unread
  cacheAge,    \* how long ago it was read
  slots,       \* IntrusionDetector._slot_cache, Unread for a missing key
  seen,        \* _last_seen: [zone, age]; zone = Outside for a missing key
  byZone,      \* _by_zone
  frameAge     \* history: the age of the last frame

table == <<zones, heldAge>>
headCount == <<seen, byZone>>
caches == <<zoneCache, cacheAge, slots>>
sceneVars == <<table, serving, standing, caches, headCount, frameAge>>

\* Ages beyond the last one that some decision tells apart.
OldSeen == HeadTTL + MaxLag + 1
OldRow == CacheTTL
Older(age, limit) == IF age < limit THEN age + 1 ELSE age

Unseen == [zone |-> Outside, age |-> OldSeen]

SceneTypeOK ==
  /\ zones \in [Zone -> AnyRow] /\ serving \in BOOLEAN
  /\ heldAge \in [Zone -> [AnyRow -> 0..OldRow]]
  /\ standing \in [Tracked -> Place]
  /\ zoneCache \in [Zone -> AnyRow] \cup {Unread} /\ cacheAge \in 0..CacheTTL
  /\ slots \in [Zone -> Hours \cup {Unread}]
  /\ seen \in [Tracked -> [zone : Place, age : 0..OldSeen]]
  /\ \A g \in Tracked : seen[g].zone = Outside => seen[g] = Unseen
  /\ byZone \in [Zone -> SUBSET Tracked]
  /\ frameAge \in 0..OldSeen

SceneInit ==
  /\ zones \in {t \in [Zone -> AnyRow] : \A z \in Zone : t[z] \in Rows[z]}
  /\ heldAge = [z \in Zone |-> [r \in AnyRow |-> IF r = zones[z] THEN 0 ELSE OldRow]]
  /\ serving = TRUE
  /\ standing = [g \in Tracked |-> Outside]
  /\ zoneCache = Unread /\ cacheAge = 0 /\ slots = [z \in Zone |-> Unread]
  /\ seen = [g \in Tracked |-> Unseen] /\ byZone = [z \in Zone |-> {}]
  /\ frameAge = OldSeen
-----------------------------------------------------------------------------
(***************************************************************************)
(* The environment: the table, the writer's tracker, time                  *)
(***************************************************************************)

EditZone(z) ==
  /\ \E r \in Rows[z] \ {zones[z]} :
       /\ zones' = [zones EXCEPT ![z] = r]
       /\ heldAge' = [heldAge EXCEPT ![z][zones[z]] = 0, ![z][r] = 0]
  /\ UNCHANGED <<serving, standing, caches, headCount, frameAge>>

\* ZonePresenceTracker.update; dict order is the order of first arrival.
Move(g, place) ==
  /\ serving /\ place # standing[g]
  /\ standing' = [standing EXCEPT ![g] = place]
  /\ UNCHANGED <<table, serving, caches, headCount, frameAge>>

Tick ==
  /\ heldAge' = [z \in Zone |-> [r \in AnyRow |->
       IF r = zones[z] THEN 0 ELSE Older(heldAge[z][r], OldRow)]]
  /\ cacheAge' = Older(cacheAge, CacheTTL)
  /\ seen' = [g \in Tracked |-> [seen[g] EXCEPT !.age = Older(@, OldSeen)]]
  /\ frameAge' = Older(frameAge, OldSeen)
  /\ UNCHANGED <<zones, serving, standing, zoneCache, slots, byZone>>
-----------------------------------------------------------------------------
(***************************************************************************)
(* The context of a frame                                                  *)
(***************************************************************************)

\* Mutant of ZoneLookup: what is cached is never read again.
ZoneLookupOnce == IF zoneCache = Unread THEN zones ELSE zoneCache

\* _zone_lookup: read again after zone_cache_ttl_s.
ZoneLookup == IF zoneCache = Unread \/ cacheAge >= CacheTTL THEN zones ELSE zoneCache

CountsByZone == [z \in Zone |-> Cardinality(byZone[z])]

\* on_tracking_event, for each track that is in a zone.
Fed(lag) ==
  [g \in Tracked |-> IF standing[g] = Outside THEN seen[g]
                     ELSE [zone |-> standing[g], age |-> lag]]

\* Mutant of FedZones: a track that changes zones is not taken out of the old.
FedZonesKeepsOld == [z \in Zone |-> byZone[z] \cup {g \in Tracked : standing[g] = z}]

FedZones ==
  [z \in Zone |->
    (byZone[z] \ {g \in Tracked : standing[g] # Outside /\ seen[g].zone = z})
      \cup {g \in Tracked : standing[g] = z}]

\* Mutant of Stale: what is stale is found out before the frame is fed.
StaleBeforeFeed(after, lag) ==
  {g \in Tracked : seen[g].zone # Outside /\ seen[g].age > lag + HeadTTL}

\* evict_stale: last seen more than HeadTTL before this frame.
Stale(after, lag) ==
  {g \in Tracked : after[g].zone # Outside /\ after[g].age > lag + HeadTTL}

Feed(lag) ==
  LET after == Fed(lag)
      gone == Stale(after, lag)
  IN /\ seen' = [g \in Tracked |-> IF g \in gone THEN Unseen ELSE after[g]]
     /\ byZone' = [z \in Zone |->
          FedZones[z] \ {g \in gone : after[g].zone = z}]
-----------------------------------------------------------------------------
(***************************************************************************)
(* The detectors, which see the zones as looked up and the head count as   *)
(* it was before the frame is fed to it.                                   *)
(***************************************************************************)

Restricted(g) ==
  /\ standing[g] # Outside
  /\ LET row == ZoneLookup[standing[g]] IN row # NoRow /\ row.restricted

\* _slots_for: the hours a zone had when it was first judged.
SlotsFor(z) == IF slots[z] # Unread THEN slots[z] ELSE ZoneLookup[z].hours

Violates(g) == Restricted(g) /\ SlotsFor(standing[g]) # "always"
HiddenBy(g) == {h \in 1..(g - 1) : Violates(h)}

\* IntrusionDetector.evaluate returns at the first track that violates.
Intruders == {g \in Tracked : Violates(g) /\ HiddenBy(g) = {}}

\* The zones whose hours it has looked at by then.
Consulted == {standing[g] : g \in {g \in Tracked : Restricted(g) /\ HiddenBy(g) = {}}}

\* CrowdDensityDetector.evaluate returns at the first zone over its capacity;
\* their order is that of the head count's dict, any order.
Overfull ==
  {z \in Zone : ZoneLookup[z] # NoRow /\ CountsByZone[z] > ZoneLookup[z].capacity}

ProcessFrame(lag) ==
  /\ serving
  /\ zoneCache' = ZoneLookup
  /\ cacheAge' = IF zoneCache = Unread \/ cacheAge >= CacheTTL THEN 0 ELSE cacheAge
  /\ Feed(lag)
  /\ slots' = [z \in Zone |-> IF z \in Consulted THEN SlotsFor(z) ELSE slots[z]]
  /\ frameAge' = lag
  /\ UNCHANGED <<table, serving, standing>>

\* The process dies or comes back; all it knew was in memory.
Restart ==
  /\ serving' = ~serving
  /\ standing' = [g \in Tracked |-> Outside]
  /\ zoneCache' = Unread /\ cacheAge' = 0 /\ slots' = [z \in Zone |-> Unread]
  /\ seen' = [g \in Tracked |-> Unseen] /\ byZone' = [z \in Zone |-> {}]
  /\ frameAge' = OldSeen
  /\ UNCHANGED table

Process == \E lag \in 0..MaxLag : ProcessFrame(lag)

SceneNext ==
  \/ \E z \in Zone : EditZone(z)
  \/ \E g \in Tracked, place \in Place : Move(g, place)
  \/ Tick \/ Process \/ Restart

SceneSpec == SceneInit /\ [][SceneNext]_sceneVars

\* Frames keep coming, the loop runs and time passes.
FairSceneSpec == SceneSpec /\ WF_sceneVars(Process) /\ WF_sceneVars(Tick)
-----------------------------------------------------------------------------
(***************************************************************************)
(* Properties                                                              *)
(***************************************************************************)

\* HeadCountAggregator keeps two structures by hand: across moves, evictions
\* and late frames, a track is in the one zone it was last seen in and no other,
\* so that a count by zone has nobody twice.
CountedOnce == \A z \in Zone : byZone[z] = {g \in Tracked : seen[g].zone = z}

\* The head count across moves, evictions, late frames and restarts: well formed,
\* and nobody is counted twice.
HeadsCountedOnce == SceneTypeOK /\ CountedOnce

\* After a frame, every track that is in a zone is counted there, and whoever
\* has left his zones stays counted for head_count_track_ttl_s at most, by the
\* time of the frames, whose order is not that of the stream.
CountsWhoWasThere ==
  [][\A g \in Tracked :
       /\ Process /\ standing[g] # Outside => seen'[g].zone = standing[g]
       /\ seen'[g].zone # Outside => seen'[g].age <= frameAge' + HeadTTL]_sceneVars

\* A frame is judged by zones that said so within the last zone_cache_ttl_s
\* (their hours excepted, which IntrusionDetector reads once).
JudgedByRecentZones ==
  [][Process => \A z \in Zone : heldAge[z][zoneCache'[z]] < CacheTTL]_sceneVars

\* What a frame finds in the orchestrator's two memories, the head count and the zone
\* cache, is no older than head_count_track_ttl_s and zone_cache_ttl_s allow.
FramesSeeTheRecent == CountsWhoWasThere /\ JudgedByRecentZones

\* He is in a zone that the table forbids to him.
Trespasses(g) ==
  /\ serving /\ standing[g] # Outside /\ zones[standing[g]] # NoRow
  /\ zones[standing[g]].restricted /\ zones[standing[g]].hours # "always"

\* README.md:243, "restricted zone + outside allowed_hours": who stays in a zone that
\* stays forbidden to him is reported by every frame in the end, or somebody before
\* him in the tracker's dict is, who hides him.
TrespasserReported ==
  \A g \in Tracked : <>[]Trespasses(g) => <>[](Intruders \cap 1..g # {})

\* No restricted zone is open to everybody.
NoneOpen ==
  \A z \in Zone : zones[z] # NoRow /\ zones[z].restricted => zones[z].hours # "always"

\* It is so as long as no restricted zone has been open since the process came up, for
\* then IntrusionDetector has no such hours to remember (_slot_cache is never dropped):
\* the zone may be deleted and created anew under his feet.
UnlessOpenedBefore ==
  []NoneOpen \/ <>(~serving /\ []NoneOpen) => TrespasserReported

\* A zone that stays over its capacity is reported by every frame in the end,
\* or another one is, which hides it: whoever stands still stays counted.
Overcrowded(z) ==
  /\ serving /\ zones[z] # NoRow
  /\ Cardinality({g \in Tracked : standing[g] = z}) > zones[z].capacity

OvercrowdingReported ==
  \A z \in Zone : <>[]Overcrowded(z) => <>[](Overfull # {})

\* What goes on is reported in the end, by the detectors that judge by zone, whatever
\* becomes of zones, caches, process and everybody else meanwhile.
OffendersReported == UnlessOpenedBefore /\ OvercrowdingReported
=============================================================================
