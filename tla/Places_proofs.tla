--------------------------- MODULE Places_proofs ----------------------------
(***************************************************************************)
(* Who is in which zone, for any numbers of tracks, zones and frames: to   *)
(* the head count and the detectors (Scene), and to the table the writer   *)
(* fills (TrackWriter).                                                    *)
(***************************************************************************)
EXTENDS Scene, TrackWriter, SequenceTheorems, TLAPS

-----------------------------------------------------------------------------
(***************************************************************************)
(* The scene: a track is counted in one place, and for no longer than the  *)
(* TTL; a frame is judged by zones and tracks that are recent.             *)
(***************************************************************************)

\* A track that is counted was seen head_count_track_ttl_s before the last frame at most.
SeenLately ==
  \A g \in Tracked : seen[g].zone # Outside => seen[g].age <= frameAge + HeadTTL

\* What the table says now has not aged, and what was read of it no more than
\* the reading.
RowsHeld ==
  /\ \A z \in Zone : heldAge[z][zones[z]] = 0
  /\ zoneCache # Unread /\ cacheAge < CacheTTL =>
       \A z \in Zone : heldAge[z][zoneCache[z]] <= cacheAge

SceneInv == SceneTypeOK /\ CountedOnce /\ SeenLately /\ RowsHeld

SeenType == [zone : Place, age : 0..OldSeen]

LEMMA InitSceneInv == SceneInit => SceneInv
<1> SUFFICES ASSUME SceneInit
             PROVE  SceneInv
  OBVIOUS
<1> USE SceneAssumption
<1>1. /\ OldSeen \in Nat /\ OldRow \in Nat /\ CacheTTL \in Nat
      /\ Unseen \in SeenType /\ Unseen.zone = Outside
  BY DEF OldSeen, OldRow, Unseen, SeenType, Place
<1>2. zones \in [Zone -> AnyRow]
  BY DEF SceneInit
<1>3. heldAge \in [Zone -> [AnyRow -> 0..OldRow]] /\ \A z \in Zone : heldAge[z][zones[z]] = 0
  BY <1>1, <1>2 DEF SceneInit
<1>4. standing \in [Tracked -> Place] /\ slots \in [Zone -> Hours \cup {Unread}]
  BY DEF SceneInit, Place
<1>5. /\ seen \in [Tracked -> SeenType] /\ \A g \in Tracked : seen[g] = Unseen
      /\ byZone = [z \in Zone |-> {}] /\ frameAge = OldSeen
  BY <1>1 DEF SceneInit
<1>6. SceneTypeOK
  BY <1>1, <1>2, <1>3, <1>4, <1>5 DEF SceneInit, SceneTypeOK, SeenType
<1>7. CountedOnce /\ SeenLately
  BY <1>1, <1>5 DEF CountedOnce, SeenLately
<1>8. RowsHeld
  BY <1>3 DEF SceneInit, RowsHeld
<1> QED
  BY <1>6, <1>7, <1>8 DEF SceneInv
-----------------------------------------------------------------------------
(***************************************************************************)
(* The environment                                                         *)
(***************************************************************************)
LEMMA EditStep ==
  ASSUME SceneInv, NEW z \in Zone, EditZone(z)
  PROVE  SceneInv'
<1> USE SceneAssumption
<1>1. PICK r \in Rows[z] :
        /\ zones' = [zones EXCEPT ![z] = r]
        /\ heldAge' = [heldAge EXCEPT ![z][zones[z]] = 0, ![z][r] = 0]
  BY DEF EditZone
<1>2. UNCHANGED <<serving, standing, caches, headCount, frameAge>>
  BY DEF EditZone
<1>3. r \in AnyRow /\ zones \in [Zone -> AnyRow] /\ OldRow \in Nat
      /\ heldAge \in [Zone -> [AnyRow -> 0..OldRow]]
  BY DEF AnyRow, SceneInv, SceneTypeOK, OldRow
<1>4. zones' \in [Zone -> AnyRow]
  BY <1>1, <1>3
<1>5. /\ heldAge' \in [Zone -> [AnyRow -> 0..OldRow]]
      /\ heldAge'[z][r] = 0
      /\ \A y \in Zone, q \in AnyRow : heldAge'[y][q] = 0 \/ heldAge'[y][q] = heldAge[y][q]
      /\ \A y \in Zone \ {z} : heldAge'[y] = heldAge[y] /\ zones'[y] = zones[y]
  <2> DEFINE left == [heldAge[z] EXCEPT ![zones[z]] = 0]
             both == [left EXCEPT ![r] = 0]
  <2>1. zones[z] \in AnyRow /\ heldAge[z] \in [AnyRow -> 0..OldRow]
    BY <1>3
  <2>2. left \in [AnyRow -> 0..OldRow]
    BY <1>3, <2>1
  <2>3. /\ both \in [AnyRow -> 0..OldRow] /\ both[r] = 0
        /\ \A q \in AnyRow : both[q] = 0 \/ both[q] = heldAge[z][q]
    BY <1>3, <2>1, <2>2
  <2>4. heldAge' = [heldAge EXCEPT ![z] = both]
    BY <1>1, <1>3
  <2> HIDE DEF both
  <2> QED
    BY <1>1, <1>3, <2>3, <2>4
<1>6. SceneTypeOK'
  BY <1>2, <1>4, <1>5 DEF SceneInv, SceneTypeOK, caches, headCount
<1>7. CountedOnce' /\ SeenLately'
  BY <1>2 DEF SceneInv, CountedOnce, SeenLately, headCount
<1>8. RowsHeld'
  <2>1. \A y \in Zone : heldAge'[y][zones'[y]] = 0
    BY <1>1, <1>3, <1>5 DEF SceneInv, RowsHeld
  <2>2. ASSUME zoneCache # Unread, cacheAge < CacheTTL, NEW y \in Zone
        PROVE  heldAge'[y][zoneCache[y]] <= cacheAge
    <3>1. zoneCache[y] \in AnyRow /\ cacheAge \in Nat
      BY <2>2 DEF SceneInv, SceneTypeOK
    <3> QED
      BY <1>5, <2>2, <3>1 DEF SceneInv, RowsHeld
  <2> QED
    BY <1>2, <2>1, <2>2 DEF RowsHeld, caches
<1> QED
  BY <1>6, <1>7, <1>8 DEF SceneInv

LEMMA MoveStep ==
  ASSUME SceneInv, NEW g \in Tracked, NEW place \in Place, Move(g, place)
  PROVE  SceneInv'
<1>1. UNCHANGED <<table, serving, caches, headCount, frameAge>>
  BY DEF Move
<1>2. standing' \in [Tracked -> Place]
  BY DEF Move, SceneInv, SceneTypeOK
<1>3. SceneTypeOK'
  BY <1>1, <1>2 DEF SceneInv, SceneTypeOK, table, caches, headCount
<1> QED
  BY <1>1, <1>3 DEF SceneInv, CountedOnce, SeenLately, RowsHeld, table, caches, headCount

LEMMA OlderAges ==
  ASSUME NEW limit \in Nat, NEW age \in 0..limit
  PROVE  /\ Older(age, limit) \in 0..limit /\ Older(age, limit) <= age + 1
         /\ Older(age, limit) = age + 1 \/ Older(age, limit) = limit
BY DEF Older

LEMMA TickStep ==
  ASSUME SceneInv, Tick
  PROVE  SceneInv'
<1> USE SceneAssumption
<1>1. OldRow \in Nat /\ OldSeen \in Nat /\ CacheTTL \in Nat
  BY DEF OldRow, OldSeen
<1>2. /\ UNCHANGED <<zones, serving, standing, zoneCache, slots, byZone>>
      /\ cacheAge' = Older(cacheAge, CacheTTL) /\ frameAge' = Older(frameAge, OldSeen)
  BY DEF Tick
<1>3. /\ heldAge \in [Zone -> [AnyRow -> 0..OldRow]] /\ zones \in [Zone -> AnyRow]
      /\ cacheAge \in 0..CacheTTL /\ frameAge \in 0..OldSeen
      /\ seen \in [Tracked -> SeenType]
      /\ \A g \in Tracked : seen[g].zone = Outside => seen[g] = Unseen
  BY DEF SceneInv, SceneTypeOK, SeenType
<1>4. /\ heldAge' \in [Zone -> [AnyRow -> 0..OldRow]]
      /\ \A z \in Zone : heldAge'[z][zones[z]] = 0
      /\ \A z \in Zone, r \in AnyRow : heldAge'[z][r] <= heldAge[z][r] + 1
  <2>1. ASSUME NEW z \in Zone, NEW r \in AnyRow
        PROVE  /\ (IF r = zones[z] THEN 0 ELSE Older(heldAge[z][r], OldRow)) \in 0..OldRow
               /\ (IF r = zones[z] THEN 0 ELSE Older(heldAge[z][r], OldRow)) <= heldAge[z][r] + 1
    <3>1. heldAge[z][r] \in 0..OldRow
      BY <1>3
    <3>2. /\ Older(heldAge[z][r], OldRow) \in 0..OldRow
          /\ Older(heldAge[z][r], OldRow) <= heldAge[z][r] + 1
      BY <1>1, <3>1, OlderAges
    <3> QED
      BY <1>1, <3>1, <3>2
  <2>2. heldAge' = [z \in Zone |-> [r \in AnyRow |->
          IF r = zones[z] THEN 0 ELSE Older(heldAge[z][r], OldRow)]]
    BY DEF Tick
  <2>3. heldAge' \in [Zone -> [AnyRow -> 0..OldRow]]
    BY <2>1, <2>2
  <2>4. \A z \in Zone, r \in AnyRow :
          heldAge'[z][r] = IF r = zones[z] THEN 0 ELSE Older(heldAge[z][r], OldRow)
    BY <2>2
  <2> QED
    BY <1>3, <2>1, <2>3, <2>4
<1>5. /\ seen' \in [Tracked -> SeenType]
      /\ \A g \in Tracked : /\ seen'[g].zone = seen[g].zone
                            /\ seen'[g].age = Older(seen[g].age, OldSeen)
      /\ \A g \in Tracked : seen'[g].zone = Outside => seen'[g] = Unseen
  <2>1. \A g \in Tracked :
          /\ seen[g].zone \in Place /\ seen[g].age \in 0..OldSeen
          /\ Older(seen[g].age, OldSeen) \in 0..OldSeen
    BY <1>1, <1>3, OlderAges DEF SeenType
  <2>2. seen' = [g \in Tracked |-> [seen[g] EXCEPT !.age = Older(seen[g].age, OldSeen)]]
    BY DEF Tick
  <2>3. \A g \in Tracked : [seen[g] EXCEPT !.age = Older(seen[g].age, OldSeen)]
          = [zone |-> seen[g].zone, age |-> Older(seen[g].age, OldSeen)]
    BY <1>3 DEF SeenType
  <2>4. \A g \in Tracked :
          seen'[g] = [zone |-> seen[g].zone, age |-> Older(seen[g].age, OldSeen)]
    BY <2>2, <2>3
  <2>5. seen' \in [Tracked -> SeenType]
    BY <2>1, <2>2, <2>3 DEF SeenType
  <2>6. Unseen = [zone |-> Outside, age |-> OldSeen] /\ Older(OldSeen, OldSeen) = OldSeen
    BY <1>1 DEF Unseen, Older
  <2>7. ASSUME NEW g \in Tracked, seen'[g].zone = Outside
        PROVE  seen'[g] = Unseen
    <3>0. seen'[g] = [zone |-> seen[g].zone, age |-> Older(seen[g].age, OldSeen)]
      BY <2>4
    <3>1. seen[g].zone = Outside
      BY <2>7, <3>0
    <3>2. seen[g] = Unseen
      BY <1>3, <3>1
    <3>3. seen[g].age = OldSeen
      BY <2>6, <3>2
    <3> QED
      BY <2>4, <2>6, <3>1, <3>3
  <2> QED
    BY <2>4, <2>5, <2>7
<1>6. SceneTypeOK'
  <2>1. cacheAge' \in 0..CacheTTL /\ frameAge' \in 0..OldSeen
    BY <1>1, <1>2, <1>3, OlderAges
  <2> QED
    BY <1>2, <1>4, <1>5, <2>1 DEF SceneInv, SceneTypeOK, SeenType
<1>7. CountedOnce'
  BY <1>2, <1>5 DEF SceneInv, CountedOnce
<1>8. SeenLately'
  <2> SUFFICES ASSUME NEW g \in Tracked, seen'[g].zone # Outside
               PROVE  seen'[g].age <= frameAge' + HeadTTL
    BY DEF SeenLately
  <2>1. seen[g].age \in 0..OldSeen /\ seen[g].age <= frameAge + HeadTTL
    BY <1>3, <1>5 DEF SceneInv, SeenLately, SeenType
  <2>2. seen'[g].age \in 0..OldSeen /\ seen'[g].age <= seen[g].age + 1
    BY <1>1, <1>5, <2>1, OlderAges
  <2>3. frameAge' = frameAge + 1 \/ frameAge' = OldSeen
    BY <1>1, <1>2, <1>3, OlderAges
  <2> QED
    BY <1>1, <1>3, <2>1, <2>2, <2>3
<1>9. RowsHeld'
  <2> SUFFICES ASSUME zoneCache # Unread, cacheAge' < CacheTTL, NEW z \in Zone
               PROVE  heldAge'[z][zoneCache[z]] <= cacheAge'
    BY <1>2, <1>4 DEF RowsHeld
  <2>1. cacheAge' = cacheAge + 1 /\ cacheAge < CacheTTL
    <3>1. cacheAge' = cacheAge + 1 \/ cacheAge' = CacheTTL
      BY <1>1, <1>2, <1>3, OlderAges
    <3> QED
      BY <1>1, <1>3, <3>1
  <2>2. zoneCache[z] \in AnyRow
    BY DEF SceneInv, SceneTypeOK
  <2>3. heldAge[z][zoneCache[z]] <= cacheAge /\ heldAge[z][zoneCache[z]] \in Nat
    BY <1>3, <2>1, <2>2 DEF SceneInv, RowsHeld
  <2>4. heldAge'[z][zoneCache[z]] <= heldAge[z][zoneCache[z]] + 1
    BY <1>4, <2>2
  <2>5. heldAge'[z][zoneCache[z]] \in Nat
    BY <1>4, <2>2
  <2> QED
    BY <1>3, <2>1, <2>3, <2>4, <2>5
<1> QED
  BY <1>6, <1>7, <1>8, <1>9 DEF SceneInv
-----------------------------------------------------------------------------
(***************************************************************************)
(* A frame                                                                 *)
(***************************************************************************)
LEMMA LookedUp ==
  ASSUME SceneInv
  PROVE  /\ ZoneLookup \in [Zone -> AnyRow]
         /\ \A z \in Zone : heldAge[z][ZoneLookup[z]] < CacheTTL
<1> USE SceneAssumption
<1>1. /\ zones \in [Zone -> AnyRow] /\ heldAge \in [Zone -> [AnyRow -> 0..OldRow]]
      /\ zoneCache \in [Zone -> AnyRow] \cup {Unread} /\ cacheAge \in 0..CacheTTL
      /\ RowsHeld
  BY DEF SceneInv, SceneTypeOK
<1>2. CASE zoneCache = Unread \/ cacheAge >= CacheTTL
  <2>1. ZoneLookup = zones
    BY <1>2 DEF ZoneLookup
  <2> QED
    BY <1>1, <2>1 DEF RowsHeld
<1>3. CASE ~(zoneCache = Unread \/ cacheAge >= CacheTTL)
  <2>1. ZoneLookup = zoneCache /\ zoneCache \in [Zone -> AnyRow] /\ cacheAge < CacheTTL
    BY <1>1, <1>3 DEF ZoneLookup
  <2>2. \A z \in Zone : heldAge[z][zoneCache[z]] <= cacheAge
    BY <1>1, <1>3, <2>1 DEF RowsHeld
  <2>3. ASSUME NEW z \in Zone
        PROVE  heldAge[z][zoneCache[z]] \in 0..OldRow
    <3>1. heldAge[z] \in [AnyRow -> 0..OldRow] /\ zoneCache[z] \in AnyRow
      BY <1>1, <2>1
    <3> QED
      BY <3>1
  <2> QED
    BY <1>1, <2>1, <2>2, <2>3 DEF OldRow
<1> QED
  BY <1>2, <1>3

\* Hours are only read of rows.
LEMMA HoursRead ==
  ASSUME SceneInv, NEW z \in Consulted
  PROVE  z \in Zone /\ SlotsFor(z) \in Hours
<1>1. PICK g \in Tracked : z = standing[g] /\ Restricted(g)
  BY DEF Consulted
<1>2. z \in Zone /\ ZoneLookup[z] # NoRow
  BY <1>1 DEF Restricted, SceneInv, SceneTypeOK, Place
<1>3. ZoneLookup[z] \in [restricted : BOOLEAN, capacity : Nat, hours : Hours]
  <2>1. ZoneLookup[z] \in AnyRow
    BY <1>2, LookedUp
  <2>2. PICK y \in Zone : ZoneLookup[z] \in Rows[y]
    BY <2>1 DEF AnyRow
  <2> QED
    BY <1>2, <2>2, SceneAssumption
<1>4. ZoneLookup[z].hours \in Hours
  BY <1>3
<1> QED
  BY <1>2, <1>4 DEF SlotsFor, SceneInv, SceneTypeOK

\* What Feed does to one track.
LEMMA FedTrack ==
  ASSUME SceneInv, NEW lag \in 0..MaxLag, Feed(lag), NEW g \in Tracked
  PROVE  /\ Fed(lag)[g] \in SeenType
         /\ Fed(lag)[g] = (IF standing[g] = Outside THEN seen[g]
                           ELSE [zone |-> standing[g], age |-> lag])
         /\ seen'[g] = (IF g \in Stale(Fed(lag), lag) THEN Unseen ELSE Fed(lag)[g])
         /\ seen'[g] \in SeenType
         /\ seen'[g].zone = Outside => seen'[g] = Unseen
         /\ seen'[g].zone # Outside => seen'[g].age <= lag + HeadTTL
         /\ standing[g] # Outside => seen'[g].zone = standing[g]
<1> USE SceneAssumption
<1>1. /\ OldSeen \in Nat /\ lag \in 0..OldSeen
      /\ Unseen \in SeenType /\ Unseen.zone = Outside
  BY DEF OldSeen, Unseen, SeenType, Place
<1>2. /\ seen[g] \in SeenType /\ standing[g] \in Place
      /\ seen[g].zone = Outside => seen[g] = Unseen
  BY DEF SceneInv, SceneTypeOK, SeenType
<1>3. Fed(lag)[g] = (IF standing[g] = Outside THEN seen[g]
                     ELSE [zone |-> standing[g], age |-> lag])
  BY DEF Fed
<1>4. /\ Fed(lag)[g] \in SeenType
      /\ standing[g] # Outside => Fed(lag)[g].zone = standing[g] /\ Fed(lag)[g].age = lag
      /\ Fed(lag)[g].zone = Outside => Fed(lag)[g] = Unseen
  BY <1>1, <1>2, <1>3 DEF SeenType
<1>5. seen'[g] = (IF g \in Stale(Fed(lag), lag) THEN Unseen ELSE Fed(lag)[g])
  BY DEF Feed
<1>6. g \in Stale(Fed(lag), lag) <=>
        Fed(lag)[g].zone # Outside /\ Fed(lag)[g].age > lag + HeadTTL
  BY DEF Stale
<1>7. Fed(lag)[g].age \in Nat
  BY <1>1, <1>4 DEF SeenType
<1> QED
  BY <1>1, <1>3, <1>4, <1>5, <1>6, <1>7

\* The two structures of the head count move together.
LEMMA FedZone ==
  ASSUME SceneInv, NEW lag \in 0..MaxLag, Feed(lag), NEW z \in Zone
  PROVE  byZone'[z] = {g \in Tracked : seen'[g].zone = z}
<1> DEFINE after == Fed(lag)
           gone == Stale(after, lag)
<1>1. z # Outside /\ Unseen.zone = Outside
  BY SceneAssumption DEF Unseen
<1>2. byZone[z] = {g \in Tracked : seen[g].zone = z}
  BY DEF SceneInv, CountedOnce
<1>3. FedZones[z] = {g \in Tracked : after[g].zone = z}
  <2>1. FedZones[z] = (byZone[z] \ {g \in Tracked : standing[g] # Outside /\ seen[g].zone = z})
                        \cup {g \in Tracked : standing[g] = z}
    BY DEF FedZones
  <2>2. \A g \in Tracked : after[g].zone = IF standing[g] = Outside THEN seen[g].zone
                                                                    ELSE standing[g]
    BY DEF Fed
  <2> HIDE DEF after
  <2> QED
    BY <1>1, <1>2, <2>1, <2>2
<1>4. byZone'[z] = FedZones[z] \ {g \in gone : after[g].zone = z}
  BY DEF Feed
<1>5. \A g \in Tracked : seen'[g] = IF g \in gone THEN Unseen ELSE after[g]
  BY FedTrack
<1> HIDE DEF after, gone
<1> QED
  BY <1>1, <1>3, <1>4, <1>5

LEMMA FrameStep ==
  ASSUME SceneInv, NEW lag \in 0..MaxLag, ProcessFrame(lag)
  PROVE  SceneInv'
<1> USE SceneAssumption
<1>1. /\ zoneCache' = ZoneLookup /\ Feed(lag) /\ frameAge' = lag
      /\ cacheAge' = (IF zoneCache = Unread \/ cacheAge >= CacheTTL THEN 0 ELSE cacheAge)
      /\ slots' = [z \in Zone |-> IF z \in Consulted THEN SlotsFor(z) ELSE slots[z]]
      /\ UNCHANGED <<zones, heldAge, serving, standing>>
  BY DEF ProcessFrame, table
<1>2. slots' \in [Zone -> Hours \cup {Unread}]
  BY <1>1, HoursRead DEF SceneInv, SceneTypeOK
<1>3. seen' \in [Tracked -> SeenType] /\ byZone' \in [Zone -> SUBSET Tracked]
  <2>1. seen' = [g \in Tracked |-> seen'[g]] /\ byZone' = [z \in Zone |-> byZone'[z]]
    BY <1>1 DEF Feed
  <2>2. \A g \in Tracked : seen'[g] \in SeenType
    BY <1>1, FedTrack
  <2>3. \A z \in Zone : byZone'[z] \in SUBSET Tracked
    BY <1>1, FedZone
  <2> QED
    BY <2>1, <2>2, <2>3
<1>4. /\ zoneCache' \in [Zone -> AnyRow] \cup {Unread} /\ cacheAge' \in 0..CacheTTL
      /\ frameAge' \in 0..OldSeen
  BY <1>1, LookedUp DEF SceneInv, SceneTypeOK, OldSeen
<1>5. \A g \in Tracked : seen'[g].zone = Outside => seen'[g] = Unseen
  BY <1>1, FedTrack
<1>6. SceneTypeOK'
  BY <1>1, <1>2, <1>3, <1>4, <1>5 DEF SceneInv, SceneTypeOK, SeenType
<1>7. CountedOnce'
  BY <1>1, FedZone DEF CountedOnce
<1>8. SeenLately'
  BY <1>1, FedTrack DEF SeenLately
<1>9. RowsHeld'
  <2>1. CASE zoneCache = Unread \/ cacheAge >= CacheTTL
    BY <1>1, <2>1 DEF SceneInv, RowsHeld, ZoneLookup
  <2>2. CASE ~(zoneCache = Unread \/ cacheAge >= CacheTTL)
    BY <1>1, <2>2 DEF SceneInv, RowsHeld, ZoneLookup
  <2> QED
    BY <2>1, <2>2
<1> QED
  BY <1>6, <1>7, <1>8, <1>9 DEF SceneInv

LEMMA RestartScene ==
  ASSUME SceneInv, Restart
  PROVE  SceneInv'
<1> USE SceneAssumption
<1>1. /\ OldSeen \in Nat /\ CacheTTL \in Nat /\ Unseen \in SeenType /\ Unseen.zone = Outside
  BY DEF OldSeen, Unseen, SeenType, Place
<1>2. /\ standing' \in [Tracked -> Place] /\ slots' \in [Zone -> Hours \cup {Unread}]
      /\ zoneCache' = Unread /\ cacheAge' = 0 /\ frameAge' = OldSeen
      /\ UNCHANGED <<zones, heldAge>> /\ serving' \in BOOLEAN
  BY DEF Restart, table, Place
<1>3. /\ seen' \in [Tracked -> SeenType] /\ \A g \in Tracked : seen'[g] = Unseen
      /\ byZone' \in [Zone -> SUBSET Tracked] /\ \A z \in Zone : byZone'[z] = {}
  BY <1>1 DEF Restart
<1>4. SceneTypeOK'
  BY <1>1, <1>2, <1>3 DEF SceneInv, SceneTypeOK, SeenType
<1>5. CountedOnce' /\ SeenLately' /\ RowsHeld'
  BY <1>1, <1>2, <1>3 DEF SceneInv, CountedOnce, SeenLately, RowsHeld
<1> QED
  BY <1>4, <1>5 DEF SceneInv
-----------------------------------------------------------------------------
LEMMA SceneStep == SceneInv /\ [SceneNext]_sceneVars => SceneInv'
<1> SUFFICES ASSUME SceneInv, [SceneNext]_sceneVars
             PROVE  SceneInv'
  OBVIOUS
<1>1. CASE UNCHANGED sceneVars
  <2>1. UNCHANGED <<zones, heldAge, serving, standing, zoneCache, cacheAge, slots, seen,
                    byZone, frameAge>>
    BY <1>1 DEF sceneVars, table, caches, headCount
  <2>2. SceneTypeOK'
    BY <2>1 DEF SceneInv, SceneTypeOK
  <2> QED
    BY <2>1, <2>2 DEF SceneInv, CountedOnce, SeenLately, RowsHeld
<1>2. CASE Process
  BY <1>2, FrameStep DEF Process
<1> QED
  BY <1>1, <1>2, EditStep, MoveStep, TickStep, RestartScene DEF SceneNext

\* Nobody is counted twice.
THEOREM HeadsInOneZone == SceneSpec => []HeadsCountedOnce
<1>1. SceneInv => HeadsCountedOnce
  BY DEF SceneInv, HeadsCountedOnce
<1> QED
  BY <1>1, InitSceneInv, SceneStep, PTL DEF SceneSpec

\* No frame is judged by what is older than the two lifetimes.
THEOREM FramesJudgedByTheRecent == SceneSpec => FramesSeeTheRecent
<1>1. SceneInv /\ SceneInv' /\ [SceneNext]_sceneVars =>
        [\A g \in Tracked :
           /\ Process /\ standing[g] # Outside => seen'[g].zone = standing[g]
           /\ seen'[g].zone # Outside => seen'[g].age <= frameAge' + HeadTTL]_sceneVars
  <2> SUFFICES ASSUME SceneInv, SceneInv', NEW g \in Tracked
               PROVE  /\ Process /\ standing[g] # Outside => seen'[g].zone = standing[g]
                      /\ seen'[g].zone # Outside => seen'[g].age <= frameAge' + HeadTTL
    OBVIOUS
  <2>1. Process /\ standing[g] # Outside => seen'[g].zone = standing[g]
    BY FedTrack DEF Process, ProcessFrame
  <2>2. seen'[g].zone # Outside => seen'[g].age <= frameAge' + HeadTTL
    BY DEF SceneInv, SeenLately
  <2> QED
    BY <2>1, <2>2
<1>2. SceneInv /\ [SceneNext]_sceneVars =>
        [Process => \A z \in Zone : heldAge[z][zoneCache'[z]] < CacheTTL]_sceneVars
  BY LookedUp DEF Process, ProcessFrame
<1>3. SceneSpec => CountsWhoWasThere
  BY <1>1, InitSceneInv, SceneStep, PTL DEF SceneSpec, CountsWhoWasThere
<1>4. SceneSpec => JudgedByRecentZones
  BY <1>2, InitSceneInv, SceneStep, PTL DEF SceneSpec, JudgedByRecentZones
<1> QED
  BY <1>3, <1>4 DEF FramesSeeTheRecent

-----------------------------------------------------------------------------
(***************************************************************************)
(* The writer: what is committed is what the cursor passed, what is open   *)
(* is what the memory of zones says, and what is lost is accounted for.    *)
(***************************************************************************)

\* The batch against the database: its session has seen every committed event,
\* and differs in the open rows of the tracks it has moved.
BatchInv ==
  /\ lastId <= end /\ events \subseteq myEvents
  /\ first = end => moved = {}
  /\ \A g \in Gid \ moved : mine[g] = open[g]

WriterInv == WriterTypeOK /\ PassedIsStored /\ OpenMatchesMemory /\ BatchInv

RowCounts == [Gid -> [Zone -> Nat]]

\* What the steps use of the types.
LEMMA WriterTypes ==
  ASSUME WriterInv
  PROVE  /\ detections \in Seq(Frame) /\ Len(detections) \in Nat /\ Len(detections) <= MaxFrames
         /\ lastId \in Nat /\ lastId <= Len(detections)
         /\ first \in Nat /\ first <= lastId /\ end \in Nat /\ end <= Len(detections)
         /\ lastId <= end
         /\ mine \in RowCounts /\ open \in RowCounts /\ current \in [Gid -> Place]
         /\ epoch \in [Track -> 0..MaxEpoch] /\ moved \subseteq Gid
         /\ \A n \in 1..Len(detections) : detections[n] \in Frame
         /\ MaxFrames \in Nat /\ MaxEpoch \in Nat
<1>1. detections \in Seq(Frame) /\ Len(detections) \in Nat
  BY LenProperties DEF WriterInv, WriterTypeOK
<1>2. \A n \in 1..Len(detections) : detections[n] \in Frame
  BY <1>1, ElementOfSeq
<1> QED
  BY <1>1, <1>2, WriterAssumption DEF WriterInv, WriterTypeOK, BatchInv, RowCounts

LEMMA InitWriterInv == WriterInit => WriterInv
<1> SUFFICES ASSUME WriterInit
             PROVE  WriterInv
  OBVIOUS
<1> USE WriterAssumption
<1>1. detections \in Seq(Frame) /\ Len(detections) = 0
  BY EmptySeq DEF WriterInit
<1>2. open \in RowCounts /\ \A g \in Gid, z \in Zone : open[g][z] = 0
  BY DEF WriterInit, RowCounts
<1>3. /\ current \in [Gid -> Place] /\ \A g \in Gid : current[g] = Outside
      /\ epoch \in [Track -> 0..MaxEpoch]
  BY DEF WriterInit, Nowhere, Place
<1>4. WriterTypeOK
  <2>1. /\ events = {} /\ myEvents = {} /\ mine = open /\ calibrated = FALSE /\ up = FALSE
        /\ lastId = 0 /\ msgCount = 0 /\ first = 0 /\ end = 0 /\ moved = {}
        /\ zonesCache = "stale" /\ homography = "unread" /\ dropped = {} /\ astray = {}
    BY DEF WriterInit
  <2>2. 0 \in 0..(EvictEvery - 1) /\ 0 \in 0..Len(detections) /\ Len(detections) <= MaxFrames
    BY <1>1
  <2>3. 0 \in 0..lastId
    BY <2>1
  <2> QED
    BY <1>1, <1>2, <1>3, <2>1, <2>2, <2>3 DEF WriterTypeOK, RowCounts
<1>5. PassedIsStored /\ BatchInv
  BY DEF WriterInit, PassedIsStored, BatchInv
<1>6. OpenMatchesMemory
  BY <1>2, <1>3 DEF WriterInit, OpenMatchesMemory
<1> QED
  BY <1>4, <1>5, <1>6 DEF WriterInv
-----------------------------------------------------------------------------
(***************************************************************************)
(* The environment, and the start                                          *)
(***************************************************************************)
LEMMA ArriveStep ==
  ASSUME WriterInv, Arrive
  PROVE  WriterInv'
<1>1. PICK f \in Frame : detections' = Append(detections, f)
  BY DEF Arrive
<1>2. /\ Len(detections) < MaxFrames
      /\ UNCHANGED <<events, open, calibrated, up, lastId, msgCount, first, end, myEvents, mine,
                     moved, current, epoch, zonesCache, homography, dropped, astray>>
  BY DEF Arrive, database, batch, memory, history
<1>3. /\ detections' \in Seq(Frame) /\ Len(detections') = Len(detections) + 1
      /\ \A n \in 1..Len(detections) : detections'[n] = detections[n]
  BY <1>1, WriterTypes, AppendProperties
<1>4. WriterTypeOK'
  <2>1. /\ Len(detections') <= MaxFrames
        /\ lastId \in 0..Len(detections') /\ end \in 0..Len(detections')
    BY <1>2, <1>3, WriterTypes
  <2> QED
    BY <1>2, <1>3, <2>1 DEF WriterInv, WriterTypeOK
<1>5. PassedIsStored'
  <2>1. \A n \in 1..lastId : n \in 1..Len(detections)
    BY WriterTypes
  <2>2. \A n \in 1..lastId : detections'[n] = detections[n] /\ Key(n)' = Key(n)
    BY <1>3, <2>1 DEF Key
  <2> QED
    BY <1>2, <2>2 DEF WriterInv, PassedIsStored
<1>6. OpenMatchesMemory' /\ BatchInv'
  BY <1>2 DEF WriterInv, OpenMatchesMemory, BatchInv
<1> QED
  BY <1>4, <1>5, <1>6 DEF WriterInv

\* Steps that touch neither rows nor cursor.
LEMMA QuietStep ==
  ASSUME WriterInv, Calibrate \/ CacheExpires \/ Start \/ UNCHANGED writerVars
  PROVE  WriterInv'
<1>1. /\ UNCHANGED <<detections, events, open, lastId, msgCount, first, end, myEvents, mine,
                     moved, current, epoch, homography, dropped, astray>>
      /\ calibrated' \in BOOLEAN /\ up' \in BOOLEAN
      /\ zonesCache' \in {"stale", "loaded", "detached"}
  BY DEF Calibrate, CacheExpires, Start, writerVars, database, batch, memory, history,
         WriterInv, WriterTypeOK
<1>2. WriterTypeOK'
  BY <1>1 DEF WriterInv, WriterTypeOK
<1> QED
  BY <1>1, <1>2 DEF WriterInv, PassedIsStored, Key, OpenMatchesMemory, BatchInv
-----------------------------------------------------------------------------
(***************************************************************************)
(* A frame                                                                 *)
(***************************************************************************)
LEMMA ReadStep ==
  ASSUME WriterInv, ReadBatch
  PROVE  WriterInv'
<1>1. /\ first = end /\ lastId < Len(detections) /\ first' = lastId
      /\ end' = Len(detections) /\ myEvents' = events /\ mine' = open /\ moved' = {}
      /\ UNCHANGED <<detections, events, open, calibrated, up, lastId, msgCount, current, epoch,
                     zonesCache, homography, dropped, astray>>
  BY DEF ReadBatch, database, memory, history
<1>2. first = lastId
  BY <1>1, WriterTypes
<1>3. WriterTypeOK'
  <2>1. first' \in 0..lastId /\ end' \in 0..Len(detections)
    BY <1>1, WriterTypes
  <2> QED
    BY <1>1, <2>1 DEF WriterInv, WriterTypeOK
<1>4. PassedIsStored'
  BY <1>1, <1>2, WriterTypes DEF WriterInv, PassedIsStored, Key
<1>5. \A g \in Gid : mine[g] = open[g]
  BY <1>1 DEF WriterInv, BatchInv
<1>6. OpenMatchesMemory'
  BY <1>1, <1>5 DEF WriterInv, OpenMatchesMemory
<1>7. BatchInv'
  BY <1>1, WriterTypes DEF BatchInv
<1> QED
  BY <1>3, <1>4, <1>6, <1>7 DEF WriterInv

LEMMA FrameInHand ==
  ASSUME WriterInv, HasNext
  PROVE  /\ lastId + 1 \in 1..Len(detections) /\ InHand \in Frame
         /\ InHand.zone \in Place /\ InHand.ts \in Nat
         /\ InHand.track \in Track \cup {NoTrack}
         /\ Projected => InHand.track \in Track /\ IdOf(InHand.track) \in Gid
<1>1. lastId + 1 \in 1..Len(detections)
  BY WriterTypes DEF HasNext
<1>2. InHand \in Frame
  BY <1>1, WriterTypes DEF InHand
<1>3. InHand \in [parses : BOOLEAN, track : Track \cup {NoTrack}, zone : Place, ts : Nat]
  BY <1>2, WriterAssumption
<1>4. Projected => InHand.track \in Track
  BY <1>3 DEF Projected
<1>5. ASSUME Projected
      PROVE  IdOf(InHand.track) \in Gid
  BY <1>4, <1>5, WriterTypes DEF IdOf, Gid
<1> QED
  BY <1>1, <1>2, <1>3, <1>4, <1>5

\* The counts of one track's rows: those of the others stay.
LEMMA CloseRow ==
  ASSUME WriterInv, NEW g \in Gid
  PROVE  /\ Close(mine, g) \in RowCounts
         /\ \A h \in Gid \ {g} : Close(mine, g)[h] = mine[h]
         /\ \A z \in Zone : Close(mine, g)[g][z] =
              IF z = current[g] /\ mine[g][z] > 0 THEN mine[g][z] - 1 ELSE mine[g][z]
<1>1. mine \in RowCounts /\ current[g] \in Place
  BY WriterTypes
<1>2. CASE current[g] # Outside /\ mine[g][current[g]] > 0
  <2> DEFINE less == [mine[g] EXCEPT ![current[g]] = mine[g][current[g]] - 1]
  <2>1. current[g] \in Zone /\ mine[g] \in [Zone -> Nat]
    BY <1>1, <1>2 DEF Place, RowCounts
  <2>2. mine[g][current[g]] - 1 \in Nat
    BY <1>2, <2>1
  <2>3. /\ less \in [Zone -> Nat]
        /\ \A z \in Zone : less[z] = IF z = current[g] THEN mine[g][z] - 1 ELSE mine[g][z]
    BY <2>1, <2>2
  <2>4. Close(mine, g) = [mine EXCEPT ![g] = less]
    BY <1>1, <1>2 DEF Close, RowCounts
  <2> HIDE DEF less
  <2> QED
    BY <1>1, <1>2, <2>3, <2>4 DEF RowCounts
<1>3. CASE ~(current[g] # Outside /\ mine[g][current[g]] > 0)
  <2>1. Close(mine, g) = mine
    BY <1>3 DEF Close
  <2> QED
    BY <1>1, <1>3, <2>1, WriterAssumption
<1> QED
  BY <1>2, <1>3

LEMMA OpenRow ==
  ASSUME NEW rows \in RowCounts, NEW g \in Gid, NEW y \in Place, Outside \notin Zone
  PROVE  /\ Open(rows, g, y) \in RowCounts
         /\ \A h \in Gid \ {g} : Open(rows, g, y)[h] = rows[h]
         /\ \A z \in Zone : Open(rows, g, y)[g][z] = IF z = y THEN rows[g][z] + 1 ELSE rows[g][z]
<1>1. CASE y # Outside
  <2> DEFINE more == [rows[g] EXCEPT ![y] = rows[g][y] + 1]
  <2>1. y \in Zone /\ rows[g] \in [Zone -> Nat]
    BY <1>1 DEF Place, RowCounts
  <2>2. /\ more \in [Zone -> Nat]
        /\ \A z \in Zone : more[z] = IF z = y THEN rows[g][z] + 1 ELSE rows[g][z]
    BY <2>1
  <2>3. Open(rows, g, y) = [rows EXCEPT ![g] = more]
    BY <1>1 DEF Open, RowCounts
  <2> HIDE DEF more
  <2> QED
    BY <2>2, <2>3 DEF RowCounts
<1>2. CASE y = Outside
  BY <1>2 DEF Open
<1> QED
  BY <1>1, <1>2

\* What flush_detection_frame does before the INSERT keeps the rows and the
\* memory of the zone tracker in step.
LEMMA PrepareEffect ==
  ASSUME WriterInv, HasNext, Prepare
  PROVE  /\ mine' \in RowCounts /\ current' \in [Gid -> Place] /\ moved' \subseteq Gid
         /\ zonesCache' \in {"stale", "loaded", "detached"}
         /\ homography' \in {"unread", "absent", "matrix"}
         /\ \A h \in Gid \ moved' : mine'[h] = mine[h] /\ h \notin moved
         /\ \A h \in Gid \ astray : \A z \in Zone :
              mine'[h][z] = IF current'[h] = z THEN 1 ELSE 0
<1>1. /\ mine \in RowCounts /\ current \in [Gid -> Place] /\ moved \subseteq Gid
      /\ zonesCache \in {"stale", "loaded", "detached"}
      /\ homography \in {"unread", "absent", "matrix"}
      /\ OpenMatchesMemory
  BY WriterTypes DEF WriterInv, WriterTypeOK
<1>2. homography' \in {"unread", "absent", "matrix"}
  BY <1>1 DEF Prepare, Homography
<1>3. CASE UNCHANGED <<mine, current, moved>>
  <2>1. zonesCache' \in {"stale", "loaded", "detached"}
    BY <1>1 DEF Prepare
  <2> QED
    BY <1>1, <1>2, <1>3, <2>1 DEF OpenMatchesMemory
<1>4. CASE ~ UNCHANGED <<mine, current, moved>>
  <2> DEFINE g == IdOf(InHand.track)
             y == InHand.zone
  <2>1. /\ Projected /\ g \in Gid /\ y \in Place /\ current[g] # y
        /\ mine' = Open(Close(mine, g), g, y)
        /\ current' = [current EXCEPT ![g] = y]
        /\ moved' = moved \cup {g}
        /\ zonesCache' \in {"stale", "loaded", "detached"}
    BY <1>1, <1>4, FrameInHand DEF Prepare, UpdateZone
  <2> HIDE DEF g, y
  <2>2. /\ Close(mine, g) \in RowCounts
        /\ \A h \in Gid \ {g} : Close(mine, g)[h] = mine[h]
        /\ \A z \in Zone : Close(mine, g)[g][z] =
             IF z = current[g] /\ mine[g][z] > 0 THEN mine[g][z] - 1 ELSE mine[g][z]
    BY <2>1, CloseRow
  <2>3. /\ mine' \in RowCounts
        /\ \A h \in Gid \ {g} : mine'[h] = mine[h]
        /\ \A z \in Zone : mine'[g][z] = IF z = y THEN Close(mine, g)[g][z] + 1
                                                  ELSE Close(mine, g)[g][z]
    BY <2>1, <2>2, OpenRow, WriterAssumption
  <2>4. \A h \in Gid \ astray : \A z \in Zone : mine'[h][z] = IF current'[h] = z THEN 1 ELSE 0
    <3> SUFFICES ASSUME NEW h \in Gid \ astray, NEW z \in Zone
                 PROVE  mine'[h][z] = IF current'[h] = z THEN 1 ELSE 0
      OBVIOUS
    <3>1. mine[h][z] = IF current[h] = z THEN 1 ELSE 0
      BY <1>1 DEF OpenMatchesMemory
    <3>2. CASE h = g
      BY <1>1, <2>1, <2>2, <2>3, <3>1, <3>2
    <3>3. CASE h # g
      BY <1>1, <2>1, <2>3, <3>1, <3>3
    <3> QED
      BY <3>2, <3>3
  <2> QED
    BY <1>1, <1>2, <2>1, <2>3, <2>4
<1> QED
  BY <1>3, <1>4

LEMMA WriteStep ==
  ASSUME WriterInv, WriteFrame
  PROVE  WriterInv'
<1>1. /\ HasNext /\ Prepare /\ lastId' = lastId + 1 /\ msgCount' = (msgCount + 1) % EvictEvery
      /\ myEvents' = (IF InHand.track = NoTrack THEN myEvents
                      ELSE myEvents \cup {<<InHand.track, InHand.ts>>})
      /\ UNCHANGED <<detections, events, open, calibrated, up, first, end, epoch, dropped, astray>>
  BY DEF WriteFrame, database, history
<1>2. /\ lastId + 1 \in 1..Len(detections) /\ lastId + 1 <= end /\ first # end
      /\ first \in Nat /\ first <= lastId /\ lastId \in Nat
  BY <1>1, FrameInHand, WriterTypes DEF HasNext, InBatch
<1>3. /\ mine' \in RowCounts /\ current' \in [Gid -> Place] /\ moved' \subseteq Gid
      /\ zonesCache' \in {"stale", "loaded", "detached"}
      /\ homography' \in {"unread", "absent", "matrix"}
  BY <1>1, PrepareEffect
<1>4. myEvents' \subseteq Track \X Nat /\ myEvents \subseteq myEvents'
  <2>1. InHand.track # NoTrack => <<InHand.track, InHand.ts>> \in Track \X Nat
    BY <1>1, FrameInHand
  <2> QED
    BY <1>1, <2>1 DEF WriterInv, WriterTypeOK
<1>5. msgCount' \in 0..(EvictEvery - 1)
  BY <1>1, WriterAssumption DEF WriterInv, WriterTypeOK
<1>6. WriterTypeOK'
  <2>1. lastId' \in 0..Len(detections) /\ first \in 0..lastId'
    BY <1>1, <1>2
  <2> QED
    BY <1>1, <1>3, <1>4, <1>5, <2>1 DEF WriterInv, WriterTypeOK, RowCounts
<1>7. PassedIsStored'
  <2> SUFFICES ASSUME NEW n \in 1..lastId', detections[n].track # NoTrack
               PROVE  Key(n) \in events \/ n \in dropped \/ (first < n /\ Key(n) \in myEvents')
    BY <1>1 DEF PassedIsStored, Key
  <2>1. CASE n \in 1..lastId
    BY <1>4, <2>1 DEF WriterInv, PassedIsStored
  <2>2. CASE n = lastId + 1
    <3>1. Key(n) = <<InHand.track, InHand.ts>> /\ InHand.track # NoTrack
      BY <2>2 DEF Key, InHand
    <3> QED
      BY <1>1, <1>2, <2>2, <3>1
  <2> QED
    BY <1>1, <1>2, <2>1, <2>2
<1>8. OpenMatchesMemory'
  BY <1>1, PrepareEffect DEF OpenMatchesMemory
<1>9. BatchInv'
  <2>1. \A h \in Gid \ moved' : mine'[h] = open[h]
    BY <1>1, PrepareEffect DEF WriterInv, BatchInv
  <2> QED
    BY <1>1, <1>2, <1>4, <2>1 DEF WriterInv, BatchInv
<1> QED
  BY <1>6, <1>7, <1>8, <1>9 DEF WriterInv
-----------------------------------------------------------------------------
(***************************************************************************)
(* The end of a batch                                                      *)
(***************************************************************************)
LEMMA EvictedType ==
  ASSUME WriterInv, NEW tracks \in SUBSET {t \in Track : epoch[t] < MaxEpoch}
  PROVE  Evicted(tracks) \in [Track -> 0..MaxEpoch]
<1>1. \A t \in Track : epoch[t] \in 0..MaxEpoch /\ MaxEpoch \in Nat
  BY WriterTypes
<1>2. \A t \in Track : (IF t \in tracks THEN epoch[t] + 1 ELSE epoch[t]) \in 0..MaxEpoch
  BY <1>1
<1> QED
  BY <1>2 DEF Evicted

LEMMA MayEvictType ==
  ASSUME WriterInv, MayEvict
  PROVE  epoch' \in [Track -> 0..MaxEpoch]
BY EvictedType DEF MayEvict

LEMMA CommitStep ==
  ASSUME WriterInv, CommitBatch
  PROVE  WriterInv'
<1>1. /\ lastId = end /\ events' = myEvents /\ open' = mine
      /\ first' = lastId /\ end' = lastId /\ moved' = {}
      /\ zonesCache' = (IF zonesCache = "loaded" THEN "detached" ELSE zonesCache)
      /\ UNCHANGED <<detections, calibrated, up, lastId, msgCount, myEvents, mine, current,
                     homography, dropped, astray>>
  BY DEF CommitBatch, EndBatch, history
<1>2. epoch' \in [Track -> 0..MaxEpoch]
  BY MayEvictType DEF CommitBatch
<1>3. WriterTypeOK'
  <2>1. first' \in 0..lastId /\ end' \in 0..Len(detections)
    BY <1>1, WriterTypes
  <2>2. zonesCache' \in {"stale", "loaded", "detached"}
    BY <1>1 DEF WriterInv, WriterTypeOK
  <2> QED
    BY <1>1, <1>2, <2>1, <2>2 DEF WriterInv, WriterTypeOK
<1>4. PassedIsStored'
  BY <1>1 DEF WriterInv, BatchInv, PassedIsStored, Key
<1>5. OpenMatchesMemory' /\ BatchInv'
  BY <1>1, WriterTypes DEF WriterInv, BatchInv, OpenMatchesMemory
<1> QED
  BY <1>3, <1>4, <1>5 DEF WriterInv

\* A rollback, whatever ids it leaves behind, as long as those are all of which
\* the rows or the memory change.
LEMMA RollbackStep ==
  ASSUME WriterInv, NEW touched \in SUBSET Gid, Rollback(touched), moved \subseteq touched,
         current' \in [Gid -> Place], \A h \in Gid \ touched : current'[h] = current[h],
         epoch' \in [Track -> 0..MaxEpoch],
         zonesCache' \in {"stale", "loaded", "detached"},
         homography' \in {"unread", "absent", "matrix"}
  PROVE  WriterInv'
<1>1. /\ dropped' = dropped \cup (first + 1 .. lastId) /\ astray' = astray \cup touched
      /\ myEvents' = events /\ mine' = open /\ first' = lastId /\ end' = lastId /\ moved' = {}
      /\ UNCHANGED <<detections, events, open, calibrated, up, lastId, msgCount>>
  BY DEF Rollback, database
<1>2. WriterTypeOK'
  <2>1. first' \in 0..lastId /\ end' \in 0..Len(detections)
    BY <1>1, WriterTypes
  <2>2. dropped' \subseteq 1..MaxFrames
    <3>1. first + 1 .. lastId \subseteq 1..MaxFrames
      BY WriterTypes
    <3> QED
      BY <1>1, <3>1 DEF WriterInv, WriterTypeOK
  <2> QED
    BY <1>1, <2>1, <2>2 DEF WriterInv, WriterTypeOK
<1>3. PassedIsStored'
  <2> SUFFICES ASSUME NEW n \in 1..lastId, detections[n].track # NoTrack
               PROVE  Key(n) \in events \/ n \in dropped'
    BY <1>1 DEF PassedIsStored, Key
  <2>1. Key(n) \in events \/ n \in dropped \/ first < n
    BY DEF WriterInv, PassedIsStored
  <2>2. first < n => n \in first + 1 .. lastId
    BY WriterTypes
  <2> QED
    BY <1>1, <2>1, <2>2
<1>4. OpenMatchesMemory'
  BY <1>1 DEF WriterInv, BatchInv, OpenMatchesMemory
<1>5. BatchInv'
  BY <1>1, WriterTypes DEF BatchInv
<1> QED
  BY <1>2, <1>3, <1>4, <1>5 DEF WriterInv

LEMMA FailStep ==
  ASSUME WriterInv, FrameFails \/ InsertFails \/ CommitFails
  PROVE  WriterInv'
<1>1. /\ current \in [Gid -> Place] /\ epoch \in [Track -> 0..MaxEpoch] /\ moved \subseteq Gid
      /\ zonesCache \in {"stale", "loaded", "detached"}
      /\ homography \in {"unread", "absent", "matrix"}
      /\ Homography \in {"absent", "matrix"}
  BY WriterTypes DEF WriterInv, WriterTypeOK, Homography
<1>2. CASE FrameFails
  <2>1. Rollback(moved) /\ UNCHANGED <<current, epoch>>
        /\ zonesCache' = (IF zonesCache = "loaded" THEN "detached" ELSE zonesCache)
        /\ homography' \in {homography, Homography}
    BY <1>2 DEF FrameFails
  <2> QED
    BY <1>1, <2>1, RollbackStep
<1>3. CASE InsertFails
  <2> DEFINE g == IdOf(InHand.track)
             touched == moved \cup (IF current[g] # InHand.zone THEN {g} ELSE {})
  <2>1. /\ HasNext /\ Projected /\ UNCHANGED epoch /\ Rollback(touched)
        /\ current' = [current EXCEPT ![g] = InHand.zone]
        /\ zonesCache' = "detached" /\ homography' = Homography
    BY <1>3 DEF InsertFails
  <2>2. g \in Gid /\ InHand.zone \in Place
    BY <2>1, FrameInHand
  <2>3. /\ touched \subseteq Gid /\ moved \subseteq touched
        /\ current' \in [Gid -> Place]
        /\ \A h \in Gid \ touched : current'[h] = current[h]
    BY <1>1, <2>1, <2>2
  <2> HIDE DEF touched
  <2> QED
    BY <1>1, <2>1, <2>3, RollbackStep
<1>4. CASE CommitFails
  <2>1. Rollback(moved) /\ UNCHANGED <<current, homography>>
        /\ zonesCache' = (IF zonesCache = "loaded" THEN "detached" ELSE zonesCache)
    BY <1>4 DEF CommitFails
  <2>2. epoch' \in [Track -> 0..MaxEpoch]
    BY <1>4, MayEvictType DEF CommitFails
  <2> QED
    BY <1>1, <2>1, <2>2, RollbackStep
<1> QED
  BY <1>2, <1>3, <1>4

LEMMA CrashStep ==
  ASSUME WriterInv, Crash
  PROVE  WriterInv'
<1> USE WriterAssumption
<1>1. /\ lastId' = 0 /\ msgCount' = 0 /\ first' = 0 /\ end' = 0 /\ up' = FALSE
      /\ myEvents' = events /\ mine' = open /\ moved' = {}
      /\ current' = Nowhere /\ zonesCache' = "stale" /\ homography' = "unread" /\ dropped' = {}
      /\ astray' = astray \cup {g \in Gid : \E z \in Zone : open[g][z] > 0}
      /\ UNCHANGED <<detections, events, open, calibrated>>
  BY DEF Crash, database
<1>2. epoch' \in [Track -> 0..MaxEpoch]
  BY EvictedType DEF Crash
<1>3. current' \in [Gid -> Place] /\ \A g \in Gid : current'[g] = Outside
  BY <1>1 DEF Nowhere, Place
<1>4. WriterTypeOK'
  <2>1. 0 \in 0..Len(detections) /\ 0 \in 0..(EvictEvery - 1) /\ 0 \in 0..0
    BY WriterTypes
  <2>2. astray' \subseteq Gid /\ mine' \in RowCounts
    BY <1>1, WriterTypes DEF WriterInv, WriterTypeOK
  <2> QED
    BY <1>1, <1>2, <1>3, <2>1, <2>2 DEF WriterInv, WriterTypeOK, RowCounts
<1>5. PassedIsStored' /\ BatchInv'
  BY <1>1 DEF PassedIsStored, BatchInv
<1>6. OpenMatchesMemory'
  <2> SUFFICES ASSUME NEW g \in Gid \ astray', NEW z \in Zone
               PROVE  open[g][z] = 0
    BY <1>1, <1>3 DEF OpenMatchesMemory
  <2>1. open[g][z] \in Nat /\ ~(open[g][z] > 0)
    BY <1>1, WriterTypes DEF RowCounts
  <2> QED
    BY <2>1
<1> QED
  BY <1>4, <1>5, <1>6 DEF WriterInv
-----------------------------------------------------------------------------
\* What the writer does not store it knows to have lost, and the rows that stay
\* open are those of the tracker's memory.
THEOREM WriterAccountsForLoss == WriterSpec => []LossAccounted
<1>1. WriterInv /\ [WriterNext]_writerVars => WriterInv'
  BY ArriveStep, QuietStep, ReadStep, WriteStep, CommitStep, FailStep, CrashStep
     DEF WriterNext, Writer
<1>2. WriterInv => LossAccounted
  BY DEF WriterInv, LossAccounted
<1> QED
  BY <1>1, <1>2, InitWriterInv, PTL DEF WriterSpec
=============================================================================
