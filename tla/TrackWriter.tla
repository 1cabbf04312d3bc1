---------------------------- MODULE TrackWriter ----------------------------
(***************************************************************************)
(* src/vms/writer/db_writer.py with the zone tracker of                    *)
(* src/vms/identity/zone_presence.py: batches of the `detections` stream   *)
(* become rows of tracking_events and zone_presence in one transaction,    *)
(* while the cursor, the zone each track is in and the caches are memory.  *)
(*                                                                         *)
(* A frame shows at most one track.  A track's global id is the track and  *)
(* an epoch: the identity engine keeps it until it evicts the track, and a *)
(* restart forgets it (IdentityEngine has the engine itself).  Of the rows *)
(* of zone_presence only the open ones are kept.                           *)
(***************************************************************************)
EXTENDS Places, Integers, Sequences, FiniteSets

CONSTANTS
  Track, NoTrack,   \* <<camera, local id>>; a frame without tracklets
  Frame,            \* what may be published: [parses, track, zone, ts]
  Factory,          \* "expiring" (SessionLocal: commits expire what was
                    \* loaded) or "plain"
  EvictEvery,       \* _EVICT_EVERY
  MaxFrames,        \* bound on the stream
  MaxEpoch          \* bound on the ids of one track

Gid == Track \X (0..MaxEpoch)

ASSUME WriterAssumption ==
  /\ NoTrack \notin Track /\ Outside \notin Zone
  /\ Frame \subseteq [parses : BOOLEAN, track : Track \cup {NoTrack},
                      zone : Place, ts : Nat]
  /\ Factory \in {"expiring", "plain"}
  /\ EvictEvery \in Nat \ {0} /\ MaxFrames \in Nat /\ MaxEpoch \in Nat

VARIABLES
  detections,  \* the stream
  events,      \* committed tracking_events: {<<track, ts>>}
  open,        \* committed rows of zone_presence without exited_at, counted
  calibrated,  \* cameras.homography_matrix is set
  up,          \* the process runs
  lastId,      \* _last_id
  msgCount,    \* _msg_count, modulo EvictEvery
  first, end,  \* the batch: messages first + 1 .. end (equal: none)
  myEvents,    \* events as its session sees them
  mine,        \* open rows as its session sees them
  moved,       \* ids the batch has moved to another zone
  current,     \* _current
  epoch,       \* which id the engine has for the track
  zonesCache,  \* _zones_cache: "stale", "loaded", "detached" from its session
  homography,  \* _cam_homography: "unread", "absent", "matrix"
  dropped,     \* history: messages behind the cursor whose batch rolled back
  astray       \* history: ids whose rows a rollback or a crash left behind

database == <<events, open, calibrated>>
batch == <<first, end, myEvents, mine, moved>>
memory == <<current, epoch, zonesCache, homography>>
history == <<dropped, astray>>
writerVars == <<detections, database, up, lastId, msgCount, batch, memory, history>>

WriterTypeOK ==
  /\ detections \in Seq(Frame) /\ Len(detections) <= MaxFrames
  /\ events \subseteq Track \X Nat /\ myEvents \subseteq Track \X Nat
  /\ open \in [Gid -> [Zone -> Nat]] /\ mine \in [Gid -> [Zone -> Nat]]
  /\ calibrated \in BOOLEAN /\ up \in BOOLEAN
  /\ lastId \in 0..Len(detections) /\ msgCount \in 0..(EvictEvery - 1)
  /\ first \in 0..lastId /\ end \in 0..Len(detections)
  /\ moved \subseteq Gid
  /\ current \in [Gid -> Place] /\ epoch \in [Track -> 0..MaxEpoch]
  /\ zonesCache \in {"stale", "loaded", "detached"}
  /\ homography \in {"unread", "absent", "matrix"}
  /\ dropped \subseteq 1..MaxFrames /\ astray \subseteq Gid

Nowhere == [g \in Gid |-> Outside]

WriterInit ==
  /\ detections = <<>> /\ events = {} /\ calibrated = FALSE
  /\ open = [g \in Gid |-> [z \in Zone |-> 0]]
  /\ up = FALSE /\ lastId = 0 /\ msgCount = 0
  /\ first = 0 /\ end = 0 /\ myEvents = {} /\ mine = open /\ moved = {}
  /\ current = Nowhere /\ epoch = [t \in Track |-> 0]
  /\ zonesCache = "stale" /\ homography = "unread"
  /\ dropped = {} /\ astray = {}
-----------------------------------------------------------------------------
(***************************************************************************)
(* The environment: the inference engines, the API, time                   *)
(***************************************************************************)

Arrive ==
  /\ Len(detections) < MaxFrames
  /\ \E f \in Frame : detections' = Append(detections, f)
  /\ UNCHANGED <<database, up, lastId, msgCount, batch, memory, history>>

\* An API route stores a homography for the camera.
Calibrate ==
  /\ ~calibrated /\ calibrated' = TRUE
  /\ UNCHANGED <<detections, events, open, up, lastId, msgCount, batch, memory, history>>

\* Mutant of CacheExpires: the zones are loaded once and for all.
CacheNeverExpires == FALSE /\ UNCHANGED writerVars

\* zone_cache_ttl_s has passed.
CacheExpires ==
  /\ zonesCache # "stale" /\ zonesCache' = "stale"
  /\ UNCHANGED <<detections, database, up, lastId, msgCount, batch, current, epoch,
                 homography, history>>
-----------------------------------------------------------------------------
(***************************************************************************)
(* One frame                                                               *)
(***************************************************************************)

\* _get_homography: what the camera had when its first frame came.
Homography ==
  IF homography # "unread" THEN homography
  ELSE IF calibrated THEN "matrix" ELSE "absent"

InHand == detections[lastId + 1]
IdOf(t) == <<t, epoch[t]>>
Projected == InHand.track # NoTrack /\ Homography = "matrix"

\* ZonePresenceTracker.update reads the zones it has cached; instances that a
\* commit or a rollback has expired cannot be read once their session is closed.
Readable == zonesCache # "detached" \/ Factory = "plain"

\* _close takes one open row of the zone it remembers, if there is one.
Close(rows, g) ==
  IF current[g] # Outside /\ rows[g][current[g]] > 0
  THEN [rows EXCEPT ![g][current[g]] = @ - 1] ELSE rows

Open(rows, g, z) == IF z # Outside THEN [rows EXCEPT ![g][z] = @ + 1] ELSE rows

\* update: the memory moves at once, the rows in the session.
UpdateZone(g, z) ==
  IF current[g] = z THEN UNCHANGED <<mine, current, moved>>
  ELSE /\ mine' = Open(Close(mine, g), g, z)
       /\ current' = [current EXCEPT ![g] = z]
       /\ moved' = moved \cup {g}

\* Everything flush_detection_frame does before the INSERT.
Prepare ==
  /\ homography' = Homography
  /\ IF Projected
     THEN /\ Readable
          /\ zonesCache' = IF zonesCache = "stale" THEN "loaded" ELSE zonesCache
          /\ UpdateZone(IdOf(InHand.track), InHand.zone)
     ELSE UNCHANGED <<mine, current, moved, zonesCache>>

InBatch == up /\ first # end
HasNext == InBatch /\ lastId < end

\* XREAD of up to 100 messages, and a session for them.
ReadBatch ==
  /\ up /\ first = end /\ lastId < Len(detections)
  /\ first' = lastId /\ end' = Len(detections)
  /\ myEvents' = events /\ mine' = open /\ moved' = {}
  /\ UNCHANGED <<detections, database, up, lastId, msgCount, memory, history>>

\* INSERT ... ON CONFLICT (camera, local track, event_ts) DO NOTHING, and the
\* cursor moves on.
WriteFrame ==
  /\ HasNext /\ InHand.parses
  /\ Prepare
  /\ myEvents' = IF InHand.track = NoTrack THEN myEvents
                 ELSE myEvents \cup {<<InHand.track, InHand.ts>>}
  /\ lastId' = lastId + 1 /\ msgCount' = (msgCount + 1) % EvictEvery
  /\ UNCHANGED <<detections, database, up, first, end, epoch, history>>
-----------------------------------------------------------------------------
(***************************************************************************)
(* The end of a batch                                                      *)
(***************************************************************************)

\* The session is closed; what it had loaded is detached from it.
EndBatch ==
  /\ first' = lastId /\ end' = lastId /\ moved' = {}
  /\ zonesCache' = IF zonesCache = "loaded" THEN "detached" ELSE zonesCache

Evicted(tracks) ==
  [t \in Track |-> IF t \in tracks THEN epoch[t] + 1 ELSE epoch[t]]

\* evict_stale, due when the count is a multiple of EvictEvery just now: any
\* tracks may have been away long enough.
MayEvict ==
  \E tracks \in SUBSET {t \in Track : msgCount = 0 /\ epoch[t] < MaxEpoch} :
    epoch' = Evicted(tracks)

CommitBatch ==
  /\ InBatch /\ lastId = end
  /\ MayEvict
  /\ events' = myEvents /\ open' = mine
  /\ EndBatch
  /\ UNCHANGED <<detections, calibrated, up, lastId, msgCount, myEvents, mine,
                 current, homography, history>>

\* The rollback of a batch: the rows are gone, the cursor and the memory stay
\* where the batch took them.
Rollback(touched) ==
  /\ dropped' = dropped \cup (first + 1 .. lastId)
  /\ astray' = astray \cup touched
  /\ myEvents' = events /\ mine' = open
  /\ first' = lastId /\ end' = lastId /\ moved' = {}
  /\ UNCHANGED <<detections, database, up, lastId, msgCount>>

\* The message does not parse, a query raises, or the zones cannot be read.
FrameFails ==
  /\ HasNext
  /\ Rollback(moved)
  /\ zonesCache' = IF zonesCache = "loaded" THEN "detached" ELSE zonesCache
  /\ homography' \in {homography, Homography}
  /\ UNCHANGED <<current, epoch>>

\* Mutant of InsertFails: the cursor is set before the frame is written.
InsertFailsBehindCursor ==
  /\ HasNext /\ InHand.parses /\ Projected /\ Readable
  /\ LET g == IdOf(InHand.track) IN
       /\ current' = [current EXCEPT ![g] = InHand.zone]
       /\ astray' = astray \cup moved
                    \cup (IF current[g] # InHand.zone THEN {g} ELSE {})
  /\ zonesCache' = "detached" /\ homography' = Homography
  /\ dropped' = dropped \cup (first + 1 .. lastId)
  /\ myEvents' = events /\ mine' = open
  /\ lastId' = lastId + 1
  /\ first' = lastId + 1 /\ end' = lastId + 1 /\ moved' = {}
  /\ UNCHANGED <<detections, database, up, msgCount, epoch>>

\* The INSERT raises: this frame has moved its track too.
InsertFails ==
  /\ HasNext /\ InHand.parses /\ Projected /\ Readable
  /\ LET g == IdOf(InHand.track) IN
       /\ current' = [current EXCEPT ![g] = InHand.zone]
       /\ Rollback(moved \cup (IF current[g] # InHand.zone THEN {g} ELSE {}))
  /\ zonesCache' = "detached" /\ homography' = Homography
  /\ UNCHANGED epoch

\* The COMMIT raises, after the eviction.
CommitFails ==
  /\ InBatch /\ lastId = end
  /\ MayEvict
  /\ Rollback(moved)
  /\ zonesCache' = IF zonesCache = "loaded" THEN "detached" ELSE zonesCache
  /\ UNCHANGED <<current, homography>>

Start ==
  /\ ~up /\ up' = TRUE
  /\ UNCHANGED <<detections, database, lastId, msgCount, batch, memory, history>>

\* The process dies, or the XREAD raises out of run(): memory is gone, and the
\* stream will be read from its beginning under new ids.
Crash ==
  /\ up /\ up' = FALSE
  /\ \A t \in Track : epoch[t] < MaxEpoch
  /\ epoch' = Evicted(Track)
  /\ lastId' = 0 /\ msgCount' = 0
  /\ first' = 0 /\ end' = 0 /\ myEvents' = events /\ mine' = open /\ moved' = {}
  /\ current' = Nowhere /\ zonesCache' = "stale" /\ homography' = "unread"
  /\ dropped' = {}
  /\ astray' = astray \cup {g \in Gid : \E z \in Zone : open[g][z] > 0}
  /\ UNCHANGED <<detections, database>>

Writer == ReadBatch \/ WriteFrame \/ CommitBatch \/ FrameFails \/ InsertFails \/ CommitFails

WriterNext == Arrive \/ Calibrate \/ CacheExpires \/ Writer \/ Start \/ Crash

WriterSpec == WriterInit /\ [][WriterNext]_writerVars

\* The event loop runs the task and time passes; the database may refuse a
\* statement any number of times, but not for ever.
FairWriterSpec ==
  /\ WriterSpec
  /\ WF_writerVars(ReadBatch) /\ WF_writerVars(CacheExpires)
  /\ SF_writerVars(WriteFrame) /\ SF_writerVars(CommitBatch) /\ WF_writerVars(Writer)
-----------------------------------------------------------------------------
(***************************************************************************)
(* Properties                                                              *)
(***************************************************************************)

Key(n) == <<detections[n].track, detections[n].ts>>

\* A frame behind the cursor has its row, or is part of the open transaction, or
\* of one that is known to have rolled back: parse errors, failing statements,
\* restarts and replays lose nothing else.
PassedIsStored ==
  \A n \in 1..lastId : detections[n].track # NoTrack =>
    Key(n) \in events \/ n \in dropped \/ (first < n /\ Key(n) \in myEvents)

\* What the tracker remembers of a track is the one row that is open for it, as
\* long as no rollback or crash has come between the two.
OpenMatchesMemory ==
  \A g \in Gid \ astray : \A z \in Zone :
    mine[g][z] = IF current[g] = z THEN 1 ELSE 0

\* The writer's batch against its memory: every frame that is not stored and every
\* zone row that stays open is accounted for.
LossAccounted == WriterTypeOK /\ PassedIsStored /\ OpenMatchesMemory

\* Unless a message does not parse, a writer that stays up reads the stream to
\* its end again and again, detached zones notwithstanding.
CatchesUp ==
  <>[]up /\ [](\A n \in 1..Len(detections) : detections[n].parses)
    => []<>(lastId = Len(detections))

\* identity/zone_presence.py:4 and 10, "Load zone polygons from DB (cached by
\* zone_cache_ttl_s setting)", "the tracker can be long-lived without holding a
\* stale DB connection": cached zones can be read.
CachedZonesReadable == HasNext /\ Projected => Readable
=============================================================================
