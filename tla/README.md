# Formal specification of the VMS video management system (`src/vms`)

This directory holds TLA+ modules for the video monitoring system in `src/vms`, from
the frames of a camera to the alerts that are sent, TLC configurations that check
them on small instances, and TLAPS proofs of the properties that matter most.
`PROJECT.json` maps every definition to the source lines it stands for; this file
explains how the modules relate to the code, what each run shows and what has been
proved.

## 1. The system

    cameras -> IngestionWorker --pixels--> SHMSlot
                     |                        |
                     +--> stream frames:gN -> InferenceEngine -> stream detections
                                                                   |          |
                       +-------------------------------------------+          |
                       v                                                      v
              DBWriter, IdentityEngine,                        AnomalyOrchestrator
              ZonePresenceTracker                               detectors -> AlertFSM <- MaintenanceCalendar
                       |                                          |              |
                  tracking_events,                          table alerts    stream alerts
                  zone_presence                                                  |
                                                                                 v
      API (routes, audit log)   <-- audit_log --   AlertDispatcher -> channels, alert_dispatches,
           |                                                          stream dead_alerts
           +-- stream faiss_dirty --> FaissIndex

Processes talk through Redis streams (each consumer keeps its own cursor, there
are no consumer groups), one PostgreSQL database and, for pixels, shared memory.
Inside a process everything runs in one asyncio loop, so two handlers of one
process interleave only where they await; processes, API threads and operators
interleave freely.

### Inventory

| part | state | operations | where it is hard | what makes it correct | here |
|---|---|---|---|---|---|
| Ingestion (`ingestion/`) | SHM header and pixels, failure counts, stream `frames:gN` | capture, back-off, `SHMSlot.write`, XADD with retries | no lock between writer and reader; a process dies in the middle; names that stay taken | pixels at most one frame behind their header; a segment is released by who ends; a failing camera settles | `FrameTransport`, proved |
| Inference loop (`inference/engine.py`) | `_last_id` | `run`, `_process_one_message` | stale, trimmed or vanished frames | every pointer is passed | `FrameTransport` |
| Inference of a frame (`inference/`) | the violence model's state per camera | detect, track, associate, embed, gear, violence, publish | lists matched by position, through stages that may be missing | a measure belongs to the person it is published for | `FrameRules`, `FramePipeline`, proved |
| Detectors (`anomaly/detectors`, `registry.py`) | slots of INTRUSION, counts of CROWD_DENSITY | `should_run`, `evaluate`, loading | cached zones and hours; rows that do not load | a report has its reason; an offender who stays is reported | `DetectorRules`, `Scene` |
| Maintenance calendar (`anomaly/maintenance.py`, `api/routes/maintenance.py`) | `_windows`, `_expires_at`; table `maintenance_windows` | `is_suppressed`, `refresh_now`; create, update, soft delete; view | a decision on a cached table; open and closed ends of windows; strict `get_prev` | staleness bounded by the TTL; the view tells what is suppressed | `MaintenanceCalendar`, `CalendarFreshness`, proved |
| Alert FSM (`anomaly/fsm.py`) | `_entries`; table `alerts`, stream `alerts` | `process`, `_fire`, `evict_closed`, `rebuild_from_db` | flush and XADD are two steps; memory, table and stream drift apart; restarts | one active alert per key; announcements once, in order; dedup until closed | `AlertFSM`, proved |
| Anomaly orchestrator (`anomaly/orchestrator.py`) | `_last_id`, error counts, `_frames_since_evict`; zone cache | `run`, `process_frame` | replay from `0-0`; a raising detector, FSM or query; eviction between two events | nothing stops the loop; alerts have evidence; a closed alert lets the next incident through | `AnomalyOrchestrator`, proved; `Scene` |
| Head count (`identity/head_count.py`) | `_last_seen`, `_by_zone` | `on_tracking_event`, `evict_stale` | two maps kept by hand, late frames | each track is counted in one zone | `Scene`, proved |
| Alert dispatcher (`dispatcher/`) | cursor key, `alert_dispatches`, `dead_alerts` | `_process_once`, `_handle_message`, `_dispatch_with_retry` | delivery, record, audit and cursor are separate steps; retries; swallowed exceptions | recorded once; accounted for before the cursor passes; every alert handled | `AlertDispatcher`, proved |
| Channel senders (`dispatcher/channels.py`) | none | `send` | which exceptions come out; delivered but failed | raise only `ChannelError` | as outcomes of a send |
| Audit log (`db/audit.py`, `api/routes/audit.py`) | table `audit_log`, its sequence, row locks | `write_audit_event`, `/audit/verify` | concurrent sessions, lock waits, rollbacks | one chain; a sound chain verifies | `AuditChain`, `HashChain`, proved |
| DB writer (`writer/db_writer.py`), zone presence (`identity/zone_presence.py`) | `_last_id`, `_msg_count`, `_current`, caches; `tracking_events`, `zone_presence` | `run`, `flush_detection_frame`, `update` | the cursor moves before the commit; memory moves before the rows; poison frames; expired ORM rows | what is lost or left open is accounted for; the loop catches up | `TrackWriter`, proved |
| Identity engine (`identity/engine.py`, `reid.py`, `topology.py`), BLE (`ble/`) | `_registry`, galleries, badge cursor | match, identify, anchor, evict; badge sightings | one id, one person, across cameras, badges, evictions, restarts; a stream that is trimmed under its reader; a polygon test that rounds | tracklets of a global id name one person; a face is not overwritten; a badge event is stored once; a gallery keeps the best of its windows | `IdentityEngine`, `IdentityRules`, `GalleryAndZones`, proved |
| Persons and face index (`api/routes/persons.py`, `identity/faiss_*.py`) | persons, embeddings, files; stream `faiss_dirty`; the index | enrol, purge; add, remove, replay, search | commit, then publish; replay over a loaded index; trims; files deleted afterwards | a purged person is not recognised; what is read is indexed once | `Enrolment`, proved |
| Cameras API, profiler (`api/routes/cameras.py`, `profiler/`) | the camera's row, its trail | register, update, probe, submit, recalibrate | overlapping requests that read, decide and write; a probe of a minute | profile and settings agree; the audit trail keeps up with the row | `CameraRules`, `CameraSetup`, proved |
| Partitions (`db/partition_manager.py`) | the partitions of `tracking_events` | ensure, drop | year ends, restarts after months, rows in the default partition | months do not run out while somebody ensures them; retention is kept | `MonthRules`, `Partitions`, proved |
| Scheduler jobs (`scheduler/jobs.py`) | none of their own | heartbeat check, audit walk, partition job | KEYS and TTL are two commands, and TTL rounds; expired keys are no keys; a job's alerts bypass the FSM | no living worker is accused | `SchedulerJobs`, proved |
| Other routes, schema, Redis helpers, storage | tables, files | reads and single-row edits, I/O | | | where the modules above need them |
| Networks, CLI, observability, `src/scripts`, `src/legacy` | | | | | not modelled (section 6) |

## 2. Modules

                        Selection
                         |      |
                         v      v
    FrameTransport  FrameRules  DetectorRules          MaintenanceCalendar --> CalendarFreshness
          |              |          |                          |                       |
          |              +----+-----+                          v                       |
          |                   v                            AlertFSM                    |
          |             FramePipeline                          |                       |
          +-------+-----------+                                v                       |
                  v                                    AnomalyOrchestrator             |
              MCFrames                                                                 |
                          AlertDispatcher     AuditChain : HashChain                   |
                                                                                       |
    People --> Enrolment --------+      Places --> Scene                               |
       |                         v        |                                            |
       +-----> IdentityEngine -> MCPeople +------> TrackWriter ------------+           |
                  ^                 ^                                      v           v
             IdentityRules --> GalleryAndZones  CameraRules -> CameraSetup -> MCUpkeep <---+
                                            MonthRules --> Partitions ------^ ^
                                            SchedulerJobs --------------------+

An arrow reads "is extended by"; `:` is an instance. `X_proofs` extends `X`, and four
modules hold the proofs about several: `Frames_proofs` (`FrameTransport`,
`FramePipeline`), `People_proofs` (`Enrolment`, `IdentityEngine`, `GalleryAndZones`), `Places_proofs`
(`Scene`, `TrackWriter`), `Upkeep_proofs` (the rest of `MCUpkeep`). Each `.cfg` is
one question. Where parts share no state, one MC module puts them side by
side and a behaviour belongs to one of them (`MCFrames`, `MCPeople`, `MCUpkeep`): the
states of the parts add up instead of multiplying. A property is a conjunction of
named parts where one question has several sides (`SlotSound`, `CameraAsRequested`);
each part is stated and explained on its own. Mutants (`Mutant of X`) stand next
to the definition they alter; each is a plausible slip in that code, and shows
that the property it is listed with in `PROJECT.json` can fail. They are no part
of any specification.

**FrameTransport** is a camera's worker process, its shared memory segment, the
pointer stream and the loop of the group's engine. `Capture` writes the header
and `Copy` the pixels: the engine may open, read the header and read the pixels
(`OpenSlot`, `ReadPixels`) before, between and after. Segments are numbered by the start
of the worker that created them and `name[c]` is the one the name stands for, since the
engine goes on reading a segment whose name has been removed. A pointer is of the run that wrote it: a name that
stands for another run's segment, which may be of another size, opens or fails like a name that is gone (`OpenFails`). `Kill` ends a
process anywhere, and Python's resource tracker may or may not remove the name.
An XADD that raises may or may not have added the pointer.

**FrameRules** and **FramePipeline** follow one frame through the models. `FrameRules`
has what the wrappers decide (which file is loaded and what stands in for it,
thresholds, NMS, crops, quality, which face goes with which body), with the networks' answers as
input; `FramePipeline` puts them in the order of `_process_one_message`, then the
message through `orchestrator` and detectors. **DetectorRules** has the detectors that look at
one frame, and the registry. The loops that skip entries are written with **Selection**: the
entries at a set of indices, in order.

**Scene** is what the orchestrator hands its detectors over time: the cached zones,
the zones of the tracks, the head count; with INTRUSION, whose hours are cached per
zone and never dropped, and CROWD_DENSITY. What a trespasser is, is said by the hours in the table, not by those the
detector remembers. Time is kept as ages, so behaviours are endless.

**MaintenanceCalendar.** `db` is the table, `cache` the list `_windows`, `age`
the time since the last refresh (a clock relative to `_expires_at`, stuck at TTL
once the cache has expired). `Suppressors(e)` is the set of windows
`is_suppressed` may return: the table has no order. `Covers` keeps the code's
boundaries: closed one-time windows, and the strict `get_prev` of croniter, so an
event at the very start of an occurrence is compared with the previous one;
`Slots` expands a window as the calendar view does, which includes the start.
The three routes are actions; their publication on `maintenance_window_changed`
has no subscriber, hence no effect. **CalendarFreshness** runs lookups against
edits with one history variable, the ticks since each window was last saved.

**AlertFSM.** `entries` is `_entries` without `last_seen_ts`, which the code never
reads. `alerts` is the table (the id is the position), `stream` the ids
published. `process` awaits at one place, the XADD: `FireActive` is `_fire` up to
it and sets `pending`, `Publish` or `PublishRaises` is the rest. Between the two,
operators, API edits, the clock and a crash may act. `Durable` says whether a
flushed row outlives its session: `TRUE` is the session the tests share, `FALSE`
the documented `session_factory=SessionLocal`, under which nobody commits it.

**AnomalyOrchestrator** extends AlertFSM and replaces its free calls by the loop of
`run` and `process_frame`: the cursor `_last_id` (memory only), the detector whose
turn it is, the error counts, the eviction counter. `missed` counts the sightings of a key
that the entry of an alert no longer active has absorbed. What a detector says of a frame
is data of the frame (`FramePipeline` and `Scene` have where it comes from); that it
raises instead, that the FSM raises, that the frame does not parse, are choices. A query of `evict_closed` or an XREAD that raises ends
`run`, which is `CrashOrchestrator`.

**AlertDispatcher.** `phase` is where the one task is: each phase is separated from
the next by an await, a commit or a call that may raise. `attempt` counts the
flushed, uncommitted failure rows of the rule in hand; `failed`, `succeeded` are
committed rows. `cutShort` remembers the alerts whose handling an exception other than
`ChannelError` ended: `_handle_message` swallows it and the cursor moves on.
`Failures` selects what may go wrong, so that one module serves runs with different assumptions. `StrCursor` is the `decode_responses` of the
Redis client.

**AuditChain.** Sessions at READ COMMITTED: `Select` picks the newest row of its
snapshot and waits for its lock, `Wake` returns that same row, `Insert` draws the id
from the sequence, `Commit` makes the row visible. A hash is the id of the row it
belongs to. `overlapped` remembers that two sessions ran at once; as long as it is
false the log implements **HashChain**, what the design promises: a row links to the
head and becomes the head.

**TrackWriter** is the writer's batch (`ReadBatch`, `WriteFrame`, `CommitBatch`) over
`_last_id`, which moves with every message, and the tracker's `_current`, which moves
at once; `Rollback` undoes the rows only. History variables say which frames were
lost to a rollback or a failing statement, and which rows were left open by one.
`Factory` is how the session treats loaded rows after a commit: with the default they expire,
and cached zones cannot be read until the cache is refreshed.

**Enrolment** has the two API requests as transactions with their publication after
the commit, the stream with its trimming, the task that replays it from the start
over an index that may have been loaded from the database, the files of thumbnails,
and searches. **IdentityEngine** has the registry, with time and similarity as
integers, the galleries (`Admit`), identification through the index, cross-camera
matches within a transit time, badges that anchor whoever is unidentified, and
`evict_stale`. The consumer of badge events has its batch (`ReadBadges`), its cursor, which is memory,
and the ways out of `run`: a message that does not parse (`BadgeEnds`), an XREAD, resolver or
session factory that raises (`BadgeLoopRaises`); the stream is trimmed as XADD's MAXLEN allows.
**IdentityRules** holds the pure ones: gallery, transit gate, fusion, polygon test;
**GalleryAndZones** lets crops come to a gallery one after another (`AddCrop`), at times that
do not go back, and foot points to zones. The polygon test divides floats: a crossing is
computed with an error of up to `Slack`, which depends on the direction an edge is
traversed in, and so on the zone.

**CameraRules** and **CameraSetup.** The rules turn a probe into a profile, a profile
and overrides into settings. In `CameraSetup` each request has its loaded copy of the
row, and `CommitRow` writes the columns that differ from it, as SQLAlchemy does; an audit
event is a second transaction, with the row read again in between (`RefreshRow`). **MonthRules** and **Partitions** count months from
year zero; the calendar advances while the process is up or down. **SchedulerJobs** are
the jobs step by step next to what they look at. Nothing in `vms` writes a heartbeat, so the
workers are the ones of `.kiro/specs/vms-facial-recognition/requirements.md:226`: they set a key with a
life (`BeatLife`) and set it again in time (`BeatEvery`) while they are alive, and the key of one
that stops goes on until it expires. Time goes by in half seconds, as TTL rounds to seconds.

## 3. Runs

| run | bounds | states | what it shows |
|---|---|---|---|
| `fsm` | 2 keys (sustain 0 and 1), 1 window that comes, goes and changes, times 0..1, 3 rows | 711k | memory, table and stream agree, one active row per key, announcements once and in order, dedup across restarts, incidents of a key follow one another |
| `fsm_percall` | same, `Durable = FALSE` | | violation: nothing commits the row, so the announced alert is unknown after a restart or an eviction, against `fsm.py:56` |
| `orchestrator` | 2 detectors, 3 frames of 3 kinds, times 0..1, crashes and replays, 2 rows, eviction every 2 frames, 1 error disables | 159k | the loop implements AlertFSM; no alert without two sightings a sustain time apart; a closed alert absorbs no more than two sightings of its key; every frame is passed |
| `dispatcher` | 3 rules on 2 channels, 2 alerts of 2 kinds, 2 attempts, every failure, the loss of the cursor key included | 365k | a delivery is recorded once per alert and channel; a dead letter is backed by committed failures; an alert passed without another failure than a channel's has record or dead letter; every alert is handled in the end |
| `dispatcher_cursor` | 1 rule, 2 alerts, `decode_responses=True`, nothing fails | | violation: the loop never reads past the first batch, against `worker.py:86` |
| `audit` | 2 sessions, 5 ids, clock 0..2 | 327k | links lead back to committed rows; a row has at most one successor per session; nobody waits for the lock for ever; while sessions do not overlap the log implements HashChain and every window verifies, whatever rolls back |
| `audit_fork` | 2 sessions, 3 ids | | violation: both link to the same row, against `tests/test_db_audit.py:80` |
| `people` | enrolment: 2 persons, 1 face, 2 requests, 2 rows, 3 messages, a stream of 2; engine: 2 cameras, a tracklet each, 2 persons, 1 badge, times 0..2, 3 badge events, trimmed down to 1 or not, read 2 at a time; gallery: 4 crops of 3 qualities, a window of 2, 2 slots; zones: 9 cuts of a square, the points of a 9 x 9 grid, the cut computed with errors of -1..1 from either side | 670k | a purged person is answered only until the removal arrives, what is read is indexed once, files are accounted for; tracklets of an id name one person, a face is not overwritten by a badge, a badge event is stored once and passed without a row only for a reason; the gallery keeps the best of its windows; a foot point that is not within the error of a cut is in one zone; both consumers catch up |
| `frames` | transport: 1 camera, 2 starts of 2 frames, 2 attempts, 3 pointers, a stream of 2; pipeline: 2 of 4 people and of 4 faces, 5 sets of model files, 3 contexts | 369k | the unlocked slot; failing cameras settle, every pointer is passed; measures are those of the person or the face they are published with, reports have their reason |
| `scene` | 2 tracks, 2 zones, TTLs of 1, frames up to 1 late, restarts | 123k | nobody is counted twice; frames see zones and counts no older than the TTLs; offenders who stay are reported, trespassers unless a restricted zone has been open while the process ran |
| `upkeep` | calendar: 2 windows (one-time of a camera, recurring of a zone), TTL 3; camera: 3 requests, 2 at a time, 4 streams; partitions: half months from a December on; writer: 2 tracks, 2 zones, 3 frames, 1 eviction or restart; jobs: 2 workers, heartbeats of 3 half seconds renewed after 1, 2 audit rows, 2 alerts | 557k | a decision is less than one TTL stale, the view tells what is suppressed; profile, row and trail agree while requests do not overlap, and the last change of the overrides is told even if they do; months stay ahead, retention is kept; no living worker is accused; a frame that is not stored is accounted for, memory and open rows agree, the writer catches up |
| `critical_routed` | the jobs of `upkeep` | | violation: a job's alert is never announced, against `jobs.py:37` |

The violations are listed with the text they contradict under "findings" in
`PROJECT.json`. Ten more statements the code does not keep are formulas of their
modules, to be checked on demand by naming them in a configuration (`ExpiryNoticed` in one of `SchedulerJobs` itself, under `WatchfulSpec`):

| formula | text | what happens |
|---|---|---|
| `AlertFSM!EvictKeepsSustaining` | `fsm.py:71` | an eviction drops entries that still sustain; the window starts again |
| `AlertDispatcher!EveryRuleServed` | `README.md:290` | the second rule of a channel finds the first one's success row and is skipped |
| `TrackWriter!CachedZonesReadable` | `zone_presence.py:4`, `:10` | a commit expires the cached zones of a closed session; the next frame raises |
| `Enrolment!ErasureHolds`, `Converged` | `README.md:808`, `db_writer.py:163` | an enrolment in flight inserts after the purge; a trimmed or twice replayed stream leaves the index different from the table |
| `FrameTransport!PointedFrame` | `README.md:161` | `seq_id` is not compared; the frame is whatever the slot holds |
| `FramePipeline!OneTrackletPerFace` | `inference/engine.py:51` | the loop over the tracklets has no `break`: a face whose centre lies in the boxes of two people goes to both (`AssociateFaces`) |
| `FramePipeline!BodyQualityPublished` | `inference/messages.py:26` | `_score_ppe` makes the tracklet anew without `body_quality_norm`: it is 1.0 wherever a PPE model is loaded |
| `Scene!TrespasserReported` | `README.md:243` | `_slots_for` (`intrusion.py:101`) keeps the hours a zone had when it was first judged: one that is forbidden again later is never watched |
| `SchedulerJobs!ExpiryNoticed` | `requirements.md:227` | KEYS returns no key that has expired: a worker that ends between two checks, but for the last half second of its key, is never reported |
| `Partitions!AlwaysEnsurable` | `partition_manager.py:27` | rows in the default partition make every later creation of their month fail |

Where a comment, a document or a test says otherwise than the code and no run is
needed to see it, the modules follow the code:

* `fsm.py:84` says an alert deduplicates until it is resolved; `evict_closed` keeps
  active alerts only, so acknowledging is enough (`EvictClosed`).
* An alert whose XADD raised stays active, is deduplicated and never announced
  (`PublishRaises`); the README's lifecycle has every active alert fanned out.
* The hardened design has the calendar invalidated by edits (line 275); nothing
  subscribes to `maintenance_window_changed`, the TTL is all there is (`MaybeRefresh`).
* The phase 2b plan (line 74) relies on a UNIQUE constraint to absorb replays; the
  index on `dedup_key` is not unique, and a closed alert is raised again from the
  same frame after a restart (`StartOrchestrator`).
* CROWD_DENSITY is to last "10s continuous" (hardened design, line 209); frames in
  which a rule does not hold leave its entry alone (`KeepSustaining`).
* The dispatcher plan promises idempotent retries; a crash between the receiver's
  answer and the commit delivers again (`SendReturns`, `RecordSuccess`).
* `channels.py:3` says a sender raises `ChannelError`; a body that is no JSON raises
  `ValueError` (`SendEscapes`), and the alert is passed without record.
* `audit_id` is to be gap-free (edge cases, line 483); a rollback loses the id the
  sequence has handed out (`Insert`, `Rollback`).
* `set_head_count_aggregator` (`state.py:20`) is called by nobody: the count `Scene`
  shows correct does not reach the snapshot.
* Nothing in `vms` writes the `heartbeat:*` keys `jobs.py:116` looks for: `SchedulerJobs` has
  workers that do.
* The requests for a camera may undo each other where both ask for the same column: the
  later commit stays, and the event of the earlier one may come last (`AuditRow`).
* `submit_profile` (`cameras.py:244`) overwrites a tier or shutter an operator has set.
* A bridge may give two tracks of one camera the same global id, and a tracker that
  restarts reuses its local ids (`IdentityEngine`); the registry goes on naming a purged person.

**Why the bounds are enough.** The FSM's properties relate the rows of one key, or
one row and one message: two keys show that keys do not disturb each other, three
rows that a key can be raised, closed, raised again and still meet a row of the
other. One sustain time of 0 and one above it are the two branches of `process`; a
window that may be saved in every form covers both outcomes of the lookup. Two
detectors suffice for one to silence or skip the other. Three frames with an eviction
after every second one put an eviction between the two sightings of a sustain
window, and replays repeat them in every order a restart allows. For the dispatcher,
two rules of one channel and one of another are the cases of the idempotency guard;
two alerts make a batch with a message after the current one; two attempts are a
first and a last. Two audit sessions are one holder and one waiter; five ids let a fork
be followed by another row, and let a row have more successors than sessions if the
code allowed it.

A worker that starts twice leaves a segment behind or does not; two frames are enough
for a header of one with the pixels of the other, and two attempts for a retry and a
drop; a stream of two trims under the engine's cursor. The shots of `MCFrames` have
two people and two faces out of four each, among them those that overlap, leave the
frame, are too small, or hide one another, and five sets of model files, from all to
none. Two tracks and two zones let one zone be edited, created and deleted while the
other overflows; a clock of ages has no bound. One face, two persons and two requests
overlap an enrolment with a purge and with another enrolment; two tracklets on two
cameras, one embedding and one id confuse whoever can be confused. Three badge events read two at a time
are trimmed in front of the consumer, in its batch and behind it. Three requests, two at a time, overlap
every pair of requests for a camera. A heartbeat of three half seconds that is renewed when one has passed
leaves a living worker the least time the assumption allows, and a key that runs out all the times TTL tells apart. The partitions run over a December and the four months after it, with rows late by
more than a month, and any date for retention. Three frames with an eviction or a
restart open, move and close a zone's row around a rollback. What the bounds leave open is
proved, where section 5 says so.

`MaxAlerts`, `MaxTime`, `MaxFrames`, `MaxMessages`, `MaxRows`, `MaxRuns`, `MaxSeq`,
`MaxPointers`, `MaxRequests`, `Horizon`, `MaxGid`, `MaxBadges` and `MaxEpoch` only bound the
instance. Where they stop the last action there is, a configuration says
`CHECK_DEADLOCK FALSE`, and why.

## 4. Fairness

* `FairOrchestratorSpec`: weak fairness of the loop as a whole. asyncio runs a
  ready task; which branch an evaluation takes is nobody's promise. `EveryFrameHandled`
  moreover presumes that the process stays up from some time on.
* The dispatcher's `FairSpec`: weak fairness of the task, and strong fairness of `Ack`,
  the SET of the cursor: Redis may refuse it any number of times but not always.
  Failing senders, databases and dead letters need no fairness, since each way out of
  a message leads to the SET.
* `AuditChain`'s `FairSpec`: a transaction that is not waiting ends, by commit or
  rollback (the engine's sessions are closed by their request), and the lock manager
  eventually grants a lock that is free again and again to a session that waits.
* `FrameTransport`: the loops of live processes go on. No step that fails is unfair to
  the others, as each raises out of the loop or counts up to a bound.
  `EveryPointerPassed` presumes that the engine stays up from some time on.
* `Scene`: frames keep coming and time passes, so a zone that is edited is read again.
* `TrackWriter` (repeated in `MCUpkeep` for the behaviours that are its own): the task runs and
  time passes (weak); a statement or commit the database may refuse is granted in the end (strong).
* `Enrolment`, `IdentityEngine`: the consumers' loops go on as long as nothing raises out of them;
  nothing is promised of a loop that has ended.
* `SchedulerJobs`, for `ExpiryNoticed` only: one check follows another and ends (`WatchfulSpec`).

The other parts have safety properties only, and are run without fairness.

## 5. Proofs

All theorems hold for every value of the constants that satisfies the named
`ASSUME`s: the calendar's `CalendarAssumption` (a positive TTL; a soft delete yields
a row; the null value is none), `FSMAssumption`, `NoEntryAssumption`,
`OrchestratorAssumption` (a detector reports events of its own keys, stamped with the
frame's time; keys carry the detector's name, so two detectors share none),
`DispatcherAssumption` (at least one attempt; the null rule is none),
`WindowAssumption` (a one-time window has its two instants, a recurring one its
firings and a duration: the CHECK constraints of the table), `EngineAssumption`
(thresholds, sizes and similarities are numbers; badges are held by persons or nobody),
`PipelineAssumption` (people and faces come as lists, with scores in percent; BoT-SORT gives each
person of a frame an id of its own; `alert_type` is unique, as its column is; the gear threshold is
above zero; the entries of a track in the identity registry agree on the person, which is what
`GidsNameOne` proves of it), `InputsAssumption` (times and qualities are naturals, a gallery has
room; the first crop comes later than a window after time zero, as times are counted from 1970;
corners are pairs of integers, and a cut goes from one to a later one),
`AuditAssumption`, `TransportAssumption`, `PartitionsAssumption`, `CameraAssumption`,
`SceneAssumption`, `WriterAssumption`, `EnrolmentAssumption`, `JobsAssumption` and `BeatAssumption`
(a heartbeat outlives the time to the next by a second: 15 s and 10 s). Where
a theorem needs more, its statement says so:
`DurableDedup` needs `Durable`, `ForkBound` a finite set of sessions. `IsOneChain` and `WindowsVerify` speak of the time before
two sessions overlap.

| module | theorem | property | argument |
|---|---|---|---|
| `AlertFSM_proofs` | `TypeCorrect` | (`TypeOK`) | action by action, with lemmas on the inserted row and on the refresh |
| | `DedupSafety` | `DedupSound` | uniqueness alone is not inductive: that a key has no active row when it fires is known only from memory, so the invariant adds that a running process tracks every active row |
| | `StreamSafety` | `AnnouncedInOrder` | the invariant adds that the awaited alert is the newest row, later than everything announced, and is not suppressed |
| | `DurableDedup` | `AnnouncedIsDeduped` | for `Durable`, from the two invariants above: an announced row that is still active is tracked, and announced rows are never suppressed or lost |
| | `SerialIncidents` | `SerialRows` | a step of the invariant: only a key without active row inserts |
| `AnomalyOrchestrator_proofs` | `Implementation` | `ImplementsAlertFSM` | each step of the loop is a step of the FSM or leaves its variables alone; all results above carry over (`OrchestratorDedup`: `DedupSound` of the loop) |
| | `OrchestratorTypeCorrect` | (`OrchestratorTypeOK`) | with `PendingInFrame`: a publication is awaited only in the middle of a frame |
| | `ClosedAlertsRelease` | `ClosedAlertsLetGo` | an entry absorbs at most one sighting a frame, and an eviction takes the entries whose alert is not active: what a key has missed is bounded by the frames since the last eviction and the one in hand (`MissedInv`), through failing publications, new detectors' turns and restarts |
| | `Evidence` | `SustainEvidence` | a row inherits its evidence from the entry it is raised from, so the invariant adds that an entry which still sustains began at a sighting of its key (`EntryEvidence`); entries rebuilt after a restart carry an alert and are never fired from |
| `AlertDispatcher_proofs` | `TypeCorrect` | (`TypeOK`) | with `HandOnStream`: the message in hand is on the stream and the batch ends on it |
| | `RecordsUnique` | `RecordsSound` | the idempotency guard at `NextRule`; a send in flight has no success row for its channel, and only that send may write one |
| | `DeadLettersBacked` | `DeadLetterBacked` | committed counts never go down, and they are full when the XADD to `dead_alerts` is due (`DueIsBacked`) |
| | `NothingPassesUnaccounted` | `PassedIsAccounted` | every rule of the message in hand is to come, being served, or served, until it is acknowledged; records and dead letters are never taken back, and what an exception cuts short is in `cutShort` |
| `AuditChain_proofs` | `BackLinks` | (part of `LinksSound`) | the invariant adds that what a writer has read is committed, smaller than the next id and than its own, and that no two writers own one id |
| | `ForkBound` | `LinksSound` | the successors of a row together with the sessions that have read it and may still link to it never outnumber the sessions: once there is a successor, the row is not the newest and nobody new reads it |
| | `OneChainWithoutOverlap` | `IsOneChain` | refinement: while no two sessions have overlapped, between `Select` and `Commit` the newest row stays the one that was read |
| | `SoundLogVerifies` | `WindowsVerify` | without overlap and with a clock that does not go back, timestamps are in the order of the ids; a row between two neighbours of a window would be in the window too |
| `Frames_proofs` | `SlotSafety` | `SlotSound` | the header leads the pixels by one exactly while the worker copies (`SlotInv`); headers of a segment only grow, so what the engine took from it stays within one of its pixels (`EngineInv`), also when name, worker or engine have changed since |
| | `MeasuresAreMatched` | `MeasuresMatched` | the message is, stage by stage, a function of what the camera saw (`MessageOfShot`, `FrameOf`), so the claim is about the stages: each keeps people, order and ids (`FacesKeep`, `BodiesKeep`, `GearKeeps`); NMS keeps a best candidate (`NMSKeepsBest`); a tracklet gets the first face inside its box (`FirstFaceIsGiven`) and a face that was embedded (`FacesAreEmbedded`) |
| | `ReportsAreJustified` | `ReportsJustified` | the reports are those of the message in hand (`ReportsOfMessage`); somebody without an item beyond doubt is the one whose best kept score is below the threshold (`ViolationsAreBare`, `BareAreReported`), by `NMSKeepsBest` again; the index sets of `LoadEnabled` part the enabled rows into loaded and in error (`RowsAreAccounted`) |
| | `NobodyKnownReported` | (`KnownIsNotReported`, part of `ReportsJustified`) | the detector finds the track by the first entry of a tracklet and the person by the first entry of the track, which agree |
| `People_proofs` | `PurgesLeaveNothing` | `PurgeLeavesNothing` | a row is announced by one addition (`AddsOnce`), messages and requests in hand speak of rows of their person (`StreamInv`, `HandsInv`), and what the index holds is the face of its row or one whose removal is still to be read (`IndexInv`) |
| | `AdditionsIndexed` | `ReadIsIndexed` | by the same invariant: `AddsOnce` keeps replays from doubling an addition, and a removal speaks of blank rows only |
| | `GidsNameOne` | `OnePersonPerGid` | identification names every tracklet of the gid at once, a badge every tracklet without a name (hence all of a gid or none), an eviction names nobody |
| | `BadgeRowsOnce` | `BadgesStoredOnce` | rows are those of events behind the cursor (`RowsInv`), which only goes forward in one life of the process; a batch starts behind the cursor or behind what has been trimmed |
| | `FacesStand` | `FaceIdentityStands` | who is known by a face is somebody (`FacesName`), so no badge names them; a sighting without a face renews the anchor of the gid, which agrees |
| | `IdentityRulesAlways` | `IdentityRulesHold` | the list of windows opened so far and of the first best crop of each (`Windowed`) is kept although the gallery forgets its beginning: a crop opens a window, replaces the last of the best, or changes nothing, and `LastOf` of the list follows (`LastOfOneMore`, `LastOfReplaced`). A ray crosses an edge from either end or from none (`CrossesEitherWay`), so a cut adds the same crossing to both zones wherever no error reaches (`Beside`), and each other edge is one zone's (`CutCounts`): parity does the rest |
| `Places_proofs` | `HeadsInOneZone` | `HeadsCountedOnce` | the two maps change together at every move, eviction and restart |
| | `FramesJudgedByTheRecent` | `FramesSeeTheRecent` | a cached row was the table's when it was read, so it is no older than the cache (`RowsHeld`); a counted track was seen within the TTL of the last frame (`SeenLately`) |
| | `WriterAccountsForLoss` | `LossAccounted` | the open transaction differs from the database only in the rows of tracks it has moved and the events it holds (`BatchInv`), so a rollback strands those tracks and loses those frames, and no others |
| `Upkeep_proofs` | `Freshness` | `StalenessBounded` | the cache of an unexpired calendar differs from the active rows only at windows saved since its refresh |
| | `ViewTellsSuppression` | `CalendarTellsSuppression` | `_covers` asks for the latest firing before an instant, the view for any that reaches it: of the firings before an instant there is a latest (`LatestBefore`), and if an earlier one reaches the instant, so does that one |
| | `SetupAsRequested` | `CameraAsRequested` | while requests come one at a time, what a request loaded is what the row still says when it commits; the invariant follows it through probe, publication, commit and audit event |
| | `TrailKeepsUp` | `LastChangeTold` | a commit changes the overrides only for a request that set them (`AsksInv`), and from then on the change is in the hands of a request that has yet to read the row again, or has read it as it is (`ToldInv`); a later change starts anew |
| | `MonthsStayAhead` | `PartitionsAhead` | whoever ensured the months last covered `JobAhead` of them at least, so the months not ensured since are still covered (`idle`); rows of covered months never reach the default partition, so creation succeeds again |
| | `OnlyThePastIsDropped` | `RetentionKept` | month arithmetic across year ends |
| | `NobodyAccusedFalsely` | `NoFalseAlarm` | who is alive has a second left at least (`KeysRenewed`), which no TTL rounds to nothing (`NoTimeLeft`); who is not, while a check runs, is remembered as fallen (`FallsSeen`) |

Each theorem about a part of `MCFrames`, `MCPeople` or `MCUpkeep` is about the
specification of that part on its own; in the composed run a behaviour is one of a
part, and the rest stands still.

What a loop leaves behind, however long its input, is induction over data, and the library's
induction theorems cannot be instantiated here. `Frames_proofs` takes the least
counterexample instead. A set of naturals has a least element because `<` is well founded
(`LeastOf`), so a claim about lengths holds upwards (`Upwards`) and a claim about
finite sets of indices holds if it survives taking one of them away (`SubsetsByRemoval`). From
these, the recursive function inside a fold exists (`FoldExists`, `LeftFoldExists`), and
each loop written as a fold unfolds by one entry: `At` (`AtUnfolds`), NMS
(`NMSUnfolds`), the association of faces (`AssociationUnfolds`). What they select, keep
and give (`AtSelects`, `NMSKeepsBest`, `FirstFaceIsGiven`) follows, again by the least
counterexample. The first entry `FirstThat` finds and the latest firing of a schedule
(`Upkeep_proofs`) rest on a least element too.

Every invariant of the passing runs has its theorem. Checked by TLC only is liveness, which
is beyond the prover together with ENABLED: `EveryFrameHandled`, `EveryAlertHandled`,
`NoWriterStarves`, `FailingCameraSettles`, `EveryPointerPassed`, `OffendersReported`,
`ConsumersCatchUp`, `CatchesUp`.

Theorems of invariants no run lists on its own are those of `TypeOK` and
`OrchestratorTypeOK`, which the others rest on, and of `KnownIsNotReported`, a part of
`ReportsJustified`. No module has a RECURSIVE operator.

## 6. Not modelled

* The networks themselves and what they see: detections, embeddings, keypoints, gear and violence
  scores are inputs, taken from small sets that include the awkward ones. Letterboxing, image
  quality in pixels and exports of models.
* The wording of messages, JSON and PDF layouts, presigned addresses, clips.
* `src/scripts` (training, evaluation and simulation of models, more than a third of the lines
  that are no tests) and `src/legacy` (the prototype before `vms`): stand-alone programs without
  concurrent state. The CLI, settings, logs and metrics start or observe what is modelled.
* Migrations but the one that seeds the partitions; authentication, users and the single-row edits
  of routing rules and detectors, each one statement in one transaction.
* More than one orchestrator or dispatcher at a time, and changes of the routing
  table while alerts are being served. The deployment the README starts has one of each.
* Trimming of `detections` and `alerts` by MAXLEN: their cursors always find the messages
  they have not read. (`frames:gN`, `faiss_dirty` and `ble_events` are trimmed.)
* Collisions of the audit hash, and tampering with rows.
* Homographies beyond being there or not; the arithmetic of nearest neighbours in FAISS. Of floating
  point, the polygon test has the rounding of its crossings; similarities and scores are integers.
* MQTT's delivery and the RSSI filter: a sighting arrives on its stream or does not.

## 7. Order of work

The alerting core came first (calendar, FSM, orchestrator, dispatcher, audit), then the
identity of persons (index, engine, badges), frames and their rules, the writer, cameras,
partitions, jobs; proofs followed where an invariant holds for every size of the
system. What would add most from here:

1. One pipeline out of `FramePipeline`, `Scene` and `AnomalyOrchestrator`, whose frames are
   then those that `FramePipeline` publishes, and with `AlertDispatcher` behind the `alerts` stream.
2. Two dispatchers on one cursor, and edits of the routing table in the middle of a fan-out.
