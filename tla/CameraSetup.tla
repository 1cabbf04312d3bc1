---------------------------- MODULE CameraSetup ----------------------------
(***************************************************************************)
(* src/vms/api/routes/cameras.py: the requests that change the row of one  *)
(* camera.  Each has a session of its own, in the thread pool or, for the  *)
(* two routes that publish, as a coroutine that gives way while it does;   *)
(* /profile holds its row while it probes the stream for a minute.         *)
(*                                                                         *)
(* A commit writes the columns whose value differs from the one that was   *)
(* loaded, and no others.  Columns no rule reads (name, URL, activity,     *)
(* group, time of profile or recalibration) are left out.                  *)
(***************************************************************************)
EXTENDS CameraRules, Sequences

CONSTANTS
  Request,      \* requests that can be under way at the same time
  Stream,       \* what a probe may find: [height, declared, reads, focus, combed, skew]
  Override,     \* what operators may override: sets of settings
  Correction,   \* the tiers and shutter types operators may enter
  NoSession,        \* no session
  MaxRequests   \* bound on the requests of a behaviour

ASSUME CameraAssumption ==
  /\ Stream \subseteq [height : Nat, declared : Nat, reads : Seq(BOOLEAN), focus : Nat,
                       combed : BOOLEAN, skew : Nat]
  /\ Override \subseteq SUBSET Setting
  /\ Correction \subseteq [tier : Tier, shutter : Shutter]
  /\ MaxRequests \in Nat

\* The profiles of the streams for which a probe does not raise.
Profile == [s \in {t \in Stream : ~Insufficient(t)} |-> Probe(s)]
Measured == {Profile[s] : s \in DOMAIN Profile}

NoProfile == [height |-> Unknown]

CameraRow ==
  [tier : Tier, shutter : Shutter, overrides : Override \cup {{}},
   profile : Measured \cup {NoProfile}]

Column == {"tier", "shutter", "overrides", "profile"}

VARIABLES
  camera,       \* the row
  phase,        \* where a request is
  route,        \* the route it takes
  loaded,       \* the row it has loaded
  wanted,       \* that row with its assignments; after the commit, refreshed
  served,       \* requests so far
  trail,        \* the CAMERA_OVERRIDES_UPDATED events of the audit log
  overlapped,   \* history: two requests have been under way at the same time
  untold,       \* history: an overrides change was committed and not audited
  edited,       \* history: an operator's row is more recent than the profile's
  changedAt     \* history: the first event that may tell of the last change of the
                \* row's overrides; 0 when they never changed

cameraVars == <<camera, phase, route, loaded, wanted, served, trail, overlapped,
                untold, edited, changedAt>>

CamerasTypeOK ==
  /\ camera \in CameraRow
  /\ phase \in [Request -> {"idle", "probing", "publishing", "ready", "committed",
                            "refreshed"}]
  /\ loaded \in [Request -> CameraRow \cup {NoSession}]
  /\ wanted \in [Request -> CameraRow \cup {NoSession}]
  /\ served \in 0..MaxRequests
  /\ \A i \in DOMAIN trail : trail[i] \in [from : Override \cup {{}}, to : Override \cup {{}}]

CamerasInit ==
  /\ camera \in {[tier |-> t, shutter |-> s, overrides |-> {}, profile |-> NoProfile] :
                   t \in Tier, s \in Shutter}
  /\ phase = [r \in Request |-> "idle"] /\ route = [r \in Request |-> "none"]
  /\ loaded = [r \in Request |-> NoSession] /\ wanted = [r \in Request |-> NoSession]
  /\ served = 0 /\ trail = <<>>
  /\ overlapped = FALSE /\ untold = FALSE /\ edited = TRUE
  /\ changedAt = 0
-----------------------------------------------------------------------------
\* A session loads the row; the route assigns to its attributes.
BeginRequest(r, path, next, row) ==
  /\ phase[r] = "idle" /\ served < MaxRequests
  /\ served' = served + 1
  /\ phase' = [phase EXCEPT ![r] = next] /\ route' = [route EXCEPT ![r] = path]
  /\ loaded' = [loaded EXCEPT ![r] = camera] /\ wanted' = [wanted EXCEPT ![r] = row]
  /\ overlapped' = (overlapped \/ \E q \in Request \ {r} : phase[q] # "idle")
  /\ UNCHANGED <<camera, trail, untold, edited, changedAt>>

\* Columns the body does not give keep their value: here, the loaded one.
UpdateCamera(r) ==
  \E x \in Correction :
    BeginRequest(r, "update", "ready", [camera EXCEPT !.tier = x.tier, !.shutter = x.shutter])

\* Only a super_admin, which no row of users can be: a token made elsewhere.
UpdateHardware(r) ==
  \E x \in Correction :
    BeginRequest(r, "hardware", "publishing",
                 [camera EXCEPT !.tier = x.tier, !.shutter = x.shutter])

\* The body replaces all overrides there were.
UpdateOverrides(r) ==
  \E o \in Override :
    BeginRequest(r, "overrides", "publishing", [camera EXCEPT !.overrides = o])

SubmitProfile(r) == BeginRequest(r, "profile", "probing", camera)

\* The rows of a session go with it.
Continue(r, from, to) ==
  /\ phase[r] = from /\ phase' = [phase EXCEPT ![r] = to]
  /\ IF to # "idle" THEN UNCHANGED <<route, loaded>>
     ELSE /\ route' = [route EXCEPT ![r] = "none"]
          /\ loaded' = [loaded EXCEPT ![r] = NoSession]

\* CameraProfiler.probe, and what submit_profile makes of it: "unknown" is a
\* suggestion as well.
ProbeReturns(r) ==
  /\ Continue(r, "probing", "ready")
  /\ \E d \in Measured :
       wanted' = [wanted EXCEPT ![r].profile = d, ![r].tier = AssignTier(d),
                                ![r].shutter = d.shutter]
  /\ UNCHANGED <<camera, served, trail, overlapped, untold, edited, changedAt>>

\* redis.publish returns, or raises and is logged: the commit comes after it.
PublishConfig(r) ==
  /\ Continue(r, "publishing", "ready")
  /\ UNCHANGED <<camera, wanted, served, trail, overlapped, untold, edited, changedAt>>

\* Mutant of Merged: all columns are written as the request has them.
MergedWhole(r, c) == wanted[r][c]

Merged(r, c) == IF wanted[r][c] # loaded[r][c] THEN wanted[r][c] ELSE camera[c]

Audited(r) == route[r] \in {"hardware", "overrides"}

CommitRow(r) ==
  /\ Continue(r, "ready", IF Audited(r) THEN "committed" ELSE "idle")
  /\ camera' = [c \in Column |-> Merged(r, c)]
  /\ wanted' = IF Audited(r) THEN wanted ELSE [wanted EXCEPT ![r] = NoSession]
  /\ edited' = (IF route[r] = "overrides" THEN edited ELSE route[r] # "profile")
  /\ changedAt' = IF camera'.overrides = camera.overrides THEN changedAt ELSE Len(trail) + 1
  /\ UNCHANGED <<served, trail, overlapped, untold>>

\* db.refresh: another request may have committed by now.
RefreshRow(r) ==
  /\ Continue(r, "committed", "refreshed")
  /\ wanted' = [wanted EXCEPT ![r] = camera]
  /\ UNCHANGED <<camera, served, trail, overlapped, untold, edited, changedAt>>

\* Mutant of AuditRow: the values before the change are taken after it.
AuditRowTwice(r) ==
  /\ Continue(r, "refreshed", "idle")
  /\ trail' = IF route[r] # "overrides" THEN trail
              ELSE Append(trail, [from |-> wanted[r].overrides, to |-> wanted[r].overrides])
  /\ wanted' = [wanted EXCEPT ![r] = NoSession]
  /\ UNCHANGED <<camera, served, overlapped, untold, edited, changedAt>>

\* CAMERA_HARDWARE_UPDATED is written as well, but not followed here.
AuditRow(r) ==
  /\ Continue(r, "refreshed", "idle")
  /\ trail' = IF route[r] # "overrides" THEN trail
              ELSE Append(trail, [from |-> loaded[r].overrides, to |-> wanted[r].overrides])
  /\ wanted' = [wanted EXCEPT ![r] = NoSession]
  /\ UNCHANGED <<camera, served, overlapped, untold, edited, changedAt>>

\* 422 for a stream that cannot be probed; any other error, wherever it occurs.
FailRequest(r) ==
  /\ phase[r] # "idle" /\ Continue(r, phase[r], "idle")
  /\ untold' = (untold \/ (route[r] = "overrides" /\ phase[r] \in {"committed", "refreshed"}))
  /\ wanted' = [wanted EXCEPT ![r] = NoSession]
  /\ UNCHANGED <<camera, served, trail, overlapped, edited, changedAt>>

CamerasNext ==
  \E r \in Request :
    \/ UpdateCamera(r) \/ UpdateHardware(r) \/ UpdateOverrides(r) \/ SubmitProfile(r)
    \/ ProbeReturns(r) \/ PublishConfig(r) \/ CommitRow(r) \/ RefreshRow(r)
    \/ AuditRow(r) \/ FailRequest(r)

CamerasSpec == CamerasInit /\ [][CamerasNext]_cameraVars
-----------------------------------------------------------------------------
(***************************************************************************)
(* Properties                                                              *)
(***************************************************************************)

\* As long as requests come one at a time, a profile no operator has corrected
\* is in force as a whole: the tier is the one it suggests, and the settings
\* that are not overridden are those of the shutter it found.
ProfileInForce ==
  ~overlapped /\ ~edited =>
    /\ camera.tier = AssignTier(camera.profile)
    /\ \A key \in Setting \ camera.overrides :
         Source(camera.shutter, camera.overrides, key) =
           Source(camera.profile.shutter, {}, key)

\* As long as requests come one at a time and none fails between its commit and
\* its audit event, the events lead from no overrides to those of the row.
TrailReplays ==
  ~overlapped /\ ~untold =>
    /\ \A i \in DOMAIN trail : trail[i].from = (IF i = 1 THEN {} ELSE trail[i - 1].to)
    /\ (\A r \in Request : phase[r] \notin {"committed", "refreshed"}) =>
         camera.overrides = (IF trail = <<>> THEN {} ELSE trail[Len(trail)].to)

\* The row of a camera is well formed, what its last profile asks for is in force,
\* and the audit events tell how its overrides came to be.
CameraAsRequested == CamerasTypeOK /\ ProfileInForce /\ TrailReplays

\* The trail keeps up with the row however requests overlap: unless a request has
\* failed between its commit and its audit event, the last change of the overrides
\* is told by an event written after it, by whichever request it was that made the
\* change, and a request about something else has changed none.
LastChangeTold ==
  /\ changedAt # 0 /\ ~untold
  /\ \A r \in Request : route[r] = "overrides" => phase[r] \notin {"committed", "refreshed"}
  => \E i \in changedAt..Len(trail) : trail[i].to = camera.overrides

=============================================================================
