--------------------------- MODULE Upkeep_proofs ----------------------------
(***************************************************************************)
(* The parts of the site's upkeep that share no state, each for every      *)
(* value of its constants: the maintenance calendar, the set-up of a       *)
(* camera, the months of tracking_events, and the jobs.  (The writer that  *)
(* fills the months is in Places_proofs.)                                  *)
(***************************************************************************)
EXTENDS CalendarFreshness, CameraSetup, Partitions, SchedulerJobs,
        SequenceTheorems, WellFoundedInduction, TLAPS

NatLess == {p \in Nat \X Nat : p[1] < p[2]}

\* A set of naturals that is not empty has a first element.
LEMMA LeastElement ==
  ASSUME NEW S \in SUBSET Nat, S # {}
  PROVE  \E m \in S : \A n \in S : m <= n
<1>1. NatLess = OpToRel(<, Nat)
  BY DEF NatLess, OpToRel
<1>2. IsWellFoundedOn(NatLess, Nat)
  BY <1>1, NatLessThanWellFounded
<1>3. \E m \in S : \A n \in S : ~ (<<n, m>> \in NatLess)
  BY <1>2, WFMin
<1>4. PICK m \in S : \A n \in S : ~ (<<n, m>> \in NatLess)
  BY <1>3
<1>5. ASSUME NEW n \in S
      PROVE  m <= n
  <2>1. n \in Nat /\ m \in Nat /\ ~ (<<n, m>> \in NatLess)
    BY <1>4
  <2>2. ~ (n < m)
    BY <2>1 DEF NatLess
  <2> QED
    BY <2>1, <2>2
<1> QED
  BY <1>4, <1>5

-----------------------------------------------------------------------------
(***************************************************************************)
(* The calendar: its staleness is bounded by its TTL, for every set of     *)
(* windows and every TTL; and what it shows between two instants is what   *)
(* is suppressed between them, whatever instants a cron_expr denotes.      *)
(***************************************************************************)

\* The inductive part: a cached row that is not the table's was overtaken by
\* an edit after the refresh.
StaleSinceRefresh ==
  \A i \in WinId : age < TTL /\ cache[i] # ActiveWindows[i] => changed[i] <= age

FreshInv == TypeOK /\ StaleSinceRefresh

LEMMA ActiveType ==
  ASSUME TypeOK
  PROVE  ActiveWindows \in [WinId -> WindowRow \cup {NoRow}]
BY DEF TypeOK, CalendarTypeOK, ActiveWindows

LEMMA InitFreshInv == Init => FreshInv
BY CalendarAssumption
   DEF Init, CalendarInit, EmptyCache, FreshInv, TypeOK, CalendarTypeOK, StaleSinceRefresh

\* An edit of one window leaves what is active of the others alone.
LEMMA SaveEffect ==
  ASSUME TypeOK, NEW i \in WinId, Save(i)
  PROVE  /\ db' \in [WinId -> WindowRow \cup {NoRow}]
         /\ changed' \in [WinId -> 0..TTL] /\ changed'[i] = 0
         /\ UNCHANGED <<cache, age>>
         /\ \A j \in WinId : j # i => /\ ActiveWindows'[j] = ActiveWindows[j]
                                      /\ changed'[j] = changed[j]
<1>1. /\ \E w \in WindowRow : db' = [db EXCEPT ![i] = w]
      /\ UNCHANGED <<cache, age>>
      /\ changed' = [changed EXCEPT ![i] = 0]
  <2>1. CASE \E w \in WindowRow : CreateWindow(i, w) \/ UpdateWindow(i, w)
    BY <2>1 DEF Save, CreateWindow, UpdateWindow
  <2>2. CASE DeleteWindow(i)
    <3>1. db[i] \in WindowRow
      BY <2>2 DEF DeleteWindow, TypeOK, CalendarTypeOK
    <3>2. Deactivated(db[i]) \in WindowRow
      BY <3>1, CalendarAssumption
    <3> QED
      BY <2>2, <3>2 DEF Save, DeleteWindow
  <2> QED
    BY <2>1, <2>2 DEF Save, SaveWindow
<1>2. db \in [WinId -> WindowRow \cup {NoRow}] /\ changed \in [WinId -> 0..TTL]
  BY DEF TypeOK, CalendarTypeOK
<1>3. PICK w \in WindowRow : db' = [db EXCEPT ![i] = w]
  BY <1>1
<1>4. \A j \in WinId : j # i => db'[j] = db[j]
  BY <1>2, <1>3
<1>5. \A j \in WinId : j # i => ActiveWindows'[j] = ActiveWindows[j]
  BY <1>4 DEF ActiveWindows
<1> QED
  BY <1>1, <1>2, <1>3, <1>5, CalendarAssumption

LEMMA FreshStep ==
  ASSUME FreshInv, [Next]_freshnessVars
  PROVE  FreshInv'
<1> USE CalendarAssumption
<1>1. CASE UNCHANGED freshnessVars
  BY <1>1 DEF FreshInv, TypeOK, CalendarTypeOK, StaleSinceRefresh, ActiveWindows,
              freshnessVars, calendarVars
<1>2. ASSUME NEW e \in Event, Lookup(e)
      PROVE  FreshInv'
  <2>1. /\ cache' = Consulted /\ age' = (IF age >= TTL THEN 0 ELSE age)
        /\ UNCHANGED <<db, changed>> /\ ActiveWindows' = ActiveWindows
    BY <1>2 DEF Lookup, MaybeRefresh, ActiveWindows
  <2>2. TypeOK'
    BY <2>1, ActiveType DEF FreshInv, TypeOK, CalendarTypeOK, Consulted
  <2>3. StaleSinceRefresh'
    BY <2>1 DEF FreshInv, TypeOK, CalendarTypeOK, StaleSinceRefresh, Consulted
  <2> QED
    BY <2>2, <2>3 DEF FreshInv
<1>3. ASSUME NEW i \in WinId, Save(i)
      PROVE  FreshInv'
  <2>1. TypeOK'
    BY <1>3, SaveEffect DEF FreshInv, TypeOK, CalendarTypeOK
  <2>2. StaleSinceRefresh'
    <3>1. \A j \in WinId : j # i => /\ ActiveWindows'[j] = ActiveWindows[j]
                                    /\ changed'[j] = changed[j]
      BY <1>3, SaveEffect DEF FreshInv
    <3>2. changed'[i] = 0 /\ UNCHANGED <<cache, age>>
      BY <1>3, SaveEffect DEF FreshInv
    <3>3. age \in Nat
      BY DEF FreshInv, TypeOK, CalendarTypeOK
    <3> QED
      BY <3>1, <3>2, <3>3 DEF FreshInv, StaleSinceRefresh
  <2> QED
    BY <2>1, <2>2 DEF FreshInv
<1>4. CASE Clock
  <2>1. /\ UNCHANGED <<db, cache>> /\ ActiveWindows' = ActiveWindows
        /\ age' \in 0..TTL /\ (age' = age + 1 \/ (age = TTL /\ age' = TTL))
        /\ \A i \in WinId : changed'[i] <= changed[i] + 1
        /\ changed' \in [WinId -> 0..TTL]
    BY <1>4 DEF Clock, Tick, calendarVars, ActiveWindows, FreshInv, TypeOK, CalendarTypeOK
  <2>2. TypeOK'
    BY <2>1 DEF FreshInv, TypeOK, CalendarTypeOK
  <2>3. StaleSinceRefresh'
    BY <2>1 DEF FreshInv, TypeOK, CalendarTypeOK, StaleSinceRefresh
  <2> QED
    BY <2>2, <2>3 DEF FreshInv
<1>5. CASE Restart
  BY <1>5 DEF Restart, EmptyCache, FreshInv, TypeOK, CalendarTypeOK, StaleSinceRefresh
<1> QED
  BY <1>1, <1>2, <1>3, <1>4, <1>5 DEF Next

\* What a lookup scans is the table, but for windows edited less than the TTL
\* ago and after the last refresh.
THEOREM Freshness == Spec => []StalenessBounded
<1>1. FreshInv => StalenessBounded
  BY CalendarAssumption
     DEF FreshInv, TypeOK, CalendarTypeOK, StaleSinceRefresh, StalenessBounded, Consulted
<1> QED
  BY <1>1, InitFreshInv, FreshStep, PTL DEF Spec

\* Of the instants before another there is a latest.
LEMMA LatestBefore ==
  ASSUME NEW S \in SUBSET Nat, NEW t \in Nat, NEW f \in S, f < t
  PROVE  \E m \in S : m < t /\ f <= m /\ \A g \in S : g < t => g <= m
<1> DEFINE D == {t - g : g \in {x \in S : x < t}}
<1>1. D \subseteq Nat /\ D # {}
  OBVIOUS
<1>2. PICK d \in D : \A e \in D : d <= e
  BY <1>1, LeastElement
<1>3. PICK m \in S : m < t /\ d = t - m
  BY <1>2
<1>4. ASSUME NEW g \in S, g < t
      PROVE  g <= m
  <2>1. t - g \in D /\ g \in Nat /\ m \in Nat
    BY <1>4
  <2>2. t - m <= t - g
    BY <1>2, <1>3, <2>1
  <2> QED
    BY <2>1, <2>2
<1> QED
  BY <1>3, <1>4

\* What a window covers and what its slots show is the same between two instants.
WithinSlot(w, s, t) ==
  /\ s.starts <= t /\ t <= s.ends
  /\ w.schedule = "RECURRING" => s.starts < t

LEMMA OneTimeTells ==
  ASSUME NEW w, w.schedule = "ONE_TIME", w.starts \in Nat, w.ends \in Nat,
         NEW from \in Nat, NEW t \in Nat, NEW to \in Nat, from < t, t < to
  PROVE  Covers(w, t) <=> \E s \in Slots(w, from, to) : WithinSlot(w, s, t)
<1> DEFINE slot == [starts |-> w.starts, ends |-> w.ends]
<1>1. Covers(w, t) <=> w.starts <= t /\ t <= w.ends
  BY DEF Covers
<1>2. Slots(w, from, to) = IF w.starts < to /\ from < w.ends THEN {slot} ELSE {}
  BY DEF Slots
<1>3. WithinSlot(w, slot, t) <=> w.starts <= t /\ t <= w.ends
  BY DEF WithinSlot
<1>4. w.starts <= t /\ t <= w.ends => w.starts < to /\ from < w.ends
  OBVIOUS
<1> HIDE DEF slot
<1> QED
  BY <1>1, <1>2, <1>3, <1>4

LEMMA RecurringTells ==
  ASSUME NEW w, w.schedule = "RECURRING", w.fires \subseteq Nat, w.duration \in Nat,
         NEW from \in Nat, NEW t \in Nat, NEW to \in Nat, from < t, t < to
  PROVE  Covers(w, t) <=> \E s \in Slots(w, from, to) : WithinSlot(w, s, t)
<1> DEFINE slot(f) == [starts |-> f, ends |-> f + w.duration]
           shown == {g \in w.fires : from < g + w.duration /\ g <= to}
<1>1. Covers(w, t) <=> \E f \in w.fires : /\ f < t
                                          /\ \A g \in w.fires : g < t => g <= f
                                          /\ t <= f + w.duration
  BY DEF Covers
<1>2. Slots(w, from, to) = {slot(f) : f \in shown}
  BY DEF Slots
<1>3. \A f : WithinSlot(w, slot(f), t) <=> f <= t /\ t <= f + w.duration /\ f < t
  BY DEF WithinSlot
<1> HIDE DEF slot
<1>4. (\E s \in Slots(w, from, to) : WithinSlot(w, s, t))
        <=> \E f \in shown : f <= t /\ t <= f + w.duration /\ f < t
  BY <1>2, <1>3
<1>5. ASSUME NEW f \in w.fires, f < t, t <= f + w.duration
      PROVE  f \in shown /\ f <= t
  BY <1>5
<1>6. ASSUME NEW f \in shown, f < t, t <= f + w.duration
      PROVE  \E m \in w.fires : /\ m < t /\ t <= m + w.duration
                                /\ \A g \in w.fires : g < t => g <= m
  <2>1. f \in w.fires /\ f \in Nat
    OBVIOUS
  <2>2. PICK m \in w.fires : m < t /\ f <= m /\ \A g \in w.fires : g < t => g <= m
    BY <1>6, <2>1, LatestBefore
  <2>3. t <= m + w.duration
    BY <1>6, <2>1, <2>2
  <2> QED
    BY <2>2, <2>3
<1> HIDE DEF shown
<1> QED
  BY <1>1, <1>4, <1>5, <1>6

\* The view of the calendar and the suppression of alerts tell the same of every
\* window in force, between any two instants and for any instants of a schedule.
THEOREM ViewTellsSuppression == Spec => []CalendarTellsSuppression
<1>1. ASSUME TypeOK
      PROVE  CalendarTellsSuppression
  <2>1. ASSUME NEW i \in WinId, db[i] # NoRow,
               NEW from \in {e.ts : e \in Event}, NEW t \in {e.ts : e \in Event},
               NEW to \in {e.ts : e \in Event}, from < t, t < to
        PROVE  Covers(db[i], t) <=> \E s \in Slots(db[i], from, to) : WithinSlot(db[i], s, t)
    <3>1. db[i] \in WindowRow
      BY <1>1, <2>1 DEF TypeOK, CalendarTypeOK
    <3>2. from \in Nat /\ t \in Nat /\ to \in Nat
      BY WindowAssumption
    <3>3. CASE /\ db[i].schedule = "ONE_TIME"
               /\ db[i].starts \in Nat /\ db[i].ends \in Nat
      BY <2>1, <3>2, <3>3, OneTimeTells
    <3>4. CASE /\ db[i].schedule = "RECURRING"
               /\ db[i].fires \subseteq Nat /\ db[i].duration \in Nat
      BY <2>1, <3>2, <3>4, RecurringTells
    <3> QED
      BY <3>1, <3>3, <3>4, WindowAssumption
  <2> QED
    BY <2>1 DEF CalendarTellsSuppression, WithinSlot
<1>2. FreshInv => TypeOK
  BY DEF FreshInv
<1> QED
  BY <1>1, <1>2, InitFreshInv, FreshStep, PTL DEF Spec

-----------------------------------------------------------------------------
(***************************************************************************)
(* The requests for a camera, for any number of them and whatever streams, *)
(* overrides and corrections there are: while they come one at a time, the *)
(* row is what the last profile and the operators asked for and the audit  *)
(* events tell how its overrides came to be; and at any time a request     *)
(* writes the columns it has changed and no others.                        *)
(***************************************************************************)

BeforeCommit == {"probing", "publishing", "ready"}
AfterCommit == {"committed", "refreshed"}

(***************************************************************************)
(* What a request may be doing, and what it asks for until its commit.     *)
(***************************************************************************)
RouteInv ==
  /\ route \in [Request -> {"none", "update", "hardware", "overrides", "profile"}]
  /\ \A r \in Request :
       /\ phase[r] # "idle" => loaded[r] \in CameraRow /\ wanted[r] \in CameraRow
       /\ phase[r] = "probing" => route[r] = "profile"
       /\ phase[r] = "publishing" => route[r] # "profile"
       /\ phase[r] \in AfterCommit => Audited(r)

AsksInv ==
  \A r \in Request : phase[r] \in BeforeCommit =>
    /\ route[r] # "overrides" => wanted[r].overrides = loaded[r].overrides
    /\ route[r] = "overrides" =>
         /\ wanted[r].tier = loaded[r].tier /\ wanted[r].shutter = loaded[r].shutter
         /\ wanted[r].profile = loaded[r].profile
    /\ route[r] = "profile" /\ phase[r] = "ready" =>
         /\ wanted[r].tier = AssignTier(wanted[r].profile)
         /\ wanted[r].shutter = wanted[r].profile.shutter

(***************************************************************************)
(* While requests come one at a time.  An overrides request that has       *)
(* committed but not told the audit log is the only one between the row    *)
(* and the end of the trail.                                               *)
(***************************************************************************)
SoloInv ==
  ~overlapped =>
    \A r \in Request :
      /\ phase[r] # "idle" => \A q \in Request : phase[q] # "idle" => q = r
      /\ phase[r] \in BeforeCommit => loaded[r] = camera
      /\ phase[r] = "refreshed" => wanted[r] = camera

InForceInv ==
  ~overlapped /\ ~edited =>
    /\ camera.tier = AssignTier(camera.profile)
    /\ camera.shutter = camera.profile.shutter

TrailEnd == IF trail = <<>> THEN {} ELSE trail[Len(trail)].to

Untold(r) == phase[r] \in AfterCommit /\ route[r] = "overrides"

TrailInv ==
  ~overlapped /\ ~untold =>
    /\ \A i \in DOMAIN trail : trail[i].from = (IF i = 1 THEN {} ELSE trail[i - 1].to)
    /\ \A r \in Request : Untold(r) => loaded[r].overrides = TrailEnd
    /\ (\A r \in Request : ~Untold(r)) => camera.overrides = TrailEnd

FlagsOK ==
  /\ overlapped \in BOOLEAN /\ untold \in BOOLEAN /\ edited \in BOOLEAN
  /\ trail \in Seq([from : Override \cup {{}}, to : Override \cup {{}}])

SetupInv ==
  CamerasTypeOK /\ FlagsOK /\ RouteInv /\ AsksInv /\ SoloInv /\ InForceInv /\ TrailInv

LEMMA MeasuredShutter ==
  ASSUME NEW d \in Measured
  PROVE  d.shutter \in Shutter /\ AssignTier(d) \in Tier
<1>1. PICK s \in DOMAIN Profile : d = Profile[s]
  BY DEF Measured
<1>2. d = Probe(s)
  BY <1>1 DEF Profile
<1>3. d.shutter = ShutterSeen(s)
  BY <1>2 DEF Probe
<1> QED
  BY <1>3 DEF ShutterSeen, Shutter, AssignTier, Tier

LEMMA InitSetupInv == CamerasInit => SetupInv
<1> SUFFICES ASSUME CamerasInit
             PROVE  SetupInv
  OBVIOUS
<1>1. camera \in CameraRow /\ camera.overrides = {} /\ trail = <<>>
  BY DEF CamerasInit, CameraRow
<1>2. /\ \A r \in Request : phase[r] = "idle" /\ route[r] = "none"
      /\ overlapped = FALSE /\ untold = FALSE /\ edited = TRUE
  BY DEF CamerasInit
<1>3. /\ phase = [r \in Request |-> "idle"] /\ route = [r \in Request |-> "none"]
      /\ loaded = [r \in Request |-> NoSession] /\ wanted = [r \in Request |-> NoSession]
      /\ served = 0
  BY DEF CamerasInit
<1>4. CamerasTypeOK
  BY <1>1, <1>3, CameraAssumption DEF CamerasTypeOK
<1>5. FlagsOK
  BY <1>1, <1>2, EmptySeq DEF FlagsOK
<1>7. RouteInv /\ AsksInv
  BY <1>2, <1>3 DEF RouteInv, AsksInv, BeforeCommit, AfterCommit
<1>6. SoloInv /\ InForceInv /\ TrailInv
  BY <1>1, <1>2 DEF SoloInv, InForceInv, TrailInv, TrailEnd, Untold, BeforeCommit, AfterCommit
<1> QED
  BY <1>4, <1>5, <1>6, <1>7 DEF SetupInv
-----------------------------------------------------------------------------
(***************************************************************************)
(* One step of one request; what others are doing is left alone.           *)
(***************************************************************************)
LEMMA BeginStep ==
  ASSUME SetupInv, NEW r \in Request, NEW row \in CameraRow,
         NEW path \in {"update", "hardware", "overrides", "profile"}, NEW next \in BeforeCommit,
         path = "profile" <=> next = "probing",
         path # "overrides" => row.overrides = camera.overrides,
         path = "overrides" => /\ row.tier = camera.tier /\ row.shutter = camera.shutter
                               /\ row.profile = camera.profile,
         BeginRequest(r, path, next, row)
  PROVE  SetupInv'
<1>1. /\ phase[r] = "idle" /\ served \in 0..MaxRequests /\ served < MaxRequests
      /\ served' = served + 1
      /\ UNCHANGED <<camera, trail, untold, edited>>
      /\ overlapped' = (overlapped \/ \E q \in Request \ {r} : phase[q] # "idle")
  BY DEF BeginRequest, SetupInv, CamerasTypeOK
<1>2. /\ phase'[r] = next /\ route'[r] = path /\ loaded'[r] = camera /\ wanted'[r] = row
      /\ \A q \in Request \ {r} :
           /\ phase'[q] = phase[q] /\ route'[q] = route[q]
           /\ loaded'[q] = loaded[q] /\ wanted'[q] = wanted[q]
  BY DEF BeginRequest, SetupInv, CamerasTypeOK, RouteInv
<1>3. CamerasTypeOK'
  <2>1. camera' \in CameraRow /\ served' \in 0..MaxRequests
    BY <1>1, CameraAssumption DEF SetupInv, CamerasTypeOK
  <2>2. /\ phase' \in [Request -> {"idle", "probing", "publishing", "ready", "committed",
                                   "refreshed"}]
        /\ loaded' \in [Request -> CameraRow \cup {NoSession}]
        /\ wanted' \in [Request -> CameraRow \cup {NoSession}]
    BY DEF BeginRequest, SetupInv, CamerasTypeOK, BeforeCommit
  <2> QED
    BY <1>1, <2>1, <2>2 DEF SetupInv, CamerasTypeOK
<1>4. FlagsOK'
  BY <1>1 DEF SetupInv, FlagsOK
<1>5. RouteInv'
  <2>1. route' \in [Request -> {"none", "update", "hardware", "overrides", "profile"}]
    BY DEF BeginRequest, SetupInv, RouteInv
  <2>2. camera \in CameraRow
    BY DEF SetupInv, CamerasTypeOK
  <2> QED
    BY <1>2, <2>1, <2>2 DEF SetupInv, RouteInv, Audited, BeforeCommit, AfterCommit
<1>6. AsksInv'
  BY <1>2 DEF SetupInv, AsksInv, BeforeCommit
<1>7. SoloInv'
  <2> SUFFICES ASSUME ~overlapped', NEW q \in Request, phase'[q] # "idle"
               PROVE  q = r
    BY <1>1, <1>2 DEF SoloInv, BeforeCommit
  <2> QED
    BY <1>1, <1>2
<1>9. InForceInv'
  BY <1>1 DEF SetupInv, InForceInv
<1>8. TrailInv'
  <2>1. TrailEnd' = TrailEnd
    BY <1>1 DEF TrailEnd
  <2>2. \A q \in Request : Untold(q)' <=> Untold(q)
    BY <1>1, <1>2 DEF Untold, BeforeCommit, AfterCommit
  <2> QED
    BY <1>1, <1>2, <2>1, <2>2 DEF SetupInv, TrailInv, Untold, AfterCommit
<1> QED
  BY <1>3, <1>4, <1>5, <1>6, <1>7, <1>8, <1>9 DEF SetupInv

\* The four routes that begin a request.
LEMMA RouteStep ==
  ASSUME SetupInv, NEW r \in Request,
         UpdateCamera(r) \/ UpdateHardware(r) \/ UpdateOverrides(r) \/ SubmitProfile(r)
  PROVE  SetupInv'
<1>1. camera \in CameraRow
  BY DEF SetupInv, CamerasTypeOK
<1>2. ASSUME NEW x \in Correction
      PROVE  LET row == [camera EXCEPT !.tier = x.tier, !.shutter = x.shutter]
             IN  row \in CameraRow /\ row.overrides = camera.overrides
  <2>1. x.tier \in Tier /\ x.shutter \in Shutter
    BY CameraAssumption
  <2> QED
    BY <1>1, <2>1 DEF CameraRow
<1>3. ASSUME NEW o \in Override
      PROVE  LET row == [camera EXCEPT !.overrides = o]
             IN  /\ row \in CameraRow /\ row.tier = camera.tier
                 /\ row.shutter = camera.shutter /\ row.profile = camera.profile
  BY <1>1 DEF CameraRow
<1>4. CASE UpdateCamera(r)
  BY <1>2, <1>4, BeginStep DEF UpdateCamera, BeforeCommit
<1>5. CASE UpdateHardware(r)
  BY <1>2, <1>5, BeginStep DEF UpdateHardware, BeforeCommit
<1>6. CASE UpdateOverrides(r)
  BY <1>3, <1>6, BeginStep DEF UpdateOverrides, BeforeCommit
<1>7. CASE SubmitProfile(r)
  BY <1>1, <1>7, BeginStep DEF SubmitProfile, BeforeCommit
<1> QED
  BY <1>4, <1>5, <1>6, <1>7

\* Continue moves one request, and its session goes when it is over.
LEMMA ContinueEffect ==
  ASSUME SetupInv, NEW r \in Request, NEW from, NEW to \in AfterCommit \cup {"ready", "idle"},
         Continue(r, from, to)
  PROVE  /\ phase[r] = from /\ phase'[r] = to
         /\ to # "idle" => UNCHANGED <<route, loaded>>
         /\ \A q \in Request \ {r} : /\ phase'[q] = phase[q] /\ route'[q] = route[q]
                                     /\ loaded'[q] = loaded[q]
         /\ phase' \in [Request -> {"idle", "probing", "publishing", "ready", "committed",
                                    "refreshed"}]
         /\ loaded' \in [Request -> CameraRow \cup {NoSession}]
         /\ route' \in [Request -> {"none", "update", "hardware", "overrides", "profile"}]
BY DEF Continue, SetupInv, CamerasTypeOK, RouteInv, AfterCommit

LEMMA ProbeStep ==
  ASSUME SetupInv, NEW r \in Request, ProbeReturns(r)
  PROVE  SetupInv'
<1>1. PICK d \in Measured :
        wanted' = [wanted EXCEPT ![r].profile = d, ![r].tier = AssignTier(d),
                                 ![r].shutter = d.shutter]
  BY DEF ProbeReturns
<1>2. /\ phase[r] = "probing" /\ phase'[r] = "ready" /\ UNCHANGED <<route, loaded>>
      /\ \A q \in Request \ {r} : phase'[q] = phase[q]
      /\ phase' \in [Request -> {"idle", "probing", "publishing", "ready", "committed",
                                 "refreshed"}]
      /\ UNCHANGED <<camera, served, trail, overlapped, untold, edited>>
  BY ContinueEffect DEF ProbeReturns
<1>3. /\ wanted[r] \in CameraRow /\ route[r] = "profile"
      /\ wanted \in [Request -> CameraRow \cup {NoSession}]
      /\ wanted[r].overrides = loaded[r].overrides
  BY <1>2 DEF SetupInv, RouteInv, CamerasTypeOK, AsksInv, BeforeCommit
<1>4. /\ \A q \in Request \ {r} : wanted'[q] = wanted[q]
      /\ wanted'[r] = [wanted[r] EXCEPT !.profile = d, !.tier = AssignTier(d),
                                        !.shutter = d.shutter]
      /\ DOMAIN wanted' = Request /\ wanted' = [q \in Request |-> wanted'[q]]
  BY <1>1, <1>3
<1>5. /\ wanted'[r] \in CameraRow /\ wanted'[r].overrides = wanted[r].overrides
      /\ wanted'[r].profile = d /\ wanted'[r].tier = AssignTier(d)
      /\ wanted'[r].shutter = d.shutter
  <2>1. wanted'[r] = [tier |-> AssignTier(d), shutter |-> d.shutter,
                      overrides |-> wanted[r].overrides, profile |-> d]
    BY <1>3, <1>4 DEF CameraRow
  <2>2. wanted[r].overrides \in Override \cup {{}}
    BY <1>3 DEF CameraRow
  <2> QED
    BY <2>1, <2>2, MeasuredShutter DEF CameraRow
<1>6. CamerasTypeOK'
  <2>1. wanted' \in [Request -> CameraRow \cup {NoSession}]
    <3>1. \A q \in Request : wanted'[q] \in CameraRow \cup {NoSession}
      BY <1>3, <1>4, <1>5
    <3> QED
      BY <1>4, <3>1
  <2> QED
    BY <1>2, <2>1 DEF SetupInv, CamerasTypeOK
<1>7. FlagsOK' /\ InForceInv'
  BY <1>2 DEF SetupInv, FlagsOK, InForceInv
<1>8. RouteInv'
  BY <1>2, <1>3, <1>4, <1>5 DEF SetupInv, RouteInv, Audited, BeforeCommit, AfterCommit
<1>11. AsksInv'
  <2>1. ASSUME NEW q \in Request \ {r}
        PROVE  phase'[q] = phase[q] /\ wanted'[q] = wanted[q] /\ loaded'[q] = loaded[q]
    BY <1>2, <1>4
  <2>2. phase'[r] = "ready" /\ loaded'[r] = loaded[r] /\ route' = route
    BY <1>2
  <2> QED
    BY <1>3, <1>5, <2>1, <2>2 DEF SetupInv, AsksInv, BeforeCommit
<1>9. SoloInv'
  BY <1>2, <1>4 DEF SetupInv, SoloInv, BeforeCommit
<1>10. TrailInv'
  BY <1>2 DEF SetupInv, TrailInv, TrailEnd, Untold, AfterCommit
<1> QED
  BY <1>6, <1>7, <1>8, <1>9, <1>10, <1>11 DEF SetupInv

LEMMA PublishStep ==
  ASSUME SetupInv, NEW r \in Request, PublishConfig(r)
  PROVE  SetupInv'
<1>1. /\ phase[r] = "publishing" /\ phase'[r] = "ready"
      /\ \A q \in Request \ {r} : phase'[q] = phase[q]
      /\ phase' \in [Request -> {"idle", "probing", "publishing", "ready", "committed",
                                 "refreshed"}]
      /\ UNCHANGED <<route, loaded, camera, wanted, served, trail, overlapped, untold, edited>>
  BY ContinueEffect DEF PublishConfig
<1>2. CamerasTypeOK' /\ FlagsOK' /\ InForceInv'
  BY <1>1 DEF SetupInv, CamerasTypeOK, FlagsOK, InForceInv
<1>3. RouteInv'
  BY <1>1 DEF SetupInv, RouteInv, Audited, AfterCommit
<1>4. AsksInv'
  BY <1>1 DEF SetupInv, AsksInv, RouteInv, BeforeCommit
<1>5. SoloInv'
  BY <1>1 DEF SetupInv, SoloInv, BeforeCommit
<1>6. TrailInv'
  BY <1>1 DEF SetupInv, TrailInv, TrailEnd, Untold, AfterCommit
<1> QED
  BY <1>2, <1>3, <1>4, <1>5, <1>6 DEF SetupInv

\* Merged leaves a column alone or takes it from the request; when the row is still
\* what the request has loaded, that makes it the request's.
LEMMA CommitEffect ==
  ASSUME SetupInv, NEW r \in Request, CommitRow(r)
  PROVE  /\ camera' \in CameraRow
         /\ loaded[r] = camera => camera' = wanted[r]
<1>1. /\ phase[r] = "ready" /\ camera' = [c \in Column |-> Merged(r, c)]
  BY DEF CommitRow, Continue
<1>2. camera \in CameraRow /\ wanted[r] \in CameraRow
  BY <1>1 DEF SetupInv, CamerasTypeOK, RouteInv
<1>3. \A c \in Column : /\ camera'[c] \in {wanted[r][c], camera[c]}
                        /\ loaded[r] = camera => camera'[c] = wanted[r][c]
  BY <1>1 DEF Merged
<1>4. camera' = [tier |-> camera'["tier"], shutter |-> camera'["shutter"],
                 overrides |-> camera'["overrides"], profile |-> camera'["profile"]]
  BY <1>1 DEF Column
<1>5. camera' \in CameraRow
  BY <1>2, <1>3, <1>4 DEF CameraRow, Column
<1>6. ASSUME loaded[r] = camera
      PROVE  camera' = wanted[r]
  BY <1>2, <1>3, <1>4, <1>6 DEF CameraRow, Column
<1> QED
  BY <1>5, <1>6

LEMMA CommitStep ==
  ASSUME SetupInv, NEW r \in Request, CommitRow(r)
  PROVE  SetupInv'
<1> DEFINE to == IF Audited(r) THEN "committed" ELSE "idle"
<1>1. /\ phase[r] = "ready" /\ phase'[r] = to /\ Continue(r, "ready", to)
      /\ to # "idle" => UNCHANGED <<route, loaded, wanted>>
      /\ \A q \in Request \ {r} : /\ phase'[q] = phase[q] /\ route'[q] = route[q]
                                  /\ loaded'[q] = loaded[q]
      /\ phase' \in [Request -> {"idle", "probing", "publishing", "ready", "committed",
                                 "refreshed"}]
      /\ loaded' \in [Request -> CameraRow \cup {NoSession}]
      /\ route' \in [Request -> {"none", "update", "hardware", "overrides", "profile"}]
  BY ContinueEffect DEF CommitRow, AfterCommit
<1>2. /\ to = "idle" => ~Audited(r)
      /\ to # "idle" => Audited(r) /\ to = "committed"
      /\ UNCHANGED <<served, trail, overlapped, untold>>
      /\ edited' = (IF route[r] = "overrides" THEN edited ELSE route[r] # "profile")
  BY DEF CommitRow
<1> HIDE DEF to
<1>3. /\ wanted' \in [Request -> CameraRow \cup {NoSession}]
      /\ \A q \in Request \ {r} : wanted'[q] = wanted[q]
  BY DEF CommitRow, SetupInv, CamerasTypeOK
<1>4. CamerasTypeOK'
  BY <1>1, <1>2, <1>3, CommitEffect DEF SetupInv, CamerasTypeOK
<1>5. FlagsOK'
  BY <1>2 DEF SetupInv, FlagsOK
<1>6. RouteInv'
  <2>1. ASSUME NEW q \in Request \ {r}
        PROVE  /\ phase'[q] # "idle" => loaded'[q] \in CameraRow /\ wanted'[q] \in CameraRow
               /\ phase'[q] = "probing" => route'[q] = "profile"
               /\ phase'[q] = "publishing" => route'[q] # "profile"
               /\ phase'[q] \in AfterCommit => Audited(q)'
    BY <1>1, <1>3 DEF SetupInv, RouteInv, Audited
  <2>2. ASSUME to # "idle"
        PROVE  loaded'[r] \in CameraRow /\ wanted'[r] \in CameraRow /\ Audited(r)'
    BY <1>1, <1>2, <2>2 DEF SetupInv, RouteInv, Audited
  <2> QED
    BY <1>1, <1>2, <2>1, <2>2 DEF RouteInv, AfterCommit
<1>7. AsksInv'
  BY <1>1, <1>2, <1>3 DEF SetupInv, AsksInv, BeforeCommit
<1>8. ASSUME ~overlapped
      PROVE  /\ camera' = wanted[r] /\ loaded[r] = camera
             /\ \A q \in Request \ {r} : phase[q] = "idle" /\ phase'[q] = "idle"
  BY <1>1, <1>8, CommitEffect DEF SetupInv, SoloInv, BeforeCommit
<1>9. SoloInv'
  BY <1>1, <1>2, <1>8 DEF SoloInv, BeforeCommit
<1>10. InForceInv'
  <2> SUFFICES ASSUME ~overlapped, ~edited'
               PROVE  /\ camera'.tier = AssignTier(camera'.profile)
                      /\ camera'.shutter = camera'.profile.shutter
    BY <1>2 DEF InForceInv
  <2>1. CASE route[r] = "profile"
    BY <1>1, <1>8, <2>1 DEF SetupInv, AsksInv, BeforeCommit
  <2>2. CASE route[r] = "overrides"
    BY <1>1, <1>2, <1>8, <2>2 DEF SetupInv, AsksInv, InForceInv, BeforeCommit
  <2> QED
    BY <1>2, <2>1, <2>2
<1>11. TrailInv'
  <2> SUFFICES ASSUME ~overlapped, ~untold
               PROVE  /\ \A q \in Request : Untold(q)' => loaded'[q].overrides = TrailEnd
                      /\ (\A q \in Request : ~Untold(q)') => camera'.overrides = TrailEnd
    BY <1>2 DEF SetupInv, TrailInv, TrailEnd
  <2>1. \A q \in Request : ~Untold(q)
    BY <1>1, <1>8 DEF Untold, AfterCommit
  <2>2. camera.overrides = TrailEnd
    BY <2>1 DEF SetupInv, TrailInv
  <2>3. \A q \in Request \ {r} : ~Untold(q)'
    BY <1>8 DEF Untold, AfterCommit
  <2>4. CASE route[r] = "overrides"
    <3>1. Audited(r) /\ to = "committed"
      BY <1>2, <2>4 DEF Audited
    <3>2. Untold(r)' /\ loaded'[r] = camera
      BY <1>1, <1>8, <2>4, <3>1 DEF Untold, AfterCommit
    <3> QED
      BY <2>2, <2>3, <3>2
  <2>5. CASE route[r] # "overrides"
    <3>1. ~Untold(r)'
      BY <1>1, <1>2, <2>5 DEF Untold, AfterCommit
    <3>2. camera'.overrides = TrailEnd
      BY <1>1, <1>8, <2>2, <2>5 DEF SetupInv, AsksInv, BeforeCommit
    <3> QED
      BY <2>3, <3>1, <3>2
  <2> QED
    BY <2>4, <2>5
<1> QED
  BY <1>4, <1>5, <1>6, <1>7, <1>9, <1>10, <1>11 DEF SetupInv

LEMMA RefreshStep ==
  ASSUME SetupInv, NEW r \in Request, RefreshRow(r)
  PROVE  SetupInv'
<1>1. /\ phase[r] = "committed" /\ phase'[r] = "refreshed"
      /\ \A q \in Request \ {r} : phase'[q] = phase[q]
      /\ phase' \in [Request -> {"idle", "probing", "publishing", "ready", "committed",
                                 "refreshed"}]
      /\ UNCHANGED <<route, loaded, camera, served, trail, overlapped, untold, edited>>
  BY ContinueEffect DEF RefreshRow, AfterCommit
<1>2. /\ wanted' \in [Request -> CameraRow \cup {NoSession}] /\ wanted'[r] = camera
      /\ \A q \in Request \ {r} : wanted'[q] = wanted[q]
  BY DEF RefreshRow, SetupInv, CamerasTypeOK
<1>3. CamerasTypeOK' /\ FlagsOK' /\ InForceInv'
  BY <1>1, <1>2 DEF SetupInv, CamerasTypeOK, FlagsOK, InForceInv
<1>4. RouteInv'
  BY <1>1, <1>2 DEF SetupInv, CamerasTypeOK, RouteInv, Audited, AfterCommit
<1>5. AsksInv'
  BY <1>1, <1>2 DEF SetupInv, AsksInv, BeforeCommit
<1>6. SoloInv'
  BY <1>1, <1>2 DEF SetupInv, SoloInv, BeforeCommit
<1>7. TrailInv'
  BY <1>1 DEF SetupInv, TrailInv, TrailEnd, Untold, AfterCommit
<1> QED
  BY <1>3, <1>4, <1>5, <1>6, <1>7 DEF SetupInv

\* A request that ends leaves the invariants of the others, whatever it leaves behind.
LEMMA EndEffect ==
  ASSUME SetupInv, NEW r \in Request, NEW from, Continue(r, from, "idle"),
         wanted' = [wanted EXCEPT ![r] = NoSession],
         UNCHANGED <<camera, served, overlapped, edited>>
  PROVE  /\ RouteInv' /\ AsksInv' /\ SoloInv' /\ InForceInv'
         /\ phase' \in [Request -> {"idle", "probing", "publishing", "ready", "committed",
                                    "refreshed"}]
         /\ loaded' \in [Request -> CameraRow \cup {NoSession}]
         /\ wanted' \in [Request -> CameraRow \cup {NoSession}]
<1>1. /\ phase'[r] = "idle"
      /\ \A q \in Request \ {r} : /\ phase'[q] = phase[q] /\ route'[q] = route[q]
                                  /\ loaded'[q] = loaded[q]
      /\ phase' \in [Request -> {"idle", "probing", "publishing", "ready", "committed",
                                 "refreshed"}]
      /\ loaded' \in [Request -> CameraRow \cup {NoSession}]
      /\ route' \in [Request -> {"none", "update", "hardware", "overrides", "profile"}]
  BY ContinueEffect
<1>2. /\ wanted' \in [Request -> CameraRow \cup {NoSession}]
      /\ \A q \in Request \ {r} : wanted'[q] = wanted[q]
  BY DEF SetupInv, CamerasTypeOK
<1>3. RouteInv'
  BY <1>1, <1>2 DEF SetupInv, RouteInv, Audited, AfterCommit
<1>4. AsksInv'
  BY <1>1, <1>2 DEF SetupInv, AsksInv, BeforeCommit
<1>5. SoloInv' /\ InForceInv'
  BY <1>1, <1>2 DEF SetupInv, SoloInv, InForceInv, BeforeCommit
<1> QED
  BY <1>1, <1>2, <1>3, <1>4, <1>5

LEMMA FailStep ==
  ASSUME SetupInv, NEW r \in Request, FailRequest(r)
  PROVE  SetupInv'
<1>1. /\ Continue(r, phase[r], "idle") /\ wanted' = [wanted EXCEPT ![r] = NoSession]
      /\ untold' = (untold \/ (route[r] = "overrides" /\ phase[r] \in {"committed", "refreshed"}))
      /\ UNCHANGED <<camera, served, trail, overlapped, edited>>
  BY DEF FailRequest
<1>2. CamerasTypeOK' /\ FlagsOK' /\ RouteInv' /\ AsksInv' /\ SoloInv' /\ InForceInv'
  BY <1>1, EndEffect DEF SetupInv, CamerasTypeOK, FlagsOK
<1>3. TrailInv'
  <2> SUFFICES ASSUME ~overlapped', ~untold'
               PROVE  TrailInv'
    BY DEF TrailInv
  <2>1. /\ phase'[r] = "idle" /\ ~Untold(r) /\ ~untold /\ ~overlapped /\ TrailEnd' = TrailEnd
        /\ \A q \in Request \ {r} : /\ phase'[q] = phase[q] /\ route'[q] = route[q]
                                    /\ loaded'[q] = loaded[q]
    BY <1>1, ContinueEffect DEF Untold, AfterCommit, TrailEnd
  <2>2. \A q \in Request : Untold(q)' <=> Untold(q)
    BY <2>1 DEF Untold, AfterCommit
  <2> QED
    BY <1>1, <2>1, <2>2 DEF SetupInv, TrailInv
<1> QED
  BY <1>2, <1>3 DEF SetupInv

\* The event is written from the row as it was loaded and as it was read again.
LEMMA AuditStep ==
  ASSUME SetupInv, NEW r \in Request, AuditRow(r)
  PROVE  SetupInv'
<1> DEFINE event == [from |-> loaded[r].overrides, to |-> wanted[r].overrides]
<1>1. /\ Continue(r, "refreshed", "idle") /\ wanted' = [wanted EXCEPT ![r] = NoSession]
      /\ phase[r] = "refreshed" /\ phase'[r] = "idle"
      /\ \A q \in Request \ {r} : /\ phase'[q] = phase[q] /\ route'[q] = route[q]
                                  /\ loaded'[q] = loaded[q]
      /\ trail' = IF route[r] # "overrides" THEN trail ELSE Append(trail, event)
      /\ UNCHANGED <<camera, served, overlapped, untold, edited>>
  BY ContinueEffect DEF AuditRow
<1>2. /\ event \in [from : Override \cup {{}}, to : Override \cup {{}}]
      /\ trail \in Seq([from : Override \cup {{}}, to : Override \cup {{}}])
  BY <1>1 DEF SetupInv, FlagsOK, RouteInv, CameraRow
<1> HIDE DEF event
<1>3. trail' \in Seq([from : Override \cup {{}}, to : Override \cup {{}}])
  <2>1. CASE route[r] # "overrides"
    BY <1>1, <1>2, <2>1
  <2>2. CASE route[r] = "overrides"
    BY <1>1, <1>2, <2>2, AppendProperties
  <2> QED
    BY <2>1, <2>2
<1>6. \A i \in DOMAIN trail' : trail'[i] \in [from : Override \cup {{}}, to : Override \cup {{}}]
  <2> DEFINE Events == [from : Override \cup {{}}, to : Override \cup {{}}]
  <2>1. trail' \in Seq(Events)
    BY <1>3
  <2> HIDE DEF Events
  <2>2. \A i \in DOMAIN trail' : trail'[i] \in Events
    BY <2>1
  <2> QED
    BY <2>2 DEF Events
<1>4. FlagsOK' /\ CamerasTypeOK' /\ RouteInv' /\ AsksInv' /\ SoloInv' /\ InForceInv'
  BY <1>1, <1>3, <1>6, EndEffect DEF SetupInv, CamerasTypeOK, FlagsOK
<1>5. TrailInv'
  <2> SUFFICES ASSUME ~overlapped, ~untold
               PROVE  TrailInv'
    BY <1>1 DEF TrailInv
  <2>1. CASE route[r] # "overrides"
    <3>1. /\ TrailEnd' = TrailEnd /\ trail' = trail
          /\ \A q \in Request : Untold(q)' <=> Untold(q)
      BY <1>1, <2>1 DEF TrailEnd, Untold, AfterCommit
    <3>2. \A q \in Request : Untold(q)' => loaded'[q] = loaded[q]
      BY <1>1 DEF Untold, AfterCommit
    <3> QED
      BY <1>1, <3>1, <3>2 DEF SetupInv, TrailInv
  <2>2. CASE route[r] = "overrides"
    <3>1. trail' = Append(trail, event) /\ Untold(r)
      BY <1>1, <2>2 DEF Untold, AfterCommit
    <3>2. event.from = TrailEnd
      BY <3>1 DEF SetupInv, TrailInv, event
    <3>3. /\ event.to = camera.overrides
          /\ \A q \in Request : ~Untold(q)'
      BY <1>1 DEF SetupInv, SoloInv, event, Untold, AfterCommit
    <3>4. /\ Len(trail') = Len(trail) + 1 /\ DOMAIN trail' = 1..(Len(trail) + 1)
          /\ trail'[Len(trail) + 1] = event /\ Len(trail) \in Nat
          /\ \A i \in 1..Len(trail) : trail'[i] = trail[i]
          /\ DOMAIN trail = 1..Len(trail) /\ (trail = <<>> <=> Len(trail) = 0)
      BY <1>2, <3>1
    <3>5. trail' # <<>> /\ TrailEnd' = event.to
      BY <3>4 DEF TrailEnd
    <3>6. ASSUME NEW i \in DOMAIN trail'
          PROVE  trail'[i].from = (IF i = 1 THEN {} ELSE trail'[i - 1].to)
      <4>1. CASE i = Len(trail) + 1
        BY <3>2, <3>4, <4>1 DEF TrailEnd
      <4>2. CASE i # Len(trail) + 1
        <5>1. i \in DOMAIN trail /\ (i # 1 => i - 1 \in 1..Len(trail))
          BY <3>4, <4>2
        <5> QED
          BY <3>4, <5>1 DEF SetupInv, TrailInv
      <4> QED
        BY <4>1, <4>2
    <3> QED
      BY <1>1, <3>3, <3>5, <3>6 DEF TrailInv
  <2> QED
    BY <2>1, <2>2
<1> QED
  BY <1>4, <1>5 DEF SetupInv

LEMMA SetupStep ==
  ASSUME SetupInv, [CamerasNext]_cameraVars
  PROVE  SetupInv'
<1>1. CASE UNCHANGED cameraVars
  BY <1>1 DEF cameraVars, SetupInv, CamerasTypeOK, FlagsOK, RouteInv, AsksInv, SoloInv,
              InForceInv, TrailInv, TrailEnd, Untold, Audited
<1> QED
  BY <1>1, RouteStep, ProbeStep, PublishStep, CommitStep, RefreshStep, AuditStep, FailStep
     DEF CamerasNext

\* While requests come one at a time a profile nobody has corrected is in force, and
\* unless one fails between its commit and its audit event the events lead to the
\* overrides there are: for any streams, overrides, corrections and thresholds.
THEOREM SetupAsRequested == CamerasSpec => []CameraAsRequested
<1>1. SetupInv => ProfileInForce
  BY DEF SetupInv, InForceInv, ProfileInForce, Source
<1>2. SetupInv => TrailReplays
  BY DEF SetupInv, TrailInv, TrailReplays, TrailEnd, Untold, AfterCommit
<1>3. SetupInv => CameraAsRequested
  BY <1>1, <1>2 DEF SetupInv, CameraAsRequested
<1> QED
  BY <1>3, InitSetupInv, SetupStep, PTL DEF CamerasSpec

-----------------------------------------------------------------------------
(***************************************************************************)
(* However requests overlap, the last change of the overrides is told, or  *)
(* in the hands of a request that will tell it: the one that made it, or   *)
(* one that has read the row since.                                        *)
(***************************************************************************)
InHand(r) ==
  /\ route[r] = "overrides"
  /\ phase[r] = "committed" \/ (phase[r] = "refreshed" /\ wanted[r].overrides = camera.overrides)

Told == \E i \in changedAt..Len(trail) : trail[i].to = camera.overrides

ToldInv ==
  /\ changedAt \in Nat /\ changedAt <= Len(trail) + 1
  /\ changedAt # 0 /\ ~untold => Told \/ \E r \in Request : InHand(r)

\* A step that changes neither the row nor the trail, and takes the last change out of
\* no hands, leaves it told.
LEMMA StillInHand ==
  ASSUME SetupInv, ToldInv, UNCHANGED <<camera, trail, changedAt>>,
         untold => untold',
         \A q \in Request : InHand(q) /\ ~untold' => InHand(q)'
  PROVE  ToldInv'
<1>1. Told => Told'
  BY DEF Told
<1>2. untold \in BOOLEAN
  BY DEF SetupInv, FlagsOK
<1> QED
  BY <1>1, <1>2 DEF ToldInv

\* A commit that changes the overrides is of a request that set them.
LEMMA CommitTold ==
  ASSUME SetupInv, ToldInv, NEW r \in Request, CommitRow(r)
  PROVE  ToldInv'
<1>1. /\ phase[r] = "ready" /\ UNCHANGED <<trail, untold>>
      /\ camera'.overrides = Merged(r, "overrides")
      /\ changedAt' = IF camera'.overrides = camera.overrides THEN changedAt ELSE Len(trail) + 1
      /\ \A q \in Request \ {r} : phase'[q] = phase[q] /\ route'[q] = route[q]
      /\ \A q \in Request \ {r} : wanted'[q] = wanted[q]
  BY ContinueEffect DEF CommitRow, Column, AfterCommit, SetupInv, CamerasTypeOK
<1>2. Len(trail) \in Nat
  BY LenProperties DEF SetupInv, FlagsOK
<1>3. CASE camera'.overrides = camera.overrides
  <2>1. \A q \in Request : InHand(q) => InHand(q)'
    BY <1>1, <1>3 DEF InHand
  <2>2. Told => Told'
    BY <1>1, <1>3 DEF Told
  <2> QED
    BY <1>1, <1>3, <2>1, <2>2 DEF ToldInv
<1>4. CASE camera'.overrides # camera.overrides
  <2>1. route[r] = "overrides"
    BY <1>1, <1>4 DEF Merged, SetupInv, AsksInv, BeforeCommit
  <2>2. InHand(r)'
    BY <2>1, ContinueEffect DEF InHand, CommitRow, Audited, AfterCommit
  <2>3. changedAt' \in Nat /\ changedAt' <= Len(trail') + 1
    BY <1>1, <1>2, <1>4
  <2> QED
    BY <2>2, <2>3 DEF ToldInv
<1> QED
  BY <1>3, <1>4

\* An event that tells the overrides there are comes after their last change.
LEMMA AuditTold ==
  ASSUME SetupInv, ToldInv, NEW r \in Request, AuditRow(r)
  PROVE  ToldInv'
<1> DEFINE Events == [from : Override \cup {{}}, to : Override \cup {{}}]
           event == [from |-> loaded[r].overrides, to |-> wanted[r].overrides]
<1>1. /\ phase[r] = "refreshed" /\ UNCHANGED <<camera, untold, changedAt>>
      /\ trail' = IF route[r] # "overrides" THEN trail ELSE Append(trail, event)
      /\ \A q \in Request \ {r} : /\ phase'[q] = phase[q] /\ route'[q] = route[q]
                                  /\ wanted'[q] = wanted[q]
  BY ContinueEffect DEF AuditRow, SetupInv, CamerasTypeOK
<1>2. trail \in Seq(Events) /\ event \in Events
  BY <1>1 DEF SetupInv, FlagsOK, RouteInv, CameraRow
<1>3. event.to = wanted[r].overrides
  OBVIOUS
<1>4. \A q \in Request \ {r} : InHand(q) => InHand(q)'
  BY <1>1 DEF InHand
<1> HIDE DEF Events, event
<1>5. CASE route[r] # "overrides"
  <2>1. \A q \in Request : InHand(q) => InHand(q)'
    BY <1>4, <1>5 DEF InHand
  <2> QED
    BY <1>1, <1>5, <2>1, StillInHand
<1>6. CASE route[r] = "overrides"
  <2>1. /\ Len(trail) \in Nat /\ Len(trail') = Len(trail) + 1
        /\ \A i \in 1..Len(trail) : trail'[i] = trail[i]
        /\ trail'[Len(trail) + 1] = event
    BY <1>1, <1>2, <1>6, AppendProperties, LenProperties
  <2>2. changedAt \in Nat /\ changedAt <= Len(trail) + 1 /\ changedAt' <= Len(trail') + 1
    BY <1>1, <2>1 DEF ToldInv
  <2>3. Told /\ changedAt # 0 => Told'
    BY <1>1, <2>1, <2>2 DEF Told
  <2>4. InHand(r) => Told'
    BY <1>1, <1>3, <2>1, <2>2 DEF InHand, Told
  <2> QED
    BY <1>1, <1>4, <2>2, <2>3, <2>4 DEF ToldInv
<1> QED
  BY <1>5, <1>6

LEMMA ToldStep ==
  ASSUME SetupInv, ToldInv, [CamerasNext]_cameraVars
  PROVE  ToldInv'
<1>1. CASE UNCHANGED cameraVars
  BY <1>1, StillInHand DEF cameraVars, InHand
<1>2. ASSUME NEW r \in Request,
             UpdateCamera(r) \/ UpdateHardware(r) \/ UpdateOverrides(r) \/ SubmitProfile(r)
      PROVE  ToldInv'
  <2>1. /\ phase[r] = "idle" /\ UNCHANGED <<camera, trail, untold, changedAt>>
        /\ \A q \in Request \ {r} : /\ phase'[q] = phase[q] /\ route'[q] = route[q]
                                    /\ wanted'[q] = wanted[q]
    BY <1>2 DEF UpdateCamera, UpdateHardware, UpdateOverrides, SubmitProfile, BeginRequest,
                SetupInv, CamerasTypeOK, RouteInv
  <2>2. \A q \in Request : InHand(q) => q # r /\ InHand(q)'
    BY <2>1 DEF InHand
  <2> QED
    BY <2>1, <2>2, StillInHand
<1>3. ASSUME NEW r \in Request, ProbeReturns(r) \/ PublishConfig(r)
      PROVE  ToldInv'
  <2>1. /\ phase[r] \in {"probing", "publishing"}
        /\ UNCHANGED <<camera, trail, untold, changedAt>>
        /\ \A q \in Request \ {r} : /\ phase'[q] = phase[q] /\ route'[q] = route[q]
                                    /\ wanted'[q] = wanted[q]
    BY <1>3, ContinueEffect DEF ProbeReturns, PublishConfig, SetupInv, CamerasTypeOK
  <2>2. \A q \in Request : InHand(q) => q # r /\ InHand(q)'
    BY <2>1 DEF InHand
  <2> QED
    BY <2>1, <2>2, StillInHand
<1>4. ASSUME NEW r \in Request, RefreshRow(r)
      PROVE  ToldInv'
  <2>1. /\ phase'[r] = "refreshed" /\ wanted'[r] = camera
        /\ UNCHANGED <<route, camera, trail, untold, changedAt>>
        /\ \A q \in Request \ {r} : phase'[q] = phase[q] /\ wanted'[q] = wanted[q]
    BY <1>4, ContinueEffect DEF RefreshRow, AfterCommit, SetupInv, CamerasTypeOK
  <2>2. \A q \in Request : InHand(q) => InHand(q)'
    BY <2>1 DEF InHand
  <2> QED
    BY <2>1, <2>2, StillInHand
<1>5. ASSUME NEW r \in Request, FailRequest(r)
      PROVE  ToldInv'
  <2>1. /\ UNCHANGED <<camera, trail, changedAt>>
        /\ untold' = (untold \/ (route[r] = "overrides" /\ phase[r] \in AfterCommit))
        /\ \A q \in Request \ {r} : /\ phase'[q] = phase[q] /\ route'[q] = route[q]
                                    /\ wanted'[q] = wanted[q]
    BY <1>5, ContinueEffect DEF FailRequest, AfterCommit, SetupInv, CamerasTypeOK
  <2>2. \A q \in Request : InHand(q) /\ ~untold' => InHand(q)'
    BY <2>1 DEF InHand, AfterCommit
  <2> QED
    BY <2>1, <2>2, StillInHand
<1> QED
  BY <1>1, <1>2, <1>3, <1>4, <1>5, CommitTold, AuditTold DEF CamerasNext

\* The trail keeps up with the row, however many requests overlap: unless one has failed
\* between its commit and its audit event, the last change of the overrides is told.
THEOREM TrailKeepsUp == CamerasSpec => []LastChangeTold
<1>1. CamerasInit => ToldInv
  BY EmptySeq DEF CamerasInit, ToldInv
<1>2. ToldInv => LastChangeTold
  BY DEF ToldInv, Told, InHand, LastChangeTold
<1> QED
  BY <1>1, <1>2, InitSetupInv, SetupStep, ToldStep, PTL DEF CamerasSpec

-----------------------------------------------------------------------------
(***************************************************************************)
(* The months of tracking_events, for any months_ahead of the two callers, *)
(* any clock and any rows: they stay ahead of the clock, and retention     *)
(* takes nothing but the past.                                             *)
(*                                                                         *)
(* Months are numbered: the partition n is number Number(n), the instant t *)
(* is in the month number t \div 2.                                        *)
(***************************************************************************)

Number(n) == 12 * n.year + (n.month - 1)

LEMMA Division ==
  ASSUME NEW k \in Nat
  PROVE  /\ k \div 12 \in Nat /\ k % 12 \in 0..11 /\ k = 12 * (k \div 12) + (k % 12)
         /\ k \div 2 \in Nat /\ k \div 24 = (k \div 2) \div 12
OBVIOUS

LEMMA MonthsInOrder ==
  ASSUME NEW n \in Name
  PROVE  /\ Number(n) \in Nat
         /\ MonthStart(n) = 2 * Number(n) /\ MonthEnd(n) = 2 * Number(n) + 2
BY DEF Name, Number, MonthStart, MonthEnd, FirstDay

LEMMA InMonthByNumber ==
  ASSUME NEW n \in Name, NEW t \in Nat
  PROVE  InMonth(n, t) <=> Number(n) = t \div 2
<1>1. ASSUME NEW m \in Nat
      PROVE  (2 * m <= t /\ t < 2 * m + 2) <=> m = t \div 2
  OBVIOUS
<1> QED
  BY <1>1, MonthsInOrder DEF InMonth

LEMMA NumberNames ==
  ASSUME NEW n \in Name, NEW m \in Name, Number(n) = Number(m)
  PROVE  n = m
<1>1. n.year = m.year /\ n.month = m.month
  BY DEF Name, Number
<1> QED
  BY <1>1 DEF Name

\* _add_months counts months, across any number of years.
LEMMA AddMonthsCounts ==
  ASSUME NEW n \in Name, NEW d \in Nat
  PROVE  AddMonths(n, d) \in Name /\ Number(AddMonths(n, d)) = Number(n) + d
<1> DEFINE total == (n.month - 1) + d
           q == total \div 12
           r == total % 12
<1>1. total \in Nat /\ n.year \in Nat /\ n.month \in 1..12
  BY DEF Name
<1>2. q \in Nat /\ r \in 0..11 /\ total = 12 * q + r
  BY <1>1, Division
<1>3. AddMonths(n, d) = [year |-> n.year + q, month |-> r + 1]
  BY DEF AddMonths
<1>4. Number(n) + d = 12 * n.year + total
  BY <1>1 DEF Number
<1> HIDE DEF total, q, r
<1> QED
  BY <1>1, <1>2, <1>3, <1>4 DEF Name, Number

LEMMA MonthOfCounts ==
  ASSUME NEW t \in Nat
  PROVE  MonthOf(t) \in Name /\ Number(MonthOf(t)) = t \div 2
<1> DEFINE h == t \div 2
           q == h \div 12
           r == h % 12
<1>1. h \in Nat /\ MonthOf(t) = [year |-> q, month |-> r + 1]
  BY Division DEF MonthOf
<1>2. q \in Nat /\ r \in 0..11 /\ h = 12 * q + r
  BY <1>1, Division
<1> HIDE DEF h, q, r
<1>3. Number(MonthOf(t)) = h /\ MonthOf(t) \in Name
  BY <1>1, <1>2 DEF Name, Number
<1> QED
  BY <1>3 DEF h
-----------------------------------------------------------------------------
(***************************************************************************)
(* The invariant.  As long as the callers come in time there are           *)
(* partitions for the months they would not have to come for, and what is  *)
(* in the DEFAULT partition is of months gone by.                          *)
(***************************************************************************)
ThisMonth == today \div 2

AheadInv ==
  idle <= JobAhead =>
    /\ \A d \in 0..(JobAhead - idle) : \E p \in parts : Number(p) = ThisMonth + d
    /\ \A t \in default : t \div 2 < ThisMonth

MonthsInv == PartitionsTypeOK /\ AheadInv

LEMMA TodayInMonth ==
  ASSUME PartitionsTypeOK
  PROVE  /\ today \in Nat /\ ThisMonth \in Nat
         /\ MonthOf(today) \in Name /\ Number(MonthOf(today)) = ThisMonth
<1>1. today \in Nat
  BY PartitionsAssumption DEF PartitionsTypeOK
<1> QED
  BY <1>1, Division, MonthOfCounts DEF ThisMonth

LEMMA WantedMonths ==
  ASSUME PartitionsTypeOK, NEW ahead \in Nat
  PROVE  /\ Wanted(ahead) \subseteq Name
         /\ \A d \in 0..ahead : \E p \in Wanted(ahead) : Number(p) = ThisMonth + d
         /\ \A p \in Wanted(ahead) : Number(p) >= ThisMonth
<1>1. ASSUME NEW d \in 0..ahead
      PROVE  /\ AddMonths(MonthOf(today), d) \in Name
             /\ Number(AddMonths(MonthOf(today), d)) = ThisMonth + d
  <2>1. MonthOf(today) \in Name /\ Number(MonthOf(today)) = ThisMonth /\ d \in Nat
    BY TodayInMonth
  <2> QED
    BY <2>1, AddMonthsCounts
<1> QED
  BY <1>1, TodayInMonth DEF Wanted

LEMMA InitMonthsInv == PartitionsInit => MonthsInv
<1> SUFFICES ASSUME PartitionsInit
             PROVE  MonthsInv
  OBVIOUS
<1> USE PartitionsAssumption
<1>1. today = Birth /\ Birth \in Nat /\ parts = {MonthOf(today)} /\ idle = JobAhead
  BY DEF PartitionsInit
<1>2. MonthOf(today) \in Name /\ Number(MonthOf(today)) = ThisMonth /\ ThisMonth \in Nat
  BY <1>1, MonthOfCounts, Division DEF ThisMonth
<1>3. PartitionsTypeOK
  <2>1. default \subseteq 0..Horizon
    BY DEF PartitionsInit
  <2>2. stored = {} /\ serving = FALSE /\ cutoff = 0
    BY DEF PartitionsInit
  <2>3. today \in Birth..Horizon /\ idle \in 0..(JobAhead + 1) /\ cutoff \in 0..Horizon
    BY <1>1, <2>2
  <2>4. parts \subseteq Name /\ stored \subseteq 0..Horizon /\ serving \in BOOLEAN
    BY <1>1, <1>2, <2>2
  <2> QED
    BY <2>1, <2>3, <2>4 DEF PartitionsTypeOK
<1>4. ASSUME NEW t \in default
      PROVE  t \div 2 < ThisMonth
  <2>1. t \in Nat /\ t <= today /\ ~InMonth(MonthOf(today), t)
    BY <1>1 DEF PartitionsInit
  <2>2. t \div 2 # ThisMonth
    BY <2>1, <1>2, InMonthByNumber
  <2>3. t \div 2 <= today \div 2 /\ t \div 2 \in Nat
    BY <2>1, <1>1
  <2> QED
    BY <2>2, <2>3, <1>2 DEF ThisMonth
<1>5. \A d \in 0..(JobAhead - idle) : \E p \in parts : Number(p) = ThisMonth + d
  BY <1>1, <1>2
<1> QED
  BY <1>3, <1>4, <1>5 DEF MonthsInv, AheadInv

LEMMA EnsureStep ==
  ASSUME MonthsInv, NEW ahead \in Nat, JobAhead <= ahead, EnsureFuture(ahead),
         UNCHANGED <<today, stored, default, cutoff>>, serving' \in BOOLEAN
  PROVE  MonthsInv'
<1> USE PartitionsAssumption
<1>1. PartitionsTypeOK /\ AheadInv /\ ThisMonth' = ThisMonth
  BY DEF MonthsInv, ThisMonth
<1>2. PartitionsTypeOK'
  BY <1>1, WantedMonths DEF PartitionsTypeOK, EnsureFuture
<1>3. ASSUME idle' <= JobAhead
      PROVE  /\ \A d \in 0..(JobAhead - idle') : \E p \in parts' : Number(p) = ThisMonth + d
             /\ \A t \in default' : t \div 2 < ThisMonth
  <2>1. idle \in Nat /\ idle <= JobAhead /\ idle' = 0
    BY <1>1, <1>3 DEF EnsureFuture, PartitionsTypeOK
  <2> QED
    BY <1>1, <2>1, WantedMonths DEF EnsureFuture, AheadInv
<1> QED
  BY <1>1, <1>2, <1>3 DEF MonthsInv, AheadInv

LEMMA PassingStep ==
  ASSUME MonthsInv, Passing
  PROVE  MonthsInv'
<1> USE PartitionsAssumption
<1>1. PartitionsTypeOK /\ AheadInv
  BY DEF MonthsInv
<1>2. /\ today \in Nat /\ today' = today + 1 /\ idle \in 0..(JobAhead + 1)
      /\ UNCHANGED <<parts, stored, default, serving, cutoff>>
  BY <1>1 DEF Passing, PartitionsTypeOK
<1>3. PartitionsTypeOK'
  BY <1>1, <1>2 DEF Passing, PartitionsTypeOK
<1>4. /\ ThisMonth \in Nat
      /\ ThisMonth' = ThisMonth \/ ThisMonth' = ThisMonth + 1
  BY <1>2 DEF ThisMonth
<1>5. MonthOf(today + 1) # MonthOf(today) <=> ThisMonth' # ThisMonth
  <2>1. /\ MonthOf(today + 1) \in Name /\ Number(MonthOf(today + 1)) = ThisMonth'
        /\ MonthOf(today) \in Name /\ Number(MonthOf(today)) = ThisMonth
    BY <1>2, MonthOfCounts DEF ThisMonth
  <2> QED
    BY <2>1, NumberNames
<1>6. ASSUME idle' <= JobAhead
      PROVE  /\ \A d \in 0..(JobAhead - idle') : \E p \in parts' : Number(p) = ThisMonth' + d
             /\ \A t \in default' : t \div 2 < ThisMonth'
  <2>1. /\ idle <= JobAhead
        /\ \/ idle' = idle /\ ThisMonth' = ThisMonth
           \/ idle' = idle + 1 /\ ThisMonth' = ThisMonth + 1
    BY <1>2, <1>4, <1>5, <1>6 DEF Passing
  <2>2. ASSUME NEW t \in default
        PROVE  t \div 2 < ThisMonth'
    <3>1. t \div 2 < ThisMonth /\ t \in Nat
      BY <2>1, <1>1 DEF AheadInv, PartitionsTypeOK
    <3>2. t \div 2 \in Nat
      BY <3>1, Division
    <3> QED
      BY <3>1, <3>2, <1>4
  <2>3. ASSUME NEW d \in 0..(JobAhead - idle')
        PROVE  \E p \in parts : Number(p) = ThisMonth' + d
    <3> DEFINE e == d + (ThisMonth' - ThisMonth)
    <3>1. e \in 0..(JobAhead - idle) /\ ThisMonth + e = ThisMonth' + d
      BY <2>1, <1>2, <1>4
    <3> QED
      BY <3>1, <2>1, <1>1 DEF AheadInv
  <2> QED
    BY <1>2, <2>2, <2>3
<1> QED
  BY <1>3, <1>6 DEF MonthsInv, AheadInv

LEMMA AddRowStep ==
  ASSUME MonthsInv, NEW t \in (today - Late)..today, AddRow(t)
  PROVE  MonthsInv'
<1> USE PartitionsAssumption
<1>1. PartitionsTypeOK /\ AheadInv /\ ThisMonth' = ThisMonth /\ ThisMonth \in Nat
  BY TodayInMonth DEF MonthsInv, ThisMonth, AddRow
<1>2. t \in 0..Horizon /\ t \in Nat /\ today \in Nat /\ t <= today
  BY <1>1 DEF PartitionsTypeOK
<1>3. PartitionsTypeOK'
  BY <1>1, <1>2 DEF PartitionsTypeOK, AddRow
<1>4. ASSUME idle <= JobAhead, ~Covered(t)
      PROVE  t \div 2 < ThisMonth
  <2>1. PICK p \in parts : Number(p) = ThisMonth
    <3>1. 0 \in 0..(JobAhead - idle)
      BY <1>1, <1>4 DEF PartitionsTypeOK
    <3> QED
      BY <3>1, <1>1, <1>4 DEF AheadInv
  <2>2. ~InMonth(p, t) /\ p \in Name
    BY <1>1, <1>4, <2>1 DEF Covered, PartitionsTypeOK
  <2>3. t \div 2 # ThisMonth
    BY <1>2, <2>1, <2>2, InMonthByNumber
  <2>4. t \div 2 <= today \div 2 /\ t \div 2 \in Nat
    BY <1>2
  <2> QED
    BY <1>1, <2>3, <2>4 DEF ThisMonth
<1> QED
  BY <1>1, <1>3, <1>4 DEF MonthsInv, AheadInv, AddRow

\* What is dropped ended before the clock: no month of now or later is.
LEMMA DropStep ==
  ASSUME MonthsInv, NEW c \in Birth..today, DropBefore(c)
  PROVE  MonthsInv'
<1> USE PartitionsAssumption
<1>1. PartitionsTypeOK /\ AheadInv /\ ThisMonth' = ThisMonth /\ ThisMonth \in Nat
  BY TodayInMonth DEF MonthsInv, ThisMonth, DropBefore
<1>2. c \in Nat /\ c <= today /\ today \in Nat /\ c \in 0..Horizon
  BY <1>1 DEF PartitionsTypeOK
<1>3. PartitionsTypeOK'
  BY <1>1, <1>2 DEF PartitionsTypeOK, DropBefore
<1>4. ASSUME NEW p \in parts, Number(p) >= ThisMonth
      PROVE  p \in parts'
  <2>1. p \in Name
    BY <1>1 DEF PartitionsTypeOK
  <2>2. MonthEnd(p) = 2 * Number(p) + 2 /\ Number(p) \in Nat
    BY <2>1, MonthsInOrder
  <2>3. today < 2 * ThisMonth + 2
    BY <1>2 DEF ThisMonth
  <2>4. ~(MonthEnd(p) <= c)
    BY <1>1, <1>2, <1>4, <2>2, <2>3
  <2> QED
    BY <2>4 DEF DropBefore
<1>5. ASSUME idle <= JobAhead, NEW d \in 0..(JobAhead - idle)
      PROVE  \E p \in parts' : Number(p) = ThisMonth + d
  <2>1. PICK p \in parts : Number(p) = ThisMonth + d
    BY <1>1, <1>5 DEF AheadInv
  <2>2. Number(p) >= ThisMonth
    BY <1>1, <2>1 DEF PartitionsTypeOK
  <2> QED
    BY <1>4, <2>1, <2>2
<1>6. idle' = idle /\ default' = default
  BY DEF DropBefore
<1> QED
  BY <1>1, <1>3, <1>5, <1>6 DEF MonthsInv, AheadInv

LEMMA MonthsStep ==
  ASSUME MonthsInv, [PartitionsNext]_partitionVars
  PROVE  MonthsInv'
<1>1. CASE StartApi
  BY <1>1, EnsureStep, PartitionsAssumption DEF StartApi
<1>2. CASE StopApi
  BY <1>2 DEF StopApi, MonthsInv, AheadInv, PartitionsTypeOK, ThisMonth
<1>3. CASE PartitionJob
  BY <1>3, EnsureStep, PartitionsAssumption DEF PartitionJob, MonthsInv, PartitionsTypeOK
<1>4. CASE UNCHANGED partitionVars
  BY <1>4 DEF partitionVars, MonthsInv, AheadInv, PartitionsTypeOK, ThisMonth
<1> QED
  BY <1>1, <1>2, <1>3, <1>4, PassingStep, AddRowStep, DropStep DEF PartitionsNext

LEMMA AheadOfTheClockHolds ==
  ASSUME MonthsInv
  PROVE  AheadOfTheClock
<1> USE PartitionsAssumption
<1>1. PartitionsTypeOK /\ AheadInv
  BY DEF MonthsInv
<1> SUFFICES ASSUME idle <= JobAhead
             PROVE  Covered(today) /\ Ensurable(StartAhead) /\ Ensurable(JobAhead)
  BY DEF AheadOfTheClock
<1>2. Covered(today)
  <2>1. 0 \in 0..(JobAhead - idle) /\ ThisMonth \in Nat
    BY <1>1, TodayInMonth DEF PartitionsTypeOK
  <2>2. PICK p \in parts : Number(p) = ThisMonth
    BY <2>1, <1>1 DEF AheadInv
  <2> QED
    BY <1>1, <2>2, TodayInMonth, InMonthByNumber DEF Covered, ThisMonth, PartitionsTypeOK
<1>3. ASSUME NEW ahead \in Nat
      PROVE  Ensurable(ahead)
  <2> SUFFICES ASSUME NEW p \in Wanted(ahead), NEW t \in default
               PROVE  ~InMonth(p, t)
    BY DEF Ensurable
  <2>1. p \in Name /\ Number(p) >= ThisMonth
    BY <1>1, WantedMonths
  <2>2. t \in Nat /\ t \div 2 < ThisMonth
    BY <1>1 DEF AheadInv, PartitionsTypeOK
  <2>3. t \div 2 \in Nat /\ ThisMonth \in Nat /\ Number(p) \in Nat
    BY <1>1, <2>1, <2>2, Division, TodayInMonth, MonthsInOrder
  <2> QED
    BY <2>1, <2>2, <2>3, InMonthByNumber
<1> QED
  BY <1>2, <1>3

\* As long as one of the callers of ensure_future_partitions comes before JobAhead
\* months have begun, rows of today have a partition of their own and both calls
\* succeed: for any months_ahead, any late rows and any retention.
THEOREM MonthsStayAhead == PartitionsSpec => []PartitionsAhead
<1>1. MonthsInv => PartitionsAhead
  BY AheadOfTheClockHolds DEF MonthsInv, PartitionsAhead
<1> QED
  BY <1>1, InitMonthsInv, MonthsStep, PTL DEF PartitionsSpec

\* drop_partitions_before takes no row that is not older than the date it is given,
\* and nothing else takes any: whatever date retention is run with.
THEOREM OnlyThePastIsDropped == PartitionsSpec => RetentionKept
<1> DEFINE Kept == \A t \in stored \cup default : t \notin stored' \cup default' => t < cutoff'
<1> USE PartitionsAssumption
<1>1. ASSUME MonthsInv, [PartitionsNext]_partitionVars
      PROVE  [Kept]_partitionVars
  <2>1. CASE \E c \in Birth..today : DropBefore(c)
    <3>1. PICK c \in Birth..today : DropBefore(c)
      BY <2>1
    <3>2. c \in Nat /\ cutoff \in Nat /\ parts \subseteq Name /\ stored \subseteq Nat
      BY <1>1 DEF MonthsInv, PartitionsTypeOK
    <3>3. c <= cutoff' /\ cutoff' \in Nat /\ default' = default
      BY <3>1, <3>2 DEF DropBefore
    <3>4. ASSUME NEW t \in stored, t \notin stored'
          PROVE  t < cutoff'
      <4>1. PICK p \in parts : MonthEnd(p) <= c /\ InMonth(p, t)
        BY <3>1, <3>4 DEF DropBefore
      <4>2. t \in Nat /\ t < MonthEnd(p) /\ MonthEnd(p) \in Nat
        BY <3>2, <4>1, MonthsInOrder DEF InMonth
      <4> QED
        BY <3>2, <3>3, <4>1, <4>2
    <3> QED
      BY <3>3, <3>4
  <2>2. CASE UNCHANGED <<stored, default>>
    BY <2>2
  <2>3. CASE \E t \in (today - Late)..today : AddRow(t)
    BY <2>3 DEF AddRow
  <2> QED
    BY <1>1, <2>1, <2>2, <2>3
       DEF PartitionsNext, StartApi, StopApi, PartitionJob, Passing, partitionVars
<1> QED
  BY <1>1, InitMonthsInv, MonthsStep, PTL DEF PartitionsSpec, RetentionKept

-----------------------------------------------------------------------------
(***************************************************************************)
(* The jobs: a worker the check takes for absent has not been alive at     *)
(* some time since the check began.                                        *)
(***************************************************************************)

\* Whoever is alive has renewed its key in time.
KeysRenewed == \A w \in Worker : alive[w] => left[w] >= BeatLife - BeatEvery

\* While a check runs, whoever is not alive is known to have fallen.
FallsSeen == checking # "idle" => \A w \in Worker : alive[w] \/ w \in fallen

\* What a check has found goes with it.
IdleForgets == checking = "idle" => missing = {}

JobsInv == JobsTypeOK /\ OnlyFallenMissed /\ KeysRenewed /\ FallsSeen /\ IdleForgets

LEMMA InitJobsInv == JobsInit => JobsInv
<1> SUFFICES ASSUME JobsInit
             PROVE  JobsInv
  OBVIOUS
<1>1. raised \in Seq({"event", "absent", "broken"}) /\ Len(raised) = 0
  BY EmptySeq DEF JobsInit
<1>2. left \in [Worker -> 0..BeatLife] /\ KeysRenewed
  BY BeatAssumption DEF JobsInit, KeysRenewed
<1> QED
  BY <1>1, <1>2, JobsAssumption
     DEF JobsInit, JobsInv, JobsTypeOK, OnlyFallenMissed, FallsSeen, IdleForgets

LEMMA FirstOfIsOne ==
  ASSUME NEW ids \in SUBSET AuditId, ids # {}
  PROVE  FirstOf(ids) \in ids
<1>1. \E i \in ids : \A j \in ids : i <= j
  BY LeastElement, JobsAssumption
<1> QED
  BY <1>1 DEF FirstOf

\* Workers come and go, and time passes.
LEMMA WorkersStep ==
  ASSUME JobsInv, HalfSecond \/ \E w \in Worker : Beat(w) \/ Die(w)
  PROVE  JobsInv'
<1> USE DEF JobsInv, JobsTypeOK
<1>1. UNCHANGED <<broken, checking, toAsk, missing, verifying, brokenAt, raised, announced>>
  BY DEF HalfSecond, Beat, Die, jobVars
<1>2. ASSUME NEW w \in Worker, Beat(w)
      PROVE  JobsInv'
  <2>1. /\ alive' \in [Worker -> BOOLEAN] /\ left' \in [Worker -> 0..BeatLife]
        /\ fallen' = fallen /\ \A v \in Worker : alive[v] => alive'[v]
    BY <1>2, BeatAssumption DEF Beat
  <2>2. KeysRenewed'
    BY <1>2, BeatAssumption DEF Beat, KeysRenewed
  <2> QED
    BY <1>1, <2>1, <2>2 DEF OnlyFallenMissed, FallsSeen, IdleForgets
<1>3. ASSUME NEW w \in Worker, Die(w)
      PROVE  JobsInv'
  <2>1. /\ alive' \in [Worker -> BOOLEAN] /\ left' = left
        /\ \A v \in Worker \ {w} : alive'[v] = alive[v]
        /\ fallen' = (IF checking = "idle" THEN {} ELSE fallen \cup {w}) /\ ~alive'[w]
    BY <1>3 DEF Die
  <2>2. KeysRenewed' /\ FallsSeen'
    BY <1>1, <2>1 DEF KeysRenewed, FallsSeen
  <2>3. OnlyFallenMissed'
    BY <1>1, <2>1 DEF OnlyFallenMissed, IdleForgets
  <2> QED
    BY <1>1, <2>1, <2>2, <2>3 DEF IdleForgets
<1>4. CASE HalfSecond
  <2>1. /\ alive' = alive /\ fallen' = fallen
        /\ \A w \in Worker : left'[w] = IF left[w] = 0 THEN 0 ELSE left[w] - 1
        /\ \A w \in Worker : alive[w] => left[w] > BeatLife - BeatEvery
        /\ DOMAIN left' = Worker /\ left' = [w \in Worker |-> left'[w]]
    BY <1>4 DEF HalfSecond
  <2>2. ASSUME NEW w \in Worker
        PROVE  left'[w] \in 0..BeatLife /\ (alive'[w] => left'[w] >= BeatLife - BeatEvery)
    <3>1. left[w] \in 0..BeatLife /\ BeatLife \in Nat /\ BeatEvery \in Nat
      BY BeatAssumption
    <3> QED
      BY <2>1, <3>1, BeatAssumption
  <2>3. left' \in [Worker -> 0..BeatLife]
    BY <2>1, <2>2
  <2> QED
    BY <1>1, <2>1, <2>2, <2>3 DEF OnlyFallenMissed, KeysRenewed, FallsSeen, IdleForgets
<1> QED
  BY <1>2, <1>3, <1>4

\* Whoever's TTL is nothing, or rounds to nothing, is not alive.
LEMMA NoTimeLeft ==
  ASSUME JobsInv, NEW w \in Worker, TTLOf(w) <= 0
  PROVE  ~alive[w]
<1>1. left[w] \in Nat /\ BeatLife \in Nat /\ BeatEvery \in Nat
  BY BeatAssumption DEF JobsInv, JobsTypeOK
<1>2. left[w] < 2
  BY <1>1 DEF TTLOf
<1> QED
  BY <1>1, <1>2, BeatAssumption DEF JobsInv, KeysRenewed

\* The steps of the jobs that write no row of alerts.
LEMMA CheckStep ==
  ASSUME JobsInv,
         \/ \E w \in Worker : AskTTL(w)
         \/ \E i \in AuditId : BreakChain(i)
         \/ ReadKeys \/ AllAsked \/ AllThere \/ CheckFails \/ VerifyChain
  PROVE  JobsInv'
<1> USE DEF JobsInv
<1>1. UNCHANGED <<alive, left, raised, announced>>
  BY DEF AskTTL, BreakChain, ReadKeys, AllAsked, AllThere, CheckFails, EndCheck, VerifyChain
<1>2. KeysRenewed'
  BY <1>1 DEF KeysRenewed
<1>3. ASSUME NEW w \in Worker, AskTTL(w)
      PROVE  JobsInv'
  <2>1. missing' \subseteq fallen /\ missing' \subseteq Worker
    BY <1>3, NoTimeLeft DEF AskTTL, OnlyFallenMissed, FallsSeen, JobsTypeOK
  <2> QED
    BY <1>2, <1>3, <2>1 DEF AskTTL, JobsTypeOK, OnlyFallenMissed, FallsSeen, IdleForgets
<1>4. ASSUME NEW i \in AuditId, BreakChain(i)
      PROVE  JobsInv'
  BY <1>2, <1>4 DEF BreakChain, JobsTypeOK, OnlyFallenMissed, FallsSeen, IdleForgets
<1>5. CASE ReadKeys
  <2>1. missing = {}
    BY <1>5 DEF ReadKeys, IdleForgets
  <2> QED
    BY <1>2, <1>5, <2>1 DEF ReadKeys, JobsTypeOK, OnlyFallenMissed, FallsSeen, IdleForgets
<1>6. CASE AllAsked \/ AllThere \/ CheckFails
  BY <1>2, <1>6
     DEF AllAsked, AllThere, CheckFails, EndCheck, JobsTypeOK, OnlyFallenMissed, FallsSeen, IdleForgets
<1>7. CASE VerifyChain
  <2>1. brokenAt' \in AuditId \cup {0}
    BY <1>7, FirstOfIsOne DEF VerifyChain, JobsTypeOK
  <2> QED
    BY <1>2, <1>7, <2>1 DEF VerifyChain, JobsTypeOK, OnlyFallenMissed, FallsSeen, IdleForgets
<1> QED
  BY <1>3, <1>4, <1>5, <1>6, <1>7

LEMMA RaisedGrows ==
  ASSUME JobsInv, NEW what \in {"event", "absent", "broken"}, Len(raised) # MaxAlerts
  PROVE  /\ Append(raised, what) \in Seq({"event", "absent", "broken"})
         /\ Len(Append(raised, what)) = Len(raised) + 1
         /\ Len(Append(raised, what)) <= MaxAlerts
<1>1. raised \in Seq({"event", "absent", "broken"}) /\ Len(raised) <= MaxAlerts
  BY DEF JobsInv, JobsTypeOK
<1>2. Len(raised) \in Nat
  BY <1>1, LenProperties
<1> QED
  BY <1>1, <1>2, AppendProperties, JobsAssumption

\* The steps that may.
LEMMA AlertStep ==
  ASSUME JobsInv, FireEvent \/ ReportAbsent \/ ReportBroken
  PROVE  JobsInv'
<1> USE DEF JobsInv
<1>1. raised \in Seq({"event", "absent", "broken"}) /\ Len(raised) \in Nat
      /\ announced \in 0..Len(raised) /\ Len(raised) <= MaxAlerts
  BY LenProperties DEF JobsTypeOK
<1>2. /\ raised' \in Seq({"event", "absent", "broken"}) /\ Len(raised') <= MaxAlerts
      /\ announced' \in 0..Len(raised')
  <2>1. CASE FireEvent
    BY <1>1, <2>1, RaisedGrows, JobsAssumption DEF FireEvent
  <2>2. ASSUME NEW what \in {"absent", "broken"}, Emit(what)
        PROVE  /\ raised' \in Seq({"event", "absent", "broken"}) /\ Len(raised') <= MaxAlerts
               /\ announced' \in 0..Len(raised')
    <3>1. CASE raised' = raised
      BY <1>1, <2>2, <3>1 DEF Emit
    <3>2. CASE raised' # raised
      <4>1. Len(raised) # MaxAlerts /\ raised' = Append(raised, what)
        BY <2>2, <3>2 DEF Emit
      <4> QED
        BY <1>1, <2>2, <4>1, RaisedGrows DEF Emit
    <3> QED
      BY <3>1, <3>2
  <2> QED
    BY <2>1, <2>2 DEF ReportAbsent, ReportBroken
<1>3. UNCHANGED <<alive, left, broken>> /\ verifying' \in {verifying, "idle"}
      /\ brokenAt' \in {brokenAt, 0}
      /\ \/ UNCHANGED <<checking, toAsk, missing, fallen>>
         \/ checking' = "idle" /\ toAsk' = {} /\ missing' = {} /\ fallen' = {}
  BY DEF FireEvent, ReportAbsent, ReportBroken, EndCheck
<1> QED
  BY <1>2, <1>3 DEF JobsTypeOK, OnlyFallenMissed, KeysRenewed, FallsSeen, IdleForgets

\* A worker is taken for absent only if it was, since the check began: for any life of a
\* heartbeat that is a second or more longer than the time between two.
THEOREM NobodyAccusedFalsely == JobsSpec => []NoFalseAlarm
<1>1. JobsInv /\ [JobsNext]_jobsVars => JobsInv'
  <2>1. JobsInv /\ UNCHANGED jobsVars => JobsInv'
    BY DEF jobsVars, JobsInv, JobsTypeOK, OnlyFallenMissed, KeysRenewed, FallsSeen, IdleForgets
  <2> QED
    BY <2>1, WorkersStep, CheckStep, AlertStep DEF JobsNext
<1>2. JobsInv => NoFalseAlarm
  BY DEF JobsInv, NoFalseAlarm
<1> QED
  BY <1>1, <1>2, InitJobsInv, PTL DEF JobsSpec
=============================================================================
