---------------------------- MODULE DetectorRules ----------------------------
(***************************************************************************)
(* The rules of src/vms/anomaly/detectors that look at one frame, and the  *)
(* registry that loads detectors.  A context ctx holds the frame, what the *)
(* orchestrator hands in with it and what its seams answer:                *)
(*   frame       the message, with its tracklets and violence score        *)
(*   entries     the identity registry, in order of insertion              *)
(*   zones       current zone of each track, as a sequence of pairs        *)
(*   threshold   loiter_threshold_s of every zone there is                 *)
(*   entered     entered_at of the newest open row of a track and zone     *)
(*   now         the clock                                                 *)
(* A report is what makes it one: the track or tracklet it names.          *)
(***************************************************************************)
EXTENDS Integers, SequencesExt, Selection

CONSTANTS
  Nobody,       \* no report, no track, no person
  MustWear,     \* the items the PPE detector checks
  GearMin,      \* ppe_helmet_threshold and the like
  ViolenceMin,  \* violence_threshold
  LostAfter     \* lost_after_s

\* The first of a sequence that satisfies Test, or Nobody.
FirstThat(seq, Test(_)) ==
  LET i == SelectInSeq(seq, Test) IN IF i = 0 THEN Nobody ELSE seq[i]

\* PPEDetector.evaluate: an item that was looked for and not found.
Violations(t) == {g \in MustWear : t.gear[g] # Nobody /\ t.gear[g] < GearMin}

\* Mutant of PPEReport: a tracklet in order ends the loop.
PPEReportOfFirst(ctx) ==
  LET ts == ctx.frame.tracklets
  IN  IF Len(ts) > 0 /\ Violations(ts[1]) # {} THEN ts[1].id ELSE Nobody

\* The event names the first tracklet that violates by its local_track_id.
PPEReport(ctx) ==
  LET i == SelectInSeq(ctx.frame.tracklets, LAMBDA t : Violations(t) # {})
  IN  IF i = 0 THEN Nobody ELSE ctx.frame.tracklets[i].id

\* ViolenceDetector: should_run and evaluate.
ViolenceReport(ctx) ==
  IF ctx.frame.violence # Nobody /\ ctx.frame.violence >= ViolenceMin
  THEN ctx.frame.cam ELSE Nobody

\* _gid_for_tracklet, _person_id_for: the first entry of the track answers.
EntryOf(ctx, t) == FirstThat(ctx.entries, LAMBDA e : e.cam = ctx.frame.cam /\ e.id = t.id)

GidOf(ctx, t) == LET e == EntryOf(ctx, t) IN IF e = Nobody THEN Nobody ELSE e.gid

PersonOf(ctx, gid) == FirstThat(ctx.entries, LAMBDA e : e.gid = gid).person

\* UnknownPersonDetector.evaluate
UnknownReport(ctx) ==
  LET t == FirstThat(ctx.frame.tracklets,
             LAMBDA tl : GidOf(ctx, tl) # Nobody /\ PersonOf(ctx, GidOf(ctx, tl)) = Nobody)
  IN  IF t = Nobody THEN Nobody ELSE GidOf(ctx, t)

\* _registry_last_seen: of two entries of one track the later inserted answers.
LastSeen(ctx, gid) == FirstThat(Reverse(ctx.entries), LAMBDA e : e.gid = gid).seen

\* PersonLostDetector.evaluate
LostReport(ctx) ==
  LET e == FirstThat(ctx.entries, LAMBDA en : ctx.now - LastSeen(ctx, en.gid) > LostAfter)
  IN  IF e = Nobody THEN Nobody ELSE e.gid

\* LoiteringDetector.evaluate over active_track_zones; _entered_at.
LoiterReport(ctx) ==
  LET due(p) ==
        /\ p[2] \in DOMAIN ctx.threshold
        /\ ctx.entered[p] # Nobody
        /\ ctx.now - ctx.entered[p] >= ctx.threshold[p[2]]
  IN  FirstThat(ctx.zones, due)

\* The detectors of this module by their alert_type.
Reports(ctx) ==
  [PPE_VIOLATION |-> PPEReport(ctx), VIOLENCE |-> ViolenceReport(ctx),
   UNKNOWN_PERSON |-> UnknownReport(ctx), PERSON_LOST |-> LostReport(ctx),
   LOITERING |-> LoiterReport(ctx)]
-----------------------------------------------------------------------------
(***************************************************************************)
(* load_enabled_detectors over the rows of anomaly_detectors.  config is   *)
(* "null", "object", "other" JSON or "garbage", class what class_path      *)
(* names: a detector, another class, nothing that can be imported, or a    *)
(* detector whose constructor raises.                                      *)
(***************************************************************************)
Loadable(row) == row.config \in {"null", "object"} /\ row.class = "detector"

LoadEnabled(rows) ==
  LET enabled == {i \in 1..Len(rows) : rows[i].enabled}
      bad == At(rows, {i \in enabled : ~Loadable(rows[i])})
  IN  [loaded |-> {rows[i].type : i \in {j \in enabled : Loadable(rows[j])}},
       errors |-> [i \in 1..Len(bad) |-> bad[i].type]]
=============================================================================
