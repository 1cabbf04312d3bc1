--------------------------- MODULE IdentityRules ---------------------------
(***************************************************************************)
(* The pure rules of src/vms/identity: the quality-windowed gallery of a   *)
(* tracklet, the transit gate between two cameras, the fusion of           *)
(* modalities, and the ray-casting test behind zones.                      *)
(***************************************************************************)
EXTENDS Integers, Sequences, FiniteSets

\* A gallery and its window: faces and bodies have one each.
EmptyGallery == [slots |-> <<>>, start |-> 0, best |-> -1]

LastOf(s, n) == IF Len(s) <= n THEN s ELSE SubSeq(s, Len(s) - n + 1, Len(s))

ReplaceLast(s, v) == IF s = <<>> THEN <<v>> ELSE [s EXCEPT ![Len(s)] = v]

\* _update_galleries for one modality: a vector of quality q seen now.  p holds
\* reid_quality_window_s, reid_quality_norm_floor and reid_gallery_size.
Admit(g, v, q, now, p) ==
  CASE q < p.floor -> g
    [] q >= p.floor /\ now - g.start < p.window /\ q <= g.best -> g
    [] q >= p.floor /\ now - g.start < p.window /\ q > g.best ->
         [g EXCEPT !.slots = ReplaceLast(@, v), !.best = q]
    [] q >= p.floor /\ now - g.start >= p.window ->
         [slots |-> LastOf(Append(g.slots, v), p.size), start |-> now, best |-> q]

\* CameraTopology.transit_ok: pairs without a (well-formed) window are allowed.
\* windows maps sorted pairs to [min, max].
SortedPair(a, b) == IF a < b THEN <<a, b>> ELSE <<b, a>>

TransitOK(windows, a, b, elapsed) ==
  SortedPair(a, b) \in DOMAIN windows =>
    /\ windows[SortedPair(a, b)].min <= elapsed
    /\ elapsed <= windows[SortedPair(a, b)].max

\* FusionResolver.resolve: face, then body anchor, then badge.
Resolve(face, body, ble, nobody) ==
  CASE face # nobody -> [person |-> face, via |-> "face"]
    [] face = nobody /\ body # nobody -> [person |-> body, via |-> "body"]
    [] face = nobody /\ body = nobody /\ ble # nobody -> [person |-> ble, via |-> "ble"]
    [] OTHER -> [person |-> nobody, via |-> "unknown"]

\* Does the ray from (x, y) to the right cross the edge from point a to point
\* b?  x < (bx - ax) * (y - ay) / (by - ay) + ax, where floating point puts the
\* right side off by the error e; here without the division.
Crosses(x, y, a, b, e) ==
  /\ (a[2] > y) # (b[2] > y)
  /\ IF b[2] > a[2]
     THEN (x - a[1]) * (b[2] - a[2]) < (b[1] - a[1]) * (y - a[2]) + e * (b[2] - a[2])
     ELSE (x - a[1]) * (b[2] - a[2]) > (b[1] - a[1]) * (y - a[2]) + e * (b[2] - a[2])

\* The error of an edge in the direction it is traversed in: the same operands
\* give the same result, the ends swapped may give another.
ErrorOf(error, a, b) == IF <<a, b>> \in DOMAIN error THEN error[<<a, b>>] ELSE 0

\* Mutant of InPolygon: the edge from the last point to the first is forgotten.
InPolygonOpen(x, y, polygon, error) ==
  Cardinality({i \in 2 .. Len(polygon) :
                 Crosses(x, y, polygon[i], polygon[i - 1],
                         ErrorOf(error, polygon[i], polygon[i - 1]))}) % 2 = 1

Before(i, n) == IF i = 1 THEN n ELSE i - 1

\* point_in_polygon: an odd number of crossings.
InPolygon(x, y, polygon, error) ==
  Cardinality({i \in 1 .. Len(polygon) :
                 LET j == Before(i, Len(polygon)) IN
                 Crosses(x, y, polygon[i], polygon[j],
                         ErrorOf(error, polygon[i], polygon[j]))}) % 2 = 1
=============================================================================
