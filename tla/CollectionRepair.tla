-------------------------- MODULE CollectionRepair --------------------------
(***************************************************************************)
(* Repair of points, lines and collections (make_valid/mod.rs), and what   *)
(* the validator asks of the nesting of a collection                       *)
(* (validation/complex.rs).  Where a leaf is decided by geometry (noding   *)
(* of a line, polygon repair) its answer is any the code can give.         *)
(***************************************************************************)
EXTENDS GeometryTree

CONSTANT MaxCollection    \* MAX_COLLECTION_DEPTH

(* Point, MultiPoint, Line.                                                *)
RepairPoint(c) == Point(IF Finite(c) THEN c ELSE NaN)

Distinct(parts) == SelectSeq(parts, LAMBDA p : p.pts[1] # Inf)

FirstOf(seq) == LET at == SelectSeq([k \in DOMAIN seq |-> k],
                                    LAMBDA k : \A j \in 1 .. (k - 1) : seq[j] # seq[k])
                IN  [k \in DOMAIN at |-> seq[at[k]]]

RepairMultiPoint(g) ==
  LET points == FirstOf(Distinct(g.parts))
  IN  IF points = <<>> THEN Empty ELSE Node("MultiPoint", <<>>, points)

RepairSegment(g) ==
  IF Finite(g.pts[1]) /\ Finite(g.pts[2]) /\ g.pts[1] # g.pts[2] THEN g ELSE Empty

(* LineString: coordinates that are not finite go, then repeated ones; one *)
(* left is a point, three or more may be noded into runs.                  *)
Deduped(pts) ==
  LET finite == SelectSeq(pts, Finite)
      at == SelectSeq([k \in DOMAIN finite |-> k], LAMBDA k : k = 1 \/ finite[k] # finite[k - 1])
  IN  [k \in DOMAIN at |-> finite[at[k]]]

LineAnswers(pts) ==
  LET kept == Deduped(pts)
      n == Len(kept)
      Runs(k) == Node("MultiLineString", <<>>, <<Line(SubSeq(kept, 1, k)), Line(SubSeq(kept, k, n))>>)
  IN  IF n = 0 THEN {Empty}
      ELSE IF n = 1 THEN {Point(kept[1])}
      ELSE {Line(kept)} \cup (IF n = 2 THEN {} ELSE {Empty} \cup {Runs(k) : k \in 2 .. (n - 1)})

(* MultiLineString: points and lines of the members; lines that meet an    *)
(* earlier one go (keep_conflicting_runs keeps the first).                 *)
Mixture(points, lines) ==
  LET dots == IF Len(points) = 1 THEN points[1] ELSE Node("MultiPoint", <<>>, points)
  IN  IF points = <<>> /\ lines = <<>> THEN Empty
      ELSE IF lines = <<>> THEN dots
      ELSE IF points # <<>> THEN Collection(Append(lines, dots))
      ELSE IF Len(lines) = 1 THEN lines[1]
      ELSE Node("MultiLineString", <<>>, lines)

MultiLineAnswers(g) ==
  LET answers == [k \in DOMAIN g.parts |-> LineAnswers(g.parts[k].pts)]
      LinesOf(a) == IF a.kind = "LineString" THEN <<a>>
                    ELSE IF a.kind = "MultiLineString" THEN a.parts ELSE <<>>
      Points(f) == SelectSeq([k \in DOMAIN g.parts |-> f[k]], LAMBDA a : a.kind = "Point")
      Lines(f) == FlattenSeq([k \in DOMAIN g.parts |-> LinesOf(f[k])])
      First(s) == SubSeq(s, 1, Min({1, Len(s)}))
  IN  UNION {{Mixture(Points(f), Lines(f)), Mixture(Points(f), First(Lines(f)))} : f \in Picks(answers)}

(* Areal geometries, by the repair contract: a polygon with area may come  *)
(* back as it is or with a boundary line, and one without is nothing.      *)
HasArea(g) == \A k \in DOMAIN g.parts : Len(g.parts[k].pts) > 3 /\ \A c \in Range(g.parts[k].pts) : Finite(c)

PolygonAnswers(g) ==
  {Empty} \cup IF HasArea(g) THEN {g, Collection(<<g, Line(SubSeq(g.parts[1].pts, 1, 2))>>)} ELSE {}

MultiPolygonAnswers(g) ==
  LET sound == SelectSeq(g.parts, HasArea)
  IN  {Empty} \cup IF sound = <<>> THEN {} ELSE {Node("MultiPolygon", <<>>, sound)}

(* push_repaired_member: empty members go, and collections too deep for    *)
(* the validator are dissolved into the one around them.                   *)
(* Mutant: a collection one level too deep stays.                          *)
TooDeepOff(depth) == depth > MaxCollection + 1

TooDeep(depth) == depth > MaxCollection

RECURSIVE Push(_, _, _)
Push(out, member, depth) ==
  LET into(start) == FoldLeft(LAMBDA acc, g : Push(acc, g, depth + 1), start, member.parts)
  IN  IF member.kind # "GeometryCollection" THEN Append(out, member)
      ELSE IF member.parts = <<>> THEN out
      ELSE IF TooDeep(depth) THEN into(out)
      ELSE Append(out, Collection(into(<<>>)))

RECURSIVE Repairs(_)

(* All ways to answer the members of a collection.                         *)
MemberAnswers(g) == Picks([k \in DOMAIN g.parts |-> Repairs(g.parts[k])])

RepairCollection(g, f) == Collection(FoldLeft(LAMBDA out, k : Push(out, f[k], 1), <<>>,
                                              [k \in DOMAIN g.parts |-> k]))

(* Geometry::make_valid_with_config: the answers a geometry can get.       *)
Repairs(g) ==
  CASE g.kind = "Point" -> {RepairPoint(g.pts[1])}
    [] g.kind = "MultiPoint" -> {RepairMultiPoint(g)}
    [] g.kind = "Line" -> {RepairSegment(g)}
    [] g.kind = "LineString" -> LineAnswers(g.pts)
    [] g.kind = "MultiLineString" -> MultiLineAnswers(g)
    [] g.kind = "Polygon" -> PolygonAnswers(g)
    [] g.kind = "MultiPolygon" -> MultiPolygonAnswers(g)
    [] g.kind = "Rect" -> {Empty, g}
    [] g.kind = "Triangle" -> {Empty, Polygon(<<Append(g.pts, g.pts[1])>>)}
    [] OTHER -> {RepairCollection(g, f) : f \in MemberAnswers(g)}

(* validate_at_depth: no collection lies deeper than the limit.            *)
RECURSIVE NestingValid(_, _)
NestingValid(g, depth) ==
  g.kind = "GeometryCollection" =>
    depth <= MaxCollection /\ \A k \in DOMAIN g.parts : NestingValid(g.parts[k], depth + 1)

(* What the members of nested collections may become, from left to right.  *)
LeafAnswers(g) ==
  LET answers == [k \in DOMAIN Leaves(g) |-> Repairs(Leaves(g)[k])]
  IN  {FlattenSeq([k \in DOMAIN f |-> Leaves(f[k])]) : f \in Picks(answers)}
=============================================================================
