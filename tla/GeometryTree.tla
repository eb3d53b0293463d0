---------------------------- MODULE GeometryTree ----------------------------
(***************************************************************************)
(* Geometries as trees, the way the readers build them and the writers     *)
(* walk them.  A coordinate (its x and y) is a natural number, or NaN in   *)
(* an empty point; the ordinates beyond x and y stand beside the tree in   *)
(* one flat sequence, in the order of the coordinates.                     *)
(***************************************************************************)
EXTENDS Integers, SequencesExt

NaN == -1
Inf == -2

Finite(c) == c >= 0

Node(kind, pts, parts) == [kind |-> kind, pts |-> pts, parts |-> parts]

Point(c) == Node("Point", <<c>>, <<>>)
Line(pts) == Node("LineString", pts, <<>>)
Polygon(rings) == Node("Polygon", <<>>, [k \in DOMAIN rings |-> Line(rings[k])])
Collection(parts) == Node("GeometryCollection", <<>>, parts)

Empty == Collection(<<>>)
EmptyPoint == Point(NaN)
EmptyPolygon == Polygon(<<<<>>>>)

Multis == {"MultiPoint", "MultiLineString", "MultiPolygon"}

PartKind == [MultiPoint |-> "Point", MultiLineString |-> "LineString", MultiPolygon |-> "Polygon"]

(* Dims: which ordinates follow x and y, and how many of them.             *)
AllDims == [z : BOOLEAN, m : BOOLEAN]
XY == [z |-> FALSE, m |-> FALSE]
Extras(dims) == (IF dims.z THEN 1 ELSE 0) + (IF dims.m THEN 1 ELSE 0)

(* What comes before and after conversion: a geometry with its dimensions, *)
(* its extra ordinates and its SRID (0 for none).                          *)
Payload(g, dims, extra, srid) == [geom |-> g, dims |-> dims, extra |-> extra, srid |-> srid]

RECURSIVE CoordsOf(_)
CoordsOf(g) == g.pts \o FlattenSeq([k \in DOMAIN g.parts |-> CoordsOf(g.parts[k])])

RECURSIVE Nodes(_)
Nodes(g) == {g} \cup UNION {Nodes(g.parts[k]) : k \in DOMAIN g.parts}

(* How many geometries of the given kinds lie around the deepest part.     *)
RECURSIVE Height(_, _)
Height(g, kinds) ==
  IF g.kind \notin kinds \/ g.parts = <<>> THEN 0
  ELSE 1 + Max({Height(g.parts[k], kinds) : k \in DOMAIN g.parts})

(* The leaves of nested collections, from left to right.                   *)
RECURSIVE Leaves(_)
Leaves(g) == IF g.kind = "GeometryCollection"
             THEN FlattenSeq([k \in DOMAIN g.parts |-> Leaves(g.parts[k])])
             ELSE <<g>>

(* The ways to pick one element of every set of a sequence.                *)
Picks(sets) == {f \in [DOMAIN sets -> UNION Range(sets)] : \A k \in DOMAIN sets : f[k] \in sets[k]}
=============================================================================
