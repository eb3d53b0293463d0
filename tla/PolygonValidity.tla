--------------------------- MODULE PolygonValidity ---------------------------
(***************************************************************************)
(* How the rings of a polygon, and of the parts of a multipolygon, may lie *)
(* together: the validator (Polygon::validate, MultiPolygon::validate,     *)
(* check_holes_valid with the cycle search on the graph of touching rings) *)
(* and the two gates that stand in for it, fast_path_check below and above *)
(* its vertex limit and the acceptance test of arrange's fix_polygon.      *)
(*                                                                         *)
(* Every ring is valid on its own, a simple closed curve with the right    *)
(* winding: module IntersectionGate has that part.  A polygon is a shell   *)
(* and the sequence of its holes.                                          *)
(***************************************************************************)
EXTENDS Segments, FiniteSets, SequencesExt

CONSTANTS Inputs    \* records [mode, parts]: an entry and a sequence of polygons

Rings == Seq(Points) \ {<<>>}

Polygons == [shell : Rings, holes : Seq(Rings)]

ASSUME InputsWellFormed == \A i \in Inputs :
  /\ i.mode \in {"validate", "gate", "giant", "arrange"}
  /\ i.parts \in Seq(Polygons) \ {<<>>}
  /\ i.mode # "validate" => Len(i.parts) = 1

VARIABLES
  mode, parts,
  pc,
  at,          \* the part being validated
  hole,        \* the hole of that part looked at next
  touchRoot,   \* per ring of the part: the search that reached it, or NoRoot
  root,        \* the ring the cycle search started from
  stack,       \* touches the search still has to follow
  errors

vars == <<mode, parts, pc, at, hole, touchRoot, root, stack, errors>>

NoRoot == 0

Part == parts[at]

(* The rings of a part, the shell first.                                   *)
RingsOf(p) == <<p.shell>> \o p.holes

(***************************************************************************)
(* Points and rings.                                                       *)
(***************************************************************************)
PointOnRing(p, ring) ==
  \E i \in DOMAIN ring :
    LET e == EdgeOf(ring, i) IN Orient(e.a, e.b, p) = 0 /\ ~Apart(Box(e), Box([a |-> p, b |-> p]))

PointInRingExclusive(p, ring) ==
  LET Up(e) == e.a[2] <= p[2] /\ e.b[2] > p[2] /\ Orient(e.a, e.b, p) > 0
      Down(e) == e.a[2] > p[2] /\ e.b[2] <= p[2] /\ Orient(e.a, e.b, p) < 0
      Count(Test(_)) == Cardinality({i \in DOMAIN ring : Test(EdgeOf(ring, i))})
  IN  ~PointOnRing(p, ring) /\ Count(Up) # Count(Down)

PointInRingInclusive(p, ring) == PointOnRing(p, ring) \/ PointInRingExclusive(p, ring)

RingBox(ring) ==
  LET X == {p[1] : p \in Range(ring)}
      Y == {p[2] : p \in Range(ring)}
  IN  [lx |-> Min(X), hx |-> Max(X), ly |-> Min(Y), hy |-> Max(Y)]

Covers(s, t) == s.lx <= t.lx /\ t.hx <= s.hx /\ s.ly <= t.ly /\ t.hy <= s.hy

RingsIntersect(r, s) == \E i \in DOMAIN r, j \in DOMAIN s : EdgesIntersect(EdgeOf(r, i), EdgeOf(s, j))

RingsCross(r, s) == \E i \in DOMAIN r, j \in DOMAIN s : ProperlyCross(EdgeOf(r, i), EdgeOf(s, j))

ShareCollinearEdge(r, s) == \E i \in DOMAIN r, j \in DOMAIN s : Overlap(EdgeOf(r, i), EdgeOf(s, j))

(* The distinct vertices of a hole that lie on the shell.                  *)
TouchVertices(h, shell) == {p \in Range(h) : PointOnRing(p, shell)}

DuplicateRings(p) ==
  \E i, j \in DOMAIN RingsOf(p) : i # j /\ RotatedDuplicate(RingsOf(p)[i], RingsOf(p)[j])

(***************************************************************************)
(* is_ring_nested: a ring that starts on the other one is judged by its    *)
(* next vertex, which lies in the angle between the sides of the other one *)
(* or outside it.                                                          *)
(***************************************************************************)
QuadrantAt(o, p) ==
  IF p[1] >= o[1] THEN IF p[2] >= o[2] THEN 0 ELSE 3
  ELSE IF p[2] >= o[2] THEN 1 ELSE 2

AngleGreater(o, p, q) ==
  \/ QuadrantAt(o, p) > QuadrantAt(o, q)
  \/ QuadrantAt(o, p) = QuadrantAt(o, q) /\ Orient(o, q, p) > 0

IsBetween(o, p, lo, hi) == AngleGreater(o, p, lo) /\ ~AngleGreater(o, p, hi)

IsInteriorSegment(o, a0, a1, b) ==
  IF AngleGreater(o, a0, a1) THEN ~IsBetween(o, b, a1, a0) ELSE IsBetween(o, b, a0, a1)

CounterClockwise(ring) ==
  FoldLeft(LAMBDA s, i : s + ring[i][1] * After(ring, i)[2] - After(ring, i)[1] * ring[i][2],
           0, [i \in DOMAIN ring |-> i]) > 0

(* The ends, other than p, of the sides that meet in p, or of the side p   *)
(* lies inside.                                                            *)
SidesAt(p, ring) ==
  LET n == Len(ring)
      On(i) == LET e == EdgeOf(ring, i) IN PointOnRing(p, <<e.a, e.b>>)
      i == CHOOSE i \in 1 .. n : On(i) /\ \A j \in 1 .. (i - 1) : ~On(j)
      vertex == ring[i] = p \/ After(ring, i) = p
      k == IF ring[i] = p THEN i ELSE (i % n) + 1
  IN  IF vertex THEN <<ring[IF k = 1 THEN n ELSE k - 1], After(ring, k)>>
      ELSE <<ring[i], After(ring, i)>>

IncidentSegmentInRing(p0, p1, ring) ==
  LET s == SidesAt(p0, ring)
  IN  IF CounterClockwise(ring) THEN IsInteriorSegment(p0, s[2], s[1], p1)
      ELSE IsInteriorSegment(p0, s[1], s[2], p1)

IsRingNested(test, target) ==
  IF PointOnRing(test[1], target) THEN IncidentSegmentInRing(test[1], test[2], target)
  ELSE PointInRingExclusive(test[1], target)

(***************************************************************************)
(* The gates.                                                              *)
(***************************************************************************)
HolesValid(p, inclusive) ==
  /\ \A k \in DOMAIN p.holes :
       IF inclusive THEN PointInRingInclusive(p.holes[k][1], p.shell)
       ELSE PointInRingExclusive(p.holes[k][1], p.shell)
  /\ \A j, k \in DOMAIN p.holes : j # k =>
       /\ ~PointInRingExclusive(p.holes[j][1], p.holes[k])
       /\ ~ShareCollinearEdge(p.holes[j], p.holes[k])

HolesContainedCheap(p) ==
  \A k \in DOMAIN p.holes :
    LET h == p.holes[k]
    IN  /\ Covers(RingBox(p.shell), RingBox(h))
        /\ Cardinality(TouchVertices(h, p.shell)) < 2
        /\ \E v \in Range(h) : PointInRingExclusive(v, p.shell)

(* A ring that starts where the one before it starts is taken for a part   *)
(* of that ring, which then touches itself.                                *)
CrossingFree(p) ==
  LET rings == RingsOf(p)
  IN  /\ \A i, j \in DOMAIN rings : i < j => ~RingsCross(rings[i], rings[j])
      /\ \A i \in 2 .. Len(rings) : rings[i][1] # rings[i - 1][1]

(* Above its vertex limit fast_path_check looks at each ring alone and at  *)
(* the first vertices of the holes; fix_polygon looks at the lines of all  *)
(* rings.                                                                  *)
GateRejects(p) ==
  CASE mode = "gate" -> DuplicateRings(p) \/ ~CrossingFree(p)
    [] mode = "giant" -> DuplicateRings(p) \/ ~HolesValid(p, TRUE)
    [] OTHER -> ~(CrossingFree(p) /\ HolesValid(p, FALSE) /\ HolesContainedCheap(p))

Init ==
  /\ \E i \in Inputs : mode = i.mode /\ parts = i.parts
  /\ pc = IF mode = "validate" THEN "part" ELSE "gate"
  /\ at = 1 /\ hole = 1 /\ touchRoot = <<>> /\ root = NoRoot /\ stack = {} /\ errors = {}

Go(to) == pc' = to /\ UNCHANGED <<mode, parts>>

(* Only the small gate goes on to check_holes_valid.                       *)
Gate ==
  /\ pc = "gate"
  /\ IF GateRejects(Part) THEN errors' = {"GateRejects"} /\ Go("done")
     ELSE UNCHANGED errors /\ Go(IF mode = "gate" /\ Part.holes # <<>> THEN "holes" ELSE "done")
  /\ UNCHANGED <<at, hole, touchRoot, root, stack>>

(***************************************************************************)
(* Polygon::validate of one part after another.                            *)
(***************************************************************************)
(* The part is finished, with an error or without.                         *)
FinishPart(e) ==
  /\ errors' = errors \cup e
  /\ at' = at + 1 /\ hole' = 1 /\ touchRoot' = <<>> /\ root' = NoRoot /\ stack' = {}
  /\ Go(IF mode # "validate" \/ (at = Len(parts) /\ at = 1) THEN "done"
        ELSE IF at = Len(parts) THEN "shells" ELSE "part")

Continue(to) == errors' = errors /\ at' = at /\ Go(to)

BeginPart ==
  /\ pc = "part"
  /\ IF Part.holes # <<>> /\ DuplicateRings(Part) THEN FinishPart({"DuplicatedRings"})
     ELSE IF Part.holes = <<>> THEN FinishPart({})
     ELSE Continue("holes") /\ UNCHANGED <<hole, touchRoot, root, stack>>

(* per_hole_check.                                                         *)
HoleError(h, shell) ==
  IF RingsIntersect(h, shell) THEN {"HoleOutsideShell"}
  ELSE IF Cardinality(TouchVertices(h, shell)) >= 2 THEN {"DisconnectedInterior"}
  ELSE IF \A v \in Range(h) : ~PointInRingExclusive(v, shell) THEN {"HoleOutsideShell"}
  ELSE {}

CheckHole ==
  /\ pc = "holes"
  /\ LET e == HoleError(Part.holes[hole], Part.shell)
     IN  IF e # {} THEN FinishPart(e)
         ELSE IF hole < Len(Part.holes)
         THEN hole' = hole + 1 /\ Continue("holes") /\ UNCHANGED <<touchRoot, root, stack>>
         ELSE IF hole = 1 THEN FinishPart({})
         ELSE Continue("pairs") /\ UNCHANGED <<hole, touchRoot, root, stack>>

CheckPairs ==
  /\ pc = "pairs"
  /\ LET hs == Part.holes
     IN  IF \E j, k \in DOMAIN hs : j < k /\ ~Apart(RingBox(hs[j]), RingBox(hs[k]))
                                          /\ RingsIntersect(hs[j], hs[k])
         THEN FinishPart({"DisconnectedInterior"})
         ELSE /\ touchRoot' = [r \in 1 .. Len(hs) + 1 |-> NoRoot]
              /\ Continue("cycle") /\ UNCHANGED <<hole, root, stack>>

(***************************************************************************)
(* detect_hole_cycle.  Rings touch where a vertex of one lies on the       *)
(* other; a second way into a search, at another point than the one the    *)
(* ring was entered by, closes a cycle, which cuts the interior in two.    *)
(* Touches of a ring are followed in any order.                            *)
(***************************************************************************)
(* Mutant: rings touch where they have a vertex in common.                 *)
TouchesAtVertices(r) ==
  LET rings == RingsOf(Part)
  IN  UNION {{[ring |-> s, point |-> p] : p \in Range(rings[r]) \cap Range(rings[s])} :
               s \in DOMAIN rings \ {r}}

Touches(r) ==
  LET rings == RingsOf(Part)
      Meet2(s) == {p \in Range(rings[r]) \cup Range(rings[s]) :
                     PointOnRing(p, rings[r]) /\ PointOnRing(p, rings[s])}
  IN  UNION {{[ring |-> s, point |-> p] : p \in Meet2(s)} : s \in DOMAIN rings \ {r}}

NextRoot ==
  /\ pc = "cycle" /\ stack = {}
  /\ LET free == {r \in DOMAIN touchRoot : touchRoot[r] = NoRoot}
         r == CHOOSE r \in free : \A s \in free : r <= s
     IN  IF free = {} THEN Continue("nested") /\ UNCHANGED <<touchRoot, root, stack>>
         ELSE /\ root' = r /\ touchRoot' = [touchRoot EXCEPT ![r] = r] /\ stack' = Touches(r)
              /\ Continue("cycle")
  /\ UNCHANGED hole

(* Mutant: the point a ring was entered by counts as a second way in.      *)
OnwardBack(t) == Touches(t.ring)

(* The ways on from a ring entered at a point.                             *)
Onward(t) == {u \in Touches(t.ring) : u.point # t.point}

FollowTouch ==
  /\ pc = "cycle"
  /\ \E t \in stack :
       IF \/ \E u \in Onward(t) : touchRoot[u.ring] = root
          \/ \E u, v \in Onward(t) : u # v /\ u.ring = v.ring /\ touchRoot[u.ring] = NoRoot
       THEN FinishPart({"DisconnectedInterior"})
       ELSE LET new == {u \in Onward(t) : touchRoot[u.ring] = NoRoot}
            IN  /\ touchRoot' = [r \in DOMAIN touchRoot |->
                                   IF \E u \in new : u.ring = r THEN root ELSE touchRoot[r]]
                /\ stack' = (stack \ {t}) \cup new
                /\ Continue("cycle") /\ UNCHANGED <<hole, root>>

(* Only a later hole is looked for in an earlier one.                      *)
CheckNested ==
  /\ pc = "nested"
  /\ LET hs == Part.holes
     IN  FinishPart(IF \E j, k \in DOMAIN hs : j < k /\ Covers(RingBox(hs[j]), RingBox(hs[k]))
                                                    /\ IsRingNested(hs[k], hs[j])
                    THEN {"NestedHoles"} ELSE {})

(***************************************************************************)
(* MultiPolygon::validate across its parts.                                *)
(***************************************************************************)
Finish(e) ==
  errors' = errors \cup e /\ Go("done") /\ UNCHANGED <<at, hole, touchRoot, root, stack>>

ShellDuplicates ==
  /\ pc = "shells"
  /\ IF \E i, j \in DOMAIN parts : i < j /\ RotatedDuplicate(parts[i].shell, parts[j].shell)
     THEN Finish({"DuplicatedRings"})
     ELSE Go("rings") /\ UNCHANGED <<at, hole, touchRoot, root, stack, errors>>

(* A vertex of another part's hole in the fill of this part.               *)
VertexInside(h, p) ==
  \E v \in Range(h) :
    /\ \A k \in DOMAIN p.holes : ~PointInRingExclusive(v, p.holes[k])
    /\ PointInRingExclusive(v, p.shell)

(* The hole h of one part against the ring r, the shell of part p.         *)
RingPairs ==
  /\ pc = "rings"
  /\ IF \E i, j \in DOMAIN parts : i # j /\
          \/ \E r \in Range(RingsOf(parts[i])), s \in Range(RingsOf(parts[j])) : RingsIntersect(r, s)
          \/ \E h \in Range(parts[i].holes) :
               /\ ~Apart(RingBox(h), RingBox(parts[j].shell))
               /\ VertexInside(h, parts[j])
     THEN Finish({"SelfIntersection"})
     ELSE Go("nestedshells") /\ UNCHANGED <<at, hole, touchRoot, root, stack, errors>>

(* ring_interior_probe: a point just inside the first side.  Scaled by 4,  *)
(* as the rings it is compared with, it is off every lattice line.         *)
Scaled(ring) == [i \in DOMAIN ring |-> <<8 * ring[i][1], 8 * ring[i][2]>>]

InteriorProbe(ring) ==
  LET e == EdgeOf(Scaled(ring), 1)
      Unit(n) == IF n > 0 THEN 1 ELSE IF n < 0 THEN -1 ELSE 0
      sign == IF CounterClockwise(ring) THEN 1 ELSE -1
  IN  <<(e.a[1] + e.b[1]) \div 2 - sign * Unit(e.b[2] - e.a[2]),
        (e.a[2] + e.b[2]) \div 2 + sign * Unit(e.b[1] - e.a[1])>>

InNoHole(probe, p) ==
  \A k \in DOMAIN p.holes : ~PointInRingExclusive(probe, Scaled(p.holes[k]))

(* Mutant: a part is looked for in the parts before it only.               *)
NestedInEarlier(i, j) ==
  /\ j < i /\ PointInRingExclusive(parts[i].shell[1], parts[j].shell)
  /\ InNoHole(InteriorProbe(parts[i].shell), parts[j])

NestedIn(i, j) ==
  /\ i # j /\ PointInRingExclusive(parts[i].shell[1], parts[j].shell)
  /\ InNoHole(InteriorProbe(parts[i].shell), parts[j])

NestedShells ==
  /\ pc = "nestedshells"
  /\ Finish(IF \E i, j \in DOMAIN parts : NestedIn(i, j) THEN {"NestedHoles"} ELSE {})

Next == \/ Gate \/ BeginPart \/ CheckHole \/ CheckPairs \/ NextRoot \/ FollowTouch \/ CheckNested
        \/ ShellDuplicates \/ RingPairs \/ NestedShells

Spec == Init /\ [][Next]_vars /\ WF_vars(Next)

(***************************************************************************)
(* What is valid.  Rings of the inputs have sides in the eight directions  *)
(* of the lattice, so both diagonals cut every cell of it in four pieces   *)
(* no ring passes through: [cell, side].                                   *)
(***************************************************************************)
Sides == {"e", "n", "w", "s"}

Plane == LET Grow(s, r) == Join(s, RingBox(r))
             box == FoldLeft(LAMBDA s, p : FoldLeft(Grow, s, RingsOf(p)), RingBox(parts[1].shell), parts)
         IN  ((box.lx .. box.hx - 1) \X (box.ly .. box.hy - 1)) \X Sides

Middle(piece) ==
  LET x == 8 * piece[1][1] + 4
      y == 8 * piece[1][2] + 4
  IN  CASE piece[2] = "e" -> <<x + 2, y + 1>> [] piece[2] = "n" -> <<x + 1, y + 2>>
        [] piece[2] = "w" -> <<x - 2, y + 1>> [] OTHER -> <<x + 1, y - 2>>

(* An odd number of sides to the right of the piece.                       *)
Pieces(ring) ==
  LET Right(e, m) == /\ (e.a[2] > m[2]) # (e.b[2] > m[2])
                     /\ IF e.b[2] > e.a[2] THEN Orient(e.a, e.b, m) > 0 ELSE Orient(e.a, e.b, m) < 0
      big == Scaled(ring)
  IN  {t \in Plane : Cardinality({i \in DOMAIN big : Right(EdgeOf(big, i), Middle(t))}) % 2 = 1}

Region(p) == Pieces(p.shell) \ UNION {Pieces(p.holes[k]) : k \in DOMAIN p.holes}

Neighbours(t) ==
  LET x == t[1][1]
      y == t[1][2]
  IN  CASE t[2] = "e" -> {<<t[1], "n">>, <<t[1], "s">>, <<<<x + 1, y>>, "w">>}
        [] t[2] = "w" -> {<<t[1], "n">>, <<t[1], "s">>, <<<<x - 1, y>>, "e">>}
        [] t[2] = "n" -> {<<t[1], "e">>, <<t[1], "w">>, <<<<x, y + 1>>, "s">>}
        [] OTHER -> {<<t[1], "e">>, <<t[1], "w">>, <<<<x, y - 1>>, "n">>}

Connected(region) ==
  LET Flood[s \in SUBSET region] ==
        LET more == s \cup (region \cap UNION {Neighbours(t) : t \in s})
        IN  IF more = s THEN s ELSE Flood[more]
  IN  region # {} /\ Flood[{CHOOSE t \in region : TRUE}] = region

HolesWithin(p) ==
  \A k \in DOMAIN p.holes : Pieces(p.holes[k]) \subseteq Pieces(p.shell)

HolesApart(p) ==
  \A j, k \in DOMAIN p.holes : j < k => Pieces(p.holes[j]) \cap Pieces(p.holes[k]) = {}

PointContact(r, s) == ~ShareCollinearEdge(r, s)

ValidPolygon(p) ==
  /\ HolesWithin(p) /\ HolesApart(p) /\ Connected(Region(p))
  /\ \A i, j \in DOMAIN RingsOf(p) : i < j => PointContact(RingsOf(p)[i], RingsOf(p)[j])

ValidParts ==
  /\ \A i \in DOMAIN parts : ValidPolygon(parts[i])
  /\ \A i, j \in DOMAIN parts : i < j =>
       /\ Region(parts[i]) \cap Region(parts[j]) = {}
       /\ \A r \in Range(RingsOf(parts[i])), s \in Range(RingsOf(parts[j])) : PointContact(r, s)

Accepted == pc = "done" /\ errors = {}

(* Rings of two parts meet in one vertex at most, and no shell starts      *)
(* there: rings that cross only in vertices of both, and shells that touch *)
(* the ring around them with their first vertex, are what the validator    *)
(* does not see.                                                           *)
BarelyTouching ==
  \A i, j \in DOMAIN parts : i # j =>
    \A r \in Range(RingsOf(parts[i])), s \in Range(RingsOf(parts[j])) :
      /\ ~PointOnRing(parts[i].shell[1], s)
      /\ Cardinality({v \in Range(r) \cup Range(s) : PointOnRing(v, r) /\ PointOnRing(v, s)}) < 2

(* Nothing that only the shell's vertices would show: holes have vertices  *)
(* wherever they touch the shell.                                          *)
ShellAloof(p) ==
  \A v \in Range(p.shell), k \in DOMAIN p.holes :
    PointOnRing(v, p.holes[k]) => v \in Range(p.holes[k])

OuterFirst(p) == \A j, k \in DOMAIN p.holes : j < k => ~(Pieces(p.holes[j]) \subseteq Pieces(p.holes[k]))

(* The validator, and the gate with it, accept valid polygons only: holes  *)
(* inside the shell, apart from each other, with a connected interior      *)
(* around them, however many of them touch and in whatever order.  Two     *)
(* things are left out: an outer hole listed after the one inside it, and  *)
(* a single hole that is only touched by vertices of the shell.  What      *)
(* fix_polygon returns unrepaired has at least its holes inside the shell. *)
AcceptedIsValid ==
  Accepted /\ Len(parts) = 1 =>
    /\ mode = "arrange" => HolesWithin(parts[1])
    /\ /\ mode \in {"validate", "gate"}
       /\ OuterFirst(parts[1])
       /\ Len(parts[1].holes) > 1 \/ ShellAloof(parts[1])
       => ValidPolygon(parts[1])

(* A valid polygon, or multipolygon, is found valid.                       *)
ValidAccepted == pc = "done" /\ mode = "validate" /\ ValidParts => errors = {}

(* Accepted parts share no area.                                           *)
PartsDisjoint ==
  Accepted /\ mode = "validate" /\ Len(parts) > 1 /\ BarelyTouching =>
    \A i, j \in DOMAIN parts : i < j => Region(parts[i]) \cap Region(parts[j]) = {}

(* Where a ring of the part meets another one.                             *)
Contacts ==
  LET rings == RingsOf(Part)
  IN  {c \in [ring : DOMAIN rings, point : UNION {Range(rings[r]) : r \in DOMAIN rings}] :
         /\ PointOnRing(c.point, rings[c.ring])
         /\ \E s \in DOMAIN rings \ {c.ring} : PointOnRing(c.point, rings[s])}

(* A way from ring to ring that does not end: every ring of it is met in   *)
(* two points at least, and every point of it lies on two rings at least.  *)
GoesRound(C) ==
  /\ C # {}
  /\ \A c \in C : /\ \E d \in C : d.ring = c.ring /\ d.point # c.point
                  /\ \E d \in C : d.point = c.point /\ d.ring # c.ring

(* When the cycle search lets a part pass, its rings touch like the        *)
(* branches of a tree, and the interior between them is in one piece.      *)
CyclesFound == pc = "nested" => \A C \in SUBSET Contacts : ~GoesRound(C)

(* The cycle search misses no way round and invents none.  It may look     *)
(* twice at rings that touch the one it started from, which are not marked *)
(* when they are put on the stack, and it passes over rings an earlier     *)
(* search has marked; touches are followed in any order.                   *)
CycleVerdict ==
  [][pc = "cycle" /\ pc' # "cycle" =>
       (pc' = "nested" <=> \A C \in SUBSET Contacts : ~GoesRound(C))]_vars

(* Violated: what is not valid is not found valid, "no false negatives     *)
(* against the oracle" (tests/geos_differential.rs).                       *)
NoFalseNegatives == Accepted /\ mode = "validate" => ValidParts

(* Violated: above the vertex limit, too, fast_path_check "accepts exactly *)
(* what the exit validator accepts".                                       *)
GiantIsValid == Accepted /\ mode = "giant" => ValidPolygon(parts[1])
=============================================================================
