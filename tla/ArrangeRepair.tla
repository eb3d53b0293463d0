---------------------------- MODULE ArrangeRepair ----------------------------
(***************************************************************************)
(* The triangulation engine on one polygon: arrange/mod.rs with prep.rs,   *)
(* cdt.rs, label.rs, extract.rs and assemble.rs, and drop_nested_components *)
(* that the ladder puts behind it.                                         *)
(*                                                                         *)
(* The polygons are those of PlanarFaces.  Its linework is noded at every  *)
(* lattice point, so the constraints are unit edges and the triangulation  *)
(* joins the cells of their box to faces: triangles without a constraint   *)
(* between them.  Constraints bound every face, and a label that is right  *)
(* for a face and its neighbours is right for its triangles, in whatever   *)
(* order they are met.                                                     *)
(*                                                                         *)
(* The test at the head of fix_polygon, which gives a valid polygon back   *)
(* as it is, is in PolygonValidity; what follows it is modelled for every  *)
(* polygon.                                                                *)
(***************************************************************************)
EXTENDS PlanarFaces

VARIABLES poly,       \* the polygon under repair
          stage,      \* where the engine is
          direct,     \* called by the structure engine, which takes what comes
          walls,      \* the constraints, as half-edges
          labels,     \* per face: "in", "out" or "unseen"
          loose,      \* holes not assigned yet
          comps,      \* the holes of every exterior ring
          answer      \* the region returned

vars == <<poly, stage, direct, walls, labels, loose, comps, answer>>

NoComps == [x \in {} |-> <<>>]

Idle == stage = "idle" /\ walls = {} /\ labels = NoComps /\ loose = {} /\ comps = NoComps /\ answer = {}

Init == Idle /\ direct \in BOOLEAN

(***************************************************************************)
(* prepare_lines: what occurs an odd number of times, once as whole sides  *)
(* and once more when the sides are cut where they meet.                   *)
(***************************************************************************)
(* The sides of a ring from their smaller end to their greater one.        *)
SidesOf(ring) ==
  LET Side(u, v) == IF u[1] < v[1] \/ (u[1] = v[1] /\ u[2] < v[2]) THEN <<u, v>> ELSE <<v, u>>
  IN  [i \in DOMAIN ring |-> Side(ring[i], After(ring, i))]

RingAt(r) == IF r = 0 THEN poly.shell ELSE poly.holes[r]

(* The sides of all rings, numbered by ring, the shell first, and place.   *)
Lines == [k \in UNION {{r} \X DOMAIN RingAt(r) : r \in 0 .. Len(poly.holes)} |->
            SidesOf(RingAt(k[1]))[k[2]]]

OddLines ==
  LET lines == Lines
  IN  {l \in Range(lines) : /\ l[1] # l[2]
                            /\ Cardinality({k \in DOMAIN lines : lines[k] = l}) % 2 = 1}

(* Mutant: pieces of sides that run along each other stay, both of them.   *)
ConstraintsTwice == UNION {Steps(l[1], l[2]) : l \in OddLines}

Constraints ==
  LET odd == OddLines
  IN  {e \in UNION {Steps(l[1], l[2]) : l \in odd} :
         Cardinality({l \in odd : e \in Steps(l[1], l[2])}) % 2 = 1}

Prepare ==
  /\ stage = "idle"
  /\ walls' = Constraints
  /\ stage' = IF walls' = {} THEN "difference" ELSE "triangulate"
  /\ UNCHANGED <<poly, direct, labels, loose, comps, answer>>

(***************************************************************************)
(* The triangulation and its faces.                                        *)
(***************************************************************************)
Hull == LET xs == {v[1] : v \in Vertices(walls)}
            ys == {v[2] : v \in Vertices(walls)}
        IN  (Min(xs) .. Max(xs) - 1) \X (Min(ys) .. Max(ys) - 1)

Open(c, d) == Sides(c)[d] \cap walls = {}

Past(c, hull) == {Beside(c)[d] : d \in {d \in DOMAIN Beside(c) : Open(c, d)}} \cap hull

(* A set of cells with all that no wall keeps from them.                   *)
Flood(hull) ==
  LET Fill[s \in SUBSET hull] ==
        LET t == s \cup UNION {Past(c, hull) : c \in s} IN IF t = s THEN s ELSE Fill[t]
  IN  Fill

FacesOf(hull) == {Flood(hull)[{c}] : c \in hull}

Triangulate ==
  /\ stage = "triangulate"
  /\ labels' = [f \in FacesOf(Hull) |-> "unseen"]
  /\ stage' = "label"
  /\ UNCHANGED <<poly, direct, walls, loose, comps, answer>>

(***************************************************************************)
(* label_faces: from the hull inwards, flipping at every constraint.       *)
(***************************************************************************)
Unseen == {f \in DOMAIN labels : labels[f] = "unseen"}

CellsAround(f) == UNION {Range(Beside(c)) : c \in f}

(* The sides of a face on the hull.                                        *)
HullSides(f) ==
  LET hull == UNION DOMAIN labels
  IN  UNION {{Sides(c)[d] : d \in {d \in DOMAIN Beside(c) : Beside(c)[d] \notin hull}} : c \in f}

SeeFromHull ==
  /\ stage = "label"
  /\ \E f \in Unseen : \E side \in HullSides(f) :
       labels' = [labels EXCEPT ![f] = IF side \subseteq walls THEN "in" ELSE "out"]
  /\ UNCHANGED <<poly, stage, direct, walls, loose, comps, answer>>

SeeNeighbour ==
  /\ stage = "label"
  /\ \A f \in Unseen : HullSides(f) = {}
  /\ \E f \in Unseen, g \in DOMAIN labels \ Unseen :
       /\ CellsAround(g) \cap f # {}
       /\ labels' = [labels EXCEPT ![f] = IF labels[g] = "in" THEN "out" ELSE "in"]
  /\ UNCHANGED <<poly, stage, direct, walls, loose, comps, answer>>

Interior == UNION {f \in DOMAIN labels : labels[f] = "in"}

(***************************************************************************)
(* trace_rings: half-edges with the interior on their left only, followed  *)
(* into the first one met on the left; a ring that passes a vertex twice   *)
(* falls apart there.  Rings are sequences of half-edges.                  *)
(***************************************************************************)
LeftCell(e) ==
  CASE Angle(e[1], e[2]) = 1 -> e[2]
    [] Angle(e[1], e[2]) = 2 -> e[1]
    [] Angle(e[1], e[2]) = 3 -> <<e[1][1] - 1, e[1][2]>>
    [] OTHER -> <<e[2][1], e[2][2] - 1>>

Rim(interior) ==
  {e \in Outline(interior) : LeftCell(e) \in interior}

TraceRings(rim) == Cycles([e \in rim |-> TurnCw(rim, e[2], e[1])])

SplitAtPinch(ring) ==
  LET Passed(r) == {i \in DOMAIN r : \E j \in 1 .. (i - 1) : r[j][1] = r[i][1]}
      Split[r \in Seq(Range(ring))] ==
        IF Len(r) < 3 THEN {}
        ELSE IF Passed(r) = {} THEN {r}
        ELSE LET i == Min(Passed(r))
                 j == CHOOSE j \in 1 .. (i - 1) : r[j][1] = r[i][1]
             IN  Split[SubSeq(r, j, i - 1)] \cup Split[SubSeq(r, 1, j - 1) \o SubSeq(r, i, Len(r))]
  IN  Split[ring]

(* fix_from_lines drops traced rings that cross themselves; rings of noded *)
(* linework do not (IntersectionGate has that test).                       *)
Trace ==
  /\ stage = "label" /\ Unseen = {}
  /\ LET rings == UNION {SplitAtPinch(r) : r \in TraceRings(Rim(Interior))}
         exteriors == {r \in rings : SignedArea(r) > 0}
     IN  /\ loose' = rings \ exteriors
         /\ comps' = [x \in exteriors |-> <<>>]
         /\ stage' = IF rings = {} THEN "difference" ELSE "assemble"
  /\ UNCHANGED <<poly, direct, walls, labels, answer>>

(***************************************************************************)
(* assemble_polygons: the first vertex of a hole that lies inside any      *)
(* exterior gives it to one of those it lies inside, whichever the index   *)
(* of boxes finds; rings start anywhere.  A hole inside none is filled.    *)
(***************************************************************************)
Corners(ring) == Range(RingOf(ring))

AssignHole ==
  /\ stage = "assemble"
  /\ \E h \in loose :
       LET around == {x \in DOMAIN comps : \E v \in Corners(h) : VertexInside(v, Both(x))}
       IN  /\ IF around = {} THEN comps' = comps @@ (Reverse(h) :> <<>>)
              ELSE \E x \in around : comps' = [comps EXCEPT ![x] = Append(@, h)]
           /\ loose' = loose \ {h}
  /\ UNCHANGED <<poly, stage, direct, walls, labels, answer>>

(***************************************************************************)
(* What the validator can have against rings that do not cross: a hole     *)
(* inside an earlier one, another part's hole in the fill, a shell in the  *)
(* fill of another part.                                                   *)
(***************************************************************************)
Within(r, s) == FaceCells(r) \subseteq FaceCells(s)

InFill(v, x) == /\ VertexInside(v, Both(x))
                /\ \A h \in Range(comps[x]) : ~VertexInside(v, Both(h))

ShellInFill(x, y) == /\ LeftCell(x[1]) \in FaceCells(y)
                     /\ \A h \in Range(comps[y]) : LeftCell(x[1]) \notin FaceCells(h)

(* Mutant: the parts are looked at one by one.                             *)
LooksValidAlone(ps) ==
  \A x \in ps : \A i, j \in DOMAIN comps[x] : i < j => ~Within(comps[x][j], comps[x][i])

LooksValid(ps) ==
  /\ \A x \in ps : \A i, j \in DOMAIN comps[x] : i < j => ~Within(comps[x][j], comps[x][i])
  /\ \A x, y \in ps : x # y =>
       /\ ~ShellInFill(x, y)
       /\ \A h \in Range(comps[x]) : \A v \in Vertices(Both(h)) : ~InFill(v, y)

FillOf(x) == FaceCells(x) \ UNION {FaceCells(h) : h \in Range(comps[x])}

(* drop_nested_components, from the largest part to the smallest.          *)
Kept ==
  LET bySize == SetToSortSeq(DOMAIN comps, LAMBDA x, y : SignedArea(x) > SignedArea(y))
      Drop(gone, x) == IF \E y \in DOMAIN comps \ (gone \cup {x}) : ShellInFill(x, y)
                       THEN gone \cup {x} ELSE gone
  IN  DOMAIN comps \ FoldLeft(Drop, {}, bySize)

Answer(cells) == stage' = "done" /\ answer' = cells

(* polygonizer_fallback on the rings of the parts.                         *)
Rebuilt(ps) == AreaOf(KeptFaces(UNION {Both(x) \cup UNION {Both(h) : h \in Range(comps[x])} : x \in ps}))

(* The structure engine's answer is checked as it is, and arrange_chain    *)
(* starts over when it is not valid; arrange_chain drops nested parts.     *)
Judge ==
  /\ stage = "assemble" /\ loose = {}
  /\ LET ps == IF direct THEN DOMAIN comps ELSE Kept
     IN  IF LooksValid(ps)
         THEN Answer(UNION {FillOf(x) : x \in ps}) /\ UNCHANGED <<direct, walls, labels, comps>>
         ELSE IF direct
         THEN /\ stage' = "idle" /\ direct' = FALSE /\ walls' = {}
              /\ labels' = NoComps /\ comps' = NoComps /\ UNCHANGED answer
         ELSE IF Cardinality(ps) > 1
         THEN Answer(Rebuilt(ps)) /\ UNCHANGED <<direct, walls, labels, comps>>
         ELSE stage' = "reduce" /\ UNCHANGED <<direct, walls, labels, comps, answer>>
  /\ UNCHANGED <<poly, loose>>

(* The cells with an odd number of sides on their right.                   *)
OddCells(lines) ==
  LET upright == {k \in DOMAIN lines : lines[k][1][1] = lines[k][2][1]}
      Spans(k, c) == LET l == lines[k] IN l[1][1] > c[1] /\ l[1][2] <= c[2] /\ c[2] < l[2][2]
      xs == {lines[k][1][1] : k \in upright}
      ys == UNION {{lines[k][1][2], lines[k][2][2]} : k \in upright}
  IN  {c \in (Min(xs) .. Max(xs)) \X (Min(ys) .. Max(ys)) :
         Cardinality({k \in upright : Spans(k, c)}) % 2 = 1}

(* fallback_polygon_fix without a ring: the shell less its holes, or       *)
(* nothing when the overlay panics.                                        *)
Difference ==
  /\ stage = "difference"
  /\ LET holes == UNION {OddCells(SidesOf(poly.holes[k])) : k \in DOMAIN poly.holes}
     IN  \/ poly.holes # <<>> /\ Answer(OddCells(SidesOf(poly.shell)) \ holes)
         \/ Answer({})
  /\ UNCHANGED <<poly, direct, walls, labels, loose, comps>>

Next == Prepare \/ Triangulate \/ SeeFromHull \/ SeeNeighbour \/ Trace \/ AssignHole \/ Judge \/ Difference

Spec == Init /\ [][Next]_vars

(***************************************************************************)
(* What the engine promises.                                               *)
(***************************************************************************)
(* Faces are labelled as the crossings of a ray count, whatever order the  *)
(* triangulation is walked in: sides that cancel leave no constraint       *)
(* behind, whole or in part.                                               *)
LabelsAlternate ==
  LET odd == OddCells(Lines)
  IN  stage = "label" => \A f \in DOMAIN labels : /\ labels[f] = "in" => f \subseteq odd
                                                /\ labels[f] = "out" => f \cap odd = {}

(* The answer is the even-odd region of the polygon's rings, whichever     *)
(* exterior a hole was given to and in whatever order: what an assembly    *)
(* has got wrong the validator sees, and the lines are assembled again.    *)
ArrangedEvenOdd == stage # "reduce" /\ (stage = "done" => answer = OddCells(Lines))
=============================================================================
