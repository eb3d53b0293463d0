--------------------------- MODULE StructureRepair ---------------------------
(***************************************************************************)
(* The structure engine on one polygon (structure/mod.rs, symdiff.rs,      *)
(* fix_ring.rs, nesting.rs, classify.rs, subtract.rs): the MakeValid loop  *)
(* of the single pass, and the boolean pipeline that takes over when the   *)
(* polygon has too many edges for it or its answer is not valid.           *)
(*                                                                         *)
(* A polygon is a shell and a sequence of holes, rings of the grid that    *)
(* PlanarFaces defines; noding cuts linework at every lattice point.  The  *)
(* overlay engine is exact (symmetric difference, union) except for the    *)
(* difference, which may panic.                                            *)
(***************************************************************************)
EXTENDS PlanarFaces

CONSTANTS Polygons,     \* the polygons under repair
          MaxRounds     \* the iteration guard of the MakeValid loop

ASSUME RoundsAssumption == MaxRounds \in Nat \ {0}

(* Rings of lattice points with sides parallel to the axes.                *)
IsRing(ring) ==
  /\ ring \in Seq(Int \X Int) /\ ring # <<>>
  /\ \A i \in DOMAIN ring : \E d \in 1 .. 2 : ring[i][d] = After(ring, i)[d]

ASSUME PolygonsAssumption ==
  \A p \in Polygons : /\ IsRing(p.shell)
                      /\ p.holes \in Seq(Range(p.holes))
                      /\ \A k \in DOMAIN p.holes : IsRing(p.holes[k])

VARIABLES poly,        \* the polygon under repair
          big,         \* it has more edges than the single pass takes
          pc,          \* the stage
          remaining,   \* linework the MakeValid loop has left
          area,        \* region accumulated by the loop
          guard,       \* rounds begun
          shells,      \* repaired shells still to be processed
          holes,       \* repaired hole rings
          parts,       \* polygons to be merged
          exact,       \* FALSE once the difference has panicked
          result       \* region returned

vars == <<poly, big, pc, remaining, area, guard, shells, holes, parts, exact, result>>

Rings == <<poly.shell>> \o poly.holes

(* is_collinear_ring: such a ring adds no linework.                        *)
Straight(ring) == \/ \A i \in DOMAIN ring : ring[i][1] = ring[1][1]
                  \/ \A i \in DOMAIN ring : ring[i][2] = ring[1][2]

CutEdges == UNION {EdgesOf(Rings[k]) : k \in {k \in DOMAIN Rings : ~Straight(Rings[k])}}

Xor(a, b) == (a \ b) \cup (b \ a)

Init == /\ poly \in Polygons
        /\ big \in BOOLEAN
        /\ pc = "single"
        /\ remaining = {} /\ area = {} /\ guard = 0
        /\ shells = <<>> /\ holes = <<>> /\ parts = <<>>
        /\ exact = TRUE
        /\ result = {}

(***************************************************************************)
(* single_pass_fix: node all rings together, then BuildArea what is left,  *)
(* XOR it into the area and remove its boundary, until no face is left.    *)
(***************************************************************************)
Assemble == /\ pc = "single"
            /\ IF big \/ CutEdges = {}
               THEN pc' = "rings" /\ UNCHANGED remaining
               ELSE pc' = "loop" /\ remaining' = CutEdges
            /\ UNCHANGED <<poly, big, area, guard, shells, holes, parts, exact, result>>

BuildAreaRound ==
  /\ pc = "loop"
  /\ remaining # {}
  /\ guard < MaxRounds
  /\ \E kept \in {KeptFaces(remaining)} :
       /\ kept # {}
       /\ area' = Xor(area, AreaOf(kept))
       /\ remaining' = remaining \ Boundary(kept)
  /\ guard' = guard + 1
  /\ UNCHANGED <<poly, big, pc, shells, holes, parts, exact, result>>

LoopEnd == /\ pc = "loop"
           /\ remaining = {} \/ guard = MaxRounds \/ KeptFaces(remaining) = {}
           /\ pc' = IF area = {} THEN "rings" ELSE "gate"
           /\ UNCHANGED <<poly, big, remaining, area, guard, shells, holes, parts, exact, result>>

(* The validator accepts the overlay's polygons, or rejects them and the   *)
(* pipeline starts over from the rings.                                    *)
Gate == /\ pc = "gate"
        /\ \/ pc' = "done" /\ result' = area
           \/ pc' = "rings" /\ UNCHANGED result
        /\ UNCHANGED <<poly, big, remaining, area, guard, shells, holes, parts, exact>>

(***************************************************************************)
(* The boolean pipeline repairs ring by ring.                              *)
(***************************************************************************)
BoxOf(vs) == [xlo |-> Min({v[1] : v \in vs}), xhi |-> Max({v[1] : v \in vs}),
              ylo |-> Min({v[2] : v \in vs}), yhi |-> Max({v[2] : v \in vs})]

Box(ring) == BoxOf(Range(ring))

BoxWithin(a, b) == a.xlo >= b.xlo /\ a.xhi <= b.xhi /\ a.ylo >= b.ylo /\ a.yhi <= b.yhi

BoxesMeet(a, b) == a.xlo <= b.xhi /\ a.xhi >= b.xlo /\ a.ylo <= b.yhi /\ a.yhi >= b.ylo

(* A hole with a vertex strictly outside the shell sends the polygon to    *)
(* the triangulation, unless the pair of rings is too long to look at.     *)
CrossesShell(hole, shell) == /\ ~BoxWithin(Box(hole), Box(shell))
                             /\ \E v \in Range(hole) : ~VertexIn(v, EdgesOf(shell))

(* Sides i < j of a ring that do not follow each other.                    *)
ApartSides(ring) == {p \in (DOMAIN ring) \X (DOMAIN ring) :
                       p[1] + 1 < p[2] /\ ~(p[1] = 1 /\ p[2] = Len(ring))}

PointsOf(ring, i) == {ring[i]} \cup Vertices(Steps(ring[i], After(ring, i)))

Upright2(ring, i) == ring[i][1] = After(ring, i)[1]

(* edge_intersection: where two sides meet, inside one of them at least;   *)
(* parallel sides are left to the loop.                                    *)
Crossings(ring) ==
  {p \in ApartSides(ring) :
     /\ Upright2(ring, p[1]) # Upright2(ring, p[2])
     /\ \E v \in PointsOf(ring, p[1]) \cap PointsOf(ring, p[2]) :
          {v} # {ring[p[1]], After(ring, p[1])} \cap {ring[p[2]], After(ring, p[2])}}

(* has_self_intersections: a vertex twice, or two sides that meet.         *)
SelfMeets(ring) ==
  \/ ~IsInjective(ring)
  \/ \E p \in ApartSides(ring) : PointsOf(ring, p[1]) \cap PointsOf(ring, p[2]) # {}

(* basic_cleanup of a closed ring: no vertex follows itself.               *)
Cleaned(ring) ==
  LET at == Positions(ring, LAMBDA k : ring[k] # After(ring, k))
  IN  [k \in DOMAIN at |-> ring[at[k]]]

(* try_fast_fix: a ring with one crossing is two rings.                    *)
FastFix(ring) ==
  LET p == CHOOSE p \in Crossings(ring) : TRUE
      at == CHOOSE v \in PointsOf(ring, p[1]) \cap PointsOf(ring, p[2]) : TRUE
      inner == Append(SubSeq(ring, p[1] + 1, p[2]), at)
      outer == Append(SubSeq(ring, 1, p[1]), at) \o SubSeq(ring, p[2] + 1, Len(ring))
  IN  SelectSeq(<<Cleaned(inner), Cleaned(outer)>>, LAMBDA r : Len(r) >= 3)

(* fix_self_intersecting: the MakeValid loop on the ring alone.            *)
LoopArea(edges) ==
  LET Build[left \in SUBSET edges] ==
        LET Round(kept) == IF kept = {} THEN {} ELSE Xor(AreaOf(kept), Build[left \ Boundary(kept)])
        IN  Round(KeptFaces(left))
  IN  Build[edges]

PolygonSeq(cells) == SetToSeq(PolygonsOf(KeptFaces(Outline(cells))))

Bare(ring) == [shell |-> ring, holes |-> {}]

RepairRing(ring) ==
  LET Untangle(lobes) ==
        IF lobes # <<>> /\ \A k \in DOMAIN lobes : ~SelfMeets(lobes[k])
        THEN [k \in DOMAIN lobes |-> Bare(lobes[k])]
        ELSE PolygonSeq(LoopArea(EdgesOf(ring)))
  IN  IF Straight(ring) THEN <<>>
      ELSE IF ~SelfMeets(ring) THEN <<Bare(ring)>>
      ELSE Untangle(IF Cardinality(Crossings(ring)) = 1 THEN FastFix(ring) ELSE <<>>)

(* A hole that meets the shell's box is repaired like a shell, and loses   *)
(* what holes that gave it; a hole without repair stays.                   *)
RepairHole(hole, shell) ==
  LET ShellsOf(pieces) == [k \in DOMAIN pieces |-> pieces[k].shell]
      OrHole(pieces) == IF pieces = <<>> THEN <<hole>> ELSE ShellsOf(pieces)
  IN  IF BoxesMeet(Box(hole), Box(shell)) /\ SelfMeets(hole) THEN OrHole(RepairRing(hole)) ELSE <<hole>>

RepairRings ==
  /\ pc = "rings"
  /\ \E looked \in BOOLEAN, repaired \in {RepairRing(poly.shell)} :
       IF \/ looked /\ \E k \in DOMAIN poly.holes : CrossesShell(poly.holes[k], poly.shell)
          \/ repaired = <<>>
       THEN pc' = "arrange" /\ UNCHANGED <<shells, holes>>
       ELSE /\ pc' = "shells"
            /\ shells' = repaired
            /\ holes' = FlattenSeq([k \in DOMAIN poly.holes |-> RepairHole(poly.holes[k], poly.shell)])
  /\ UNCHANGED <<poly, big, remaining, area, guard, parts, exact, result>>

(***************************************************************************)
(* classify_holes: inside when a vertex is strictly inside the shell, or   *)
(* when all are on it, the rings differ and the mean of the vertices is.   *)
(***************************************************************************)
(* The mean as a doubled grid point, for rings whose mean is one.          *)
MeanInside(ring, shell) ==
  LET Total(i) == FoldSet(LAMBDA k, sum : sum + ring[k][i], 0, DOMAIN ring)
      Cell(x, y) == <<x \div (2 * Len(ring)), y \div (2 * Len(ring))>>
      Near == {Cell(2 * Total(1) + dx, 2 * Total(2) + dy) : dx, dy \in {-1, 1}}
  IN  Near \subseteq Inside(shell)

IsHoleOutside(hole, shell) ==
  LET edges == EdgesOf(shell)
  IN  /\ \A v \in Range(hole) : ~VertexInside(v, edges)
      /\ (\A v \in Range(hole) : VertexIn(v, edges)) /\ Range(hole) # Range(shell)
           => ~MeanInside(hole, shell)

(***************************************************************************)
(* resolve_nesting: the parent of a hole is the smallest hole around its   *)
(* first vertex.  Holes of odd depth are subtracted, those of even depth   *)
(* are islands, with their children as holes.                              *)
(***************************************************************************)
ParentsOf(inner, k) ==
  LET around == {j \in DOMAIN inner \ {k} : VertexInside(inner[k][1], EdgesOf(inner[j]))}
  IN  {j \in around : \A i \in around : \/ Cardinality(Inside(inner[j])) < Cardinality(Inside(inner[i]))
                                        \/ Cardinality(Inside(inner[j])) = Cardinality(Inside(inner[i])) /\ j <= i}

(* Depth from the outermost hole; a cycle of parents, which the walk from  *)
(* the roots never reaches, has depth 0.                                   *)
DepthOf(inner, k) ==
  LET Walk[j \in DOMAIN inner, d \in 1 .. Len(inner) + 1] ==
        IF d > Len(inner) THEN 0
        ELSE IF ParentsOf(inner, j) = {} THEN d
        ELSE Walk[CHOOSE i \in ParentsOf(inner, j) : TRUE, d + 1]
  IN  Walk[k, 1]

Subtracted(inner) == {k \in DOMAIN inner : DepthOf(inner, k) = 0 \/ DepthOf(inner, k) % 2 = 1}

(* Mutant: an island is given no hole of its own.                          *)
IslandsFilled(inner) ==
  LET deep == Positions(inner, LAMBDA k : k \notin Subtracted(inner))
  IN  [n \in DOMAIN deep |-> Bare(inner[deep[n]])]

Islands(inner) ==
  LET deep == Positions(inner, LAMBDA k : k \notin Subtracted(inner))
  IN  [n \in DOMAIN deep |->
         [shell |-> inner[deep[n]],
          holes |-> {inner[k] : k \in {k \in Subtracted(inner) : deep[n] \in ParentsOf(inner, k)}}]]

(***************************************************************************)
(* subtract_holes: the overlay's difference, and after a panic polygonize  *)
(* on the noded linework of the shell and the holes.  polygonize takes the *)
(* rings GEOS walks counter-clockwise, the outlines of the connected parts *)
(* of the linework, for shells, and its bounded faces, the largest one     *)
(* left out, for holes of the smallest shell around them.                  *)
(***************************************************************************)
HoleInShell(hole, shell) ==
  LET off == {k \in DOMAIN hole : hole[k][1] \notin Fingerprint(shell)}
  IN  off # {} /\ hole[Min(off)][1] \in FaceCells(shell)

Polygonize(edges) ==
  LET faces == Faces(edges)
      bounded == {f \in faces : IsShell(f)}
      Size(f) == Cardinality(FaceCells(f))
      largest == CHOOSE f \in bounded : \A g \in bounded : Size(g) <= Size(f)
      HolderOf(h) == {s \in faces \ bounded : HoleInShell(h, s)}
      holesOf == [s \in faces \ bounded |->
                    {h \in bounded \ {largest} :
                       s \in HolderOf(h) /\ \A t \in HolderOf(h) : Size(s) <= Size(t)}]
      Parents(s) == {t \in DOMAIN holesOf : \E h \in holesOf[t] : Fingerprint(h) = Fingerprint(s)}
      Count[s \in DOMAIN holesOf] ==
        IF Parents(s) = {} THEN 0 ELSE 1 + Count[CHOOSE t \in Parents(s) : TRUE]
  IN  UNION {FaceCells(s) \ UNION {FaceCells(h) : h \in holesOf[s]} :
               s \in {s \in DOMAIN holesOf : Count[s] % 2 = 0}}

RingLines(p) == EdgesOf(p.shell) \cup UNION {EdgesOf(h) : h \in p.holes}

ProcessShell ==
  /\ pc = "shells"
  /\ shells # <<>>
  /\ LET shell == Head(shells)
         inner == SelectSeq(holes, LAMBDA h : ~IsHoleOutside(h, shell.shell))
         outer == SelectSeq(holes, LAMBDA h : IsHoleOutside(h, shell.shell))
         cut == {inner[k] : k \in Subtracted(inner)}
         Around(h) == \A v \in Range(shell.shell) : VertexInside(v, EdgesOf(h))
         lone == [k \in DOMAIN outer |->
                    [shell |-> outer[k], holes |-> IF Around(outer[k]) THEN {shell.shell} ELSE {}]]
     IN  \E panic \in IF inner = <<>> THEN {FALSE} ELSE BOOLEAN :
           /\ exact' = (exact /\ ~panic)
           /\ parts' = parts \o (IF inner = <<>> THEN <<shell>>
                                 ELSE IF panic THEN PolygonSeq(Polygonize(RingLines(shell)
                                                      \cup UNION {EdgesOf(h) : h \in cut}))
                                 ELSE PolygonSeq(Region(shell) \ UNION {Inside(h) : h \in cut}))
                             \o Islands(inner) \o lone
  /\ shells' = Tail(shells)
  /\ UNCHANGED <<poly, big, pc, remaining, area, guard, holes, result>>

(***************************************************************************)
(* merge_shells, as module MergeShells has it: parts with the same ring    *)
(* cancel, parts inside an odd number of larger ones are holes of the      *)
(* smallest, the rest is united.                                           *)
(***************************************************************************)
SameRing(p, q) == Range(p.shell) = Range(q.shell)

Survivors == SelectSeq(parts, LAMBDA p :
  Cardinality({k \in DOMAIN parts : SameRing(parts[k], p)}) % 2 = 1)

RingFullyInside(ring, p) ==
  /\ \A v \in Range(ring) : /\ VertexInside(v, EdgesOf(p.shell))
                            /\ \A h \in p.holes : ~VertexInside(v, EdgesOf(h))
  /\ (\E h \in p.holes : Inside(ring) \subseteq Inside(h))
       => \E h \in p.holes : Range(h) = Range(ring)

Merged ==
  LET list == Survivors
      Larger(j, i) == Cardinality(Inside(list[j].shell)) > Cardinality(Inside(list[i].shell))
      holders == [i \in DOMAIN list |-> {j \in DOMAIN list : Larger(j, i) /\ RingFullyInside(list[i].shell, list[j])}]
      Even(i) == Cardinality(holders[i]) % 2 = 0
      Parent(j, i) == j \in holders[i] /\ \A k \in holders[i] \ {j} : Larger(k, j)
      Alone(i) == \A k \in DOMAIN list \ {i} : Even(k) => ~BoxesMeet(Box(list[i].shell), Box(list[k].shell))
      filled == {i \in DOMAIN list : Even(i)}
      Cut(i) == UNION {Inside(list[k].shell) : k \in {k \in DOMAIN list : ~Even(k) /\ Parent(i, k) /\ Alone(i)}}
  IN  UNION {Region(list[i]) \ Cut(i) : i \in filled}

Merge == /\ pc = "shells"
         /\ shells = <<>>
         /\ pc' = IF parts = <<>> THEN "unconsumed" ELSE "done"
         /\ result' = IF Len(parts) = 1 THEN Region(parts[1]) ELSE Merged
         /\ UNCHANGED <<poly, big, remaining, area, guard, shells, holes, parts, exact>>

Next == \/ Assemble \/ BuildAreaRound \/ LoopEnd \/ Gate
        \/ RepairRings \/ ProcessShell \/ Merge

Spec == Init /\ [][Next]_vars
(***************************************************************************)
(* What the engine promises.                                               *)
(***************************************************************************)

(* The cells an odd number of walls away from the unbounded face.          *)
OddLevels(edges) ==
  LET box == BoxOf(Vertices(edges))
      plane == (box.xlo - 1 .. box.xhi) \X (box.ylo - 1 .. box.yhi)
      Grow(s, walls) ==
        s \cup (plane \cap UNION {{Beside(c)[d] : d \in {d \in DOMAIN Beside(c) :
                                                         Sides(c)[d] \cap walls = {}}} : c \in s})
      Flood[s \in SUBSET plane] ==
        LET t == Grow(s, edges) IN IF t = s THEN s ELSE Flood[t]
      Odd[s \in SUBSET plane] ==
        LET out == Flood[Grow(s, {})]
            past == Flood[Grow(out, {})]
        IN  IF s = plane THEN {} ELSE (out \ s) \cup (IF out = plane THEN {} ELSE Odd[past])
  IN  IF edges = {} THEN {} ELSE Odd[Flood[{<<box.xlo - 1, box.ylo - 1>>}]]

(* "Even-odd by construction": when the loop ends, the area it has         *)
(* accumulated is the cells an odd number of cut edges away from the       *)
(* outside, however the faces nest and touch (make_valid_poly_symdiff).    *)
EvenOddLevels == pc = "gate" => area = OddLevels(CutEdges)

(* The loop ends because the linework left bounds no face, and never by    *)
(* its iteration guard or with faces it has not looked at.                 *)
NoFaceLeft == pc \in {"gate", "rings", "shells", "arrange", "done"} => Faces(remaining) = {}

(* No ring crosses itself or another one, runs along another one, or       *)
(* starts on another one.                                                  *)
Untangled ==
  /\ \A k \in DOMAIN Rings : ~SelfMeets(Rings[k])
  /\ \A i, j \in DOMAIN Rings : i # j =>
       /\ EdgesOf(Rings[i]) \cap EdgesOf(Rings[j]) = {}
       /\ Rings[i][1] \notin Vertices(EdgesOf(Rings[j]))
       /\ \/ Inside(Rings[i]) \cap Inside(Rings[j]) = {}
          \/ Inside(Rings[i]) \subseteq Inside(Rings[j])
          \/ Inside(Rings[j]) \subseteq Inside(Rings[i])

(* The size of the polygon decides who repairs it, not what comes out: the *)
(* ring by ring pipeline, its islands and its fallback after a panic give  *)
(* untangled rings the region the MakeValid loop gives them.               *)
SizeIndependent == pc = "done" /\ Untangled => result = OddLevels(CutEdges)

(* "repair always applies the EvenOdd rule": of a ring that crosses itself *)
(* what it winds around twice is cut out.                                  *)
CurlsCutOut == pc = "done" /\ poly.holes = <<>> => result = OddLevels(CutEdges)
=============================================================================
