-------------------------- MODULE IntersectionGate --------------------------
(***************************************************************************)
(* Two ways to ask whether rings cross or touch themselves: the gate that  *)
(* lets a polygon pass unrepaired, and the validator's ring check.  Each   *)
(* picks one of several searches by the size and shape of its input: the   *)
(* gate all pairs, an edge sweep, a grid of monotone chains or a tree of   *)
(* them; the validator all pairs, a sweep, a grid of segments or a tree.   *)
(*                                                                         *)
(* A ring is the sequence of its vertices, the closing one left out.  The  *)
(* thresholds are in "tuning": the caller sets some of them and the source *)
(* fixes the others at sizes (32 lines, 128 chains, 64 in a cell) that a   *)
(* small instance scales down.                                             *)
(***************************************************************************)
EXTENDS Segments, FiniteSets, SequencesExt

CONSTANTS
  Inputs,    \* sequences of rings, the shell first
  Tunings    \* [gate, fused, small, pinch, spiky, cell, dense, run]

ASSUME InputsAreRings == Inputs \subseteq Seq(Seq(Points) \ {<<>>}) \ {<<>>}

VARIABLES
  rings, tuning,
  lines,     \* the lines of all the rings
  pc,
  search,    \* the search the gate is in, or ended in
  chains,    \* closed monotone chains
  open,      \* the chain being built, <<>> before the first line
  at,        \* lines taken by the walk or by a sweep
  active,    \* lines whose x range the sweep is still in
  todo,      \* chains the tree search has not looked at
  clean,     \* the gate's verdict
  errors     \* the validator's

vars == <<rings, lines, tuning, pc, search, chains, open, at, active, todo, clean, errors>>

(* The lines of all rings, in order; "starts" marks a ring's first.        *)
LinesOf(rs) == FoldLeft(LAMBDA ls, r :
  ls \o [i \in DOMAIN r |-> [a |-> r[i], b |-> After(r, i), starts |-> i = 1]], <<>>, rs)

Quadrant(l) ==
  LET x == l.b[1] - l.a[1]
      y == l.b[2] - l.a[2]
  IN  CASE x > 0 -> IF y >= 0 THEN 0 ELSE 1
        [] x < 0 -> IF y > 0 THEN 3 ELSE 2
        [] OTHER -> IF y > 0 THEN 0 ELSE 2

(* begin_ring tells the fused builder where a ring starts; the plain one   *)
(* takes a line that does not start where the one before ends.             *)
RingStarts(k) == k > 1 /\ IF tuning.fused THEN lines[k].starts ELSE lines[k].a # lines[k - 1].b

RingNumber(k) == Cardinality({j \in 2 .. k : lines[j].a # lines[j - 1].b})

(* The box around all the lines.                                           *)
Whole == LET boxes == {Box(l) : l \in Range(lines)}
         IN  [lx |-> Min({s.lx : s \in boxes}), hx |-> Max({s.hx : s \in boxes}),
              ly |-> Min({s.ly : s \in boxes}), hy |-> Max({s.hy : s \in boxes})]

Init ==
  /\ rings \in Inputs /\ tuning \in Tunings /\ lines = LinesOf(rings)
  /\ tuning.gate \/ Len(rings) = 1
  /\ pc = IF tuning.gate THEN "scan" ELSE "ring"
  /\ search = "none" /\ chains = <<>> /\ open = <<>> /\ at = 0 /\ active = {} /\ todo = {}
  /\ clean = TRUE /\ errors = {}

Verdict(v) == clean' = v /\ pc' = "done" /\ UNCHANGED <<rings, lines, tuning, at, active, todo, errors>>

(***************************************************************************)
(* The gate.                                                               *)
(***************************************************************************)
FirstPinchDup(ring) == \E i, j \in DOMAIN ring : j > i + 1 /\ ring[i] = ring[j]

(* coords has the closing vertex too: at least four of them.               *)
Plausible(ring) ==
  /\ Len(ring) >= 3
  /\ \A i \in DOMAIN ring : ring[i] # After(ring, i)
  /\ Len(ring) <= tuning.pinch => ~FirstPinchDup(ring)

(* What fast_path_check asks before it looks at intersections; the callers *)
(* that have lines only skip it.                                           *)
Implausible ==
  \/ \E r \in Range(rings) : ~Plausible(r)
  \/ Whole.lx = Whole.hx \/ Whole.ly = Whole.hy
  \/ \E i, j \in DOMAIN rings : i # j /\ RotatedDuplicate(rings[i], rings[j])

Scan ==
  /\ pc = "scan"
  /\ IF tuning.fused /\ Implausible
     THEN Verdict(FALSE)
     ELSE pc' = "walk" /\ UNCHANGED <<rings, lines, tuning, at, active, todo, clean, errors>>
  /\ UNCHANGED <<search, chains, open>>

(* A chain ends before a line of another quadrant or ring, and its box     *)
(* takes that line in as well.                                             *)
TakeLine(k) ==
  LET l == lines[k]
      Chain(ring) == [from |-> k, to |-> k, quad |-> Quadrant(l), box |-> Box(l), ring |-> ring]
      grown == [open EXCEPT !.box = Join(@, Box(l))]
  IN  IF k = 1 THEN [closed |-> <<>>, open |-> Chain(0)]
      ELSE IF RingStarts(k) THEN [closed |-> Append(chains, grown), open |-> Chain(open.ring + 1)]
      ELSE IF Quadrant(l) # open.quad
      THEN [closed |-> Append(chains, grown), open |-> Chain(open.ring)]
      ELSE [closed |-> chains, open |-> [grown EXCEPT !.to = k]]

PushLine ==
  /\ pc = "walk" /\ at < Len(lines)
  /\ at' = at + 1
  /\ chains' = TakeLine(at').closed /\ open' = TakeLine(at').open
  /\ UNCHANGED <<rings, lines, tuning, pc, search, active, todo, clean, errors>>

IsSpiky(cs) ==
  /\ Len(cs) >= tuning.spiky
  /\ 5 * Cardinality({c \in DOMAIN cs : cs[c].from = cs[c].to}) >= 4 * Len(cs)

(* The last chain closes without a further line, and the search is chosen. *)
Finish ==
  /\ pc = "walk" /\ at = Len(lines)
  /\ chains' = Append(chains, open)
  /\ search' = IF Len(lines) <= tuning.small THEN "pairs"
               ELSE IF IsSpiky(chains') THEN "sweep" ELSE "grid"
  /\ pc' = search'
  /\ at' = 0
  /\ UNCHANGED <<rings, lines, tuning, open, active, todo, clean, errors>>

SharesRepeatedVertex(l, m) == l.a = m.a \/ l.b = m.b \/ l.b = m.a

(* One pair of lines, in the order a search meets them.                    *)
PairIntersects(i, j, same) ==
  LET l == lines[i]
      m == lines[j]
  IN  /\ i # j
      /\ ~(same /\ (j = i + 1 \/ i = j + 1))
      /\ \/ ProperlyCross(l, m)
         \/ same /\ \/ LeanPairIntersects(l, m)
                    \/ Ambiguous(l, m) /\ SharesRepeatedVertex(l, m)

SmallClean ==
  \A i, j \in DOMAIN lines :
    i < j => ~PairIntersects(i, j, RingNumber(i) = RingNumber(j))

Pairs == pc = "pairs" /\ Verdict(SmallClean) /\ UNCHANGED <<search, chains, open>>

(* The lines in the order of their left ends, first come first.            *)
Earlier(k) ==
  LET Left(i) == Box(lines[i]).lx
  IN  {i \in DOMAIN lines : Left(i) < Left(k) \/ (Left(i) = Left(k) /\ i < k)}

Order == [n \in DOMAIN lines |-> CHOOSE k \in DOMAIN lines : Cardinality(Earlier(k)) = n - 1]

Retained(j) == {p \in active : Box(lines[p]).hx >= Box(lines[j]).lx}

EdgeSweep ==
  /\ pc = "sweep" /\ at < Len(lines)
  /\ LET j == Order[at + 1]
         Hit(i) == ~Apart(Box(lines[i]), Box(lines[j]))
                     /\ PairIntersects(i, j, RingNumber(i) = RingNumber(j))
     IN  IF Cardinality(active) > tuning.dense
         THEN /\ pc' = "grid" /\ search' = "grid"
              /\ UNCHANGED <<rings, lines, tuning, at, active, todo, clean, errors>>
         ELSE IF \E i \in Retained(j) : Hit(i) THEN Verdict(FALSE) /\ UNCHANGED search
         ELSE /\ active' = Retained(j) \cup {j} /\ at' = at + 1
              /\ UNCHANGED <<rings, lines, tuning, pc, search, todo, clean, errors>>
  /\ UNCHANGED <<chains, open>>

EdgeSweepEnds ==
  pc = "sweep" /\ at = Len(lines) /\ Verdict(TRUE) /\ UNCHANGED <<search, chains, open>>

(* Mutant: the corners of a falling part swapped.                          *)
SubBoxRising(c, from, to) ==
  LET p == lines[from].a
      q == lines[to].b
  IN  [lx |-> IF c.quad \in {0, 1} THEN p[1] ELSE q[1],
       hx |-> IF c.quad \in {0, 1} THEN q[1] ELSE p[1],
       ly |-> IF c.quad \in {0, 1} THEN p[2] ELSE q[2],
       hy |-> IF c.quad \in {0, 1} THEN q[2] ELSE p[2]]

(* The box of part of a chain is read off its two ends.                    *)
SubBox(c, from, to) ==
  LET p == lines[from].a
      q == lines[to].b
  IN  [lx |-> IF c.quad \in {0, 1} THEN p[1] ELSE q[1],
       hx |-> IF c.quad \in {0, 1} THEN q[1] ELSE p[1],
       ly |-> IF c.quad \in {0, 3} THEN p[2] ELSE q[2],
       hy |-> IF c.quad \in {0, 3} THEN q[2] ELSE p[2]]

(* The parts of a chain: runs of its lines.                                *)
Parts(c) == {p \in (c.from .. c.to) \X (c.from .. c.to) : p[1] <= p[2]}

(* rec_overlaps: halve the longer part while the boxes meet.               *)
ComputeOverlaps(c, d) ==
  LET Rec[r \in Parts(c) \X Parts(d)] ==
        LET s0 == r[1][1]  e0 == r[1][2]  s1 == r[2][1]  e1 == r[2][2]
            mid0 == (s0 + e0 - 1) \div 2
            mid1 == (s1 + e1 - 1) \div 2
        IN  IF s0 = e0 /\ s1 = e1 THEN PairIntersects(s0, s1, c.ring = d.ring)
            ELSE IF Apart(SubBox(c, s0, e0), SubBox(d, s1, e1)) THEN FALSE
            ELSE IF e0 - s0 >= e1 - s1
            THEN Rec[<<<<s0, mid0>>, r[2]>>] \/ Rec[<<<<mid0 + 1, e0>>, r[2]>>]
            ELSE Rec[<<r[1], <<s1, mid1>>>>] \/ Rec[<<r[1], <<mid1 + 1, e1>>>>]
  IN  Rec[<<<<c.from, c.to>>, <<d.from, d.to>>>>]

CeilRoot(n) == CHOOSE k \in 1 .. n : k * k >= n /\ (k - 1) * (k - 1) < n

CeilDiv(m, n) == (m + n - 1) \div n

(* The columns, or rows, of a grid of square cells that a range covers:    *)
(* those past the last one are left out.                                   *)
CellsOf(lo, hi, least, most, scale, k) ==
  LET nx == CeilDiv((most - least) * k, scale)
      Index(v) == ((v - least) * k) \div scale
  IN  Upper(Index(lo), 0) .. Lower(Index(hi), nx - 1)

Scale == Upper(Whole.hx - Whole.lx, Whole.hy - Whole.ly)

(* One cell holds more than the grid takes.                                *)
Crowded(cells) ==
  \E cell \in UNION Range(cells) : Cardinality({i \in DOMAIN cells : cell \in cells[i]}) > tuning.cell

(* The cells a chain is put in.                                            *)
ChainCells(c) ==
  LET k == CeilRoot(Len(chains))
  IN  CellsOf(c.box.lx, c.box.hx, Whole.lx, Whole.hx, Scale, k)
        \X CellsOf(c.box.ly, c.box.hy, Whole.ly, Whole.hy, Scale, k)

Grid ==
  /\ pc = "grid"
  /\ LET cells == [c \in DOMAIN chains |-> ChainCells(chains[c])]
     IN  IF Crowded(cells)
         THEN /\ pc' = "tree" /\ search' = "tree" /\ todo' = DOMAIN chains
              /\ UNCHANGED <<rings, lines, tuning, at, active, clean, errors>>
         ELSE /\ Verdict(~\E c, d \in DOMAIN chains :
                            /\ c < d /\ cells[c] \cap cells[d] # {}
                            /\ ComputeOverlaps(chains[c], chains[d]))
              /\ UNCHANGED search
  /\ UNCHANGED <<chains, open>>

(* One chain against the later ones its box meets; with many chains the    *)
(* chains are taken in any order by the workers.                           *)
TreeChain ==
  /\ pc = "tree"
  /\ \E c \in todo :
       LET Hit(d) == c < d /\ ~Apart(chains[c].box, chains[d].box)
                       /\ ComputeOverlaps(chains[c], chains[d])
       IN  IF \E d \in DOMAIN chains : Hit(d) THEN Verdict(FALSE)
           ELSE IF todo = {c} THEN Verdict(TRUE)
           ELSE todo' = todo \ {c} /\ UNCHANGED <<rings, lines, tuning, pc, at, active, clean, errors>>
  /\ UNCHANGED <<search, chains, open>>

(***************************************************************************)
(* The validator's check of one ring.                                      *)
(***************************************************************************)
Ring == rings[1]

Find(e) ==
  /\ errors' = errors \cup e
  /\ UNCHANGED <<rings, lines, tuning, search, chains, open, at, active, todo, clean>>

(* Mutant: the index of the vertex before the extreme one.                 *)
MinXVertexBefore(ring) ==
  LET n == Len(ring)
      Least(i) == \A j \in 1 .. n : \/ ring[i][1] < ring[j][1]
                                    \/ ring[i][1] = ring[j][1] /\ ring[i][2] <= ring[j][2]
      i == CHOOSE i \in 1 .. n : Least(i) /\ \A j \in 1 .. (i - 1) : ~Least(j)
  IN  IF i = 1 THEN 1 ELSE i - 1

(* The first vertex of least x, then least y.                              *)
MinXVertex(ring) ==
  LET n == Len(ring)
      Least(i) == \A j \in 1 .. n : \/ ring[i][1] < ring[j][1]
                                    \/ ring[i][1] = ring[j][1] /\ ring[i][2] <= ring[j][2]
  IN  CHOOSE i \in 1 .. n : Least(i) /\ \A j \in 1 .. (i - 1) : ~Least(j)

ShoelaceSum(ring) ==
  FoldLeft(LAMBDA s, i : s + ring[i][1] * After(ring, i)[2] - After(ring, i)[1] * ring[i][2],
           0, [i \in DOMAIN ring |-> i])

RobustIsCcw(ring) ==
  LET i == MinXVertex(ring)
      turn == Orient(ring[IF i = 1 THEN Len(ring) ELSE i - 1], ring[i], After(ring, i))
  IN  IF turn = 0 THEN ShoelaceSum(ring) > 0 ELSE turn > 0

(* The longest run of consecutive sides with the same left end: such sides *)
(* never leave the active set.                                             *)
LongestRun ==
  LET Run(i, j) == \A k \in i .. j : Box(lines[k]).lx = Box(lines[i]).lx
  IN  CHOOSE m \in DOMAIN lines :
        /\ \E i \in 1 .. (Len(lines) - m + 1) : Run(i, i + m - 1)
        /\ \A i \in 1 .. (Len(lines) - m) : ~Run(i, i + m)

(* Too few points and a flat box end the check; a repeated point and a     *)
(* pinch do not.  Long rings are swept, short ones tested pair by pair.    *)
RingScan ==
  /\ pc = "ring"
  /\ IF Len(Ring) < 3 THEN Find({"TooFewPoints"}) /\ pc' = "done"
     ELSE IF Whole.lx = Whole.hx \/ Whole.ly = Whole.hy THEN Find({"Degenerate"}) /\ pc' = "done"
     ELSE /\ Find((IF \E i \in 2 .. Len(Ring) : Ring[i] = Ring[i - 1] THEN {"RepeatedPoint"} ELSE {})
                    \cup (IF FirstPinchDup(Ring) THEN {"PinchPoint"} ELSE {}))
          /\ pc' = IF Len(Ring) <= tuning.small THEN "ringpairs"
                   ELSE IF LongestRun > tuning.run THEN "seggrid" ELSE "ringsweep"

(* The end of the search: what it found, then the winding if that is all.  *)
Wind(hit) ==
  /\ pc' = "done"
  /\ Find(IF hit THEN {"SelfIntersection"}
          ELSE IF errors = {} /\ ~RobustIsCcw(Ring) THEN {"WrongOrientation"} ELSE {})

RingHit(i, j) == (i > j + 1 \/ j > i + 1) /\ LeanPairIntersects(lines[i], lines[j])

RingPairs ==
  /\ pc = "ringpairs"
  /\ Wind(\E i, j \in DOMAIN lines :
            j > i + 1 /\ ~Apart(Box(lines[i]), Box(lines[j])) /\ RingHit(i, j))

RingSweep ==
  /\ pc = "ringsweep" /\ at < Len(lines)
  /\ LET j == Order[at + 1]
         Hit(i) == ~Apart(Box(lines[i]), Box(lines[j])) /\ RingHit(i, j)
     IN  IF Cardinality(active) > tuning.dense THEN pc' = "ringtree" /\ UNCHANGED <<active, at, errors>>
         ELSE IF \E i \in Retained(j) : Hit(i)
         THEN /\ errors' = errors \cup {"SelfIntersection"} /\ pc' = "done"
              /\ UNCHANGED <<active, at>>
         ELSE /\ active' = Retained(j) \cup {j} /\ at' = at + 1
              /\ UNCHANGED <<pc, errors>>
  /\ UNCHANGED <<rings, lines, tuning, search, chains, open, todo, clean>>

RingSweepEnds == pc = "ringsweep" /\ at = Len(lines) /\ Wind(FALSE)

(* Mutant: what lies past the last cell is left out.                       *)
CellRangeOpen(lo, hi, least, most, scale, k) == CellsOf(lo, hi, least, most, scale, k)

(* cell_range keeps what lies past the last cell in the last cell.         *)
CellRange(lo, hi, least, most, scale, k) ==
  LET nx == Upper(1, CeilDiv((most - least) * k, scale))
      Index(v) == Lower(Upper(((v - least) * k) \div scale, 0), nx - 1)
  IN  Index(lo) .. Index(hi)

(* The grid of segments: the cells of each.                                *)
SegCells ==
  LET k == CeilRoot(Len(lines))
      Columns(s) == CellRange(s.lx, s.hx, Whole.lx, Whole.hx, Scale, k)
      Rows(s) == CellRange(s.ly, s.hy, Whole.ly, Whole.hy, Scale, k)
  IN  [i \in DOMAIN lines |-> Columns(Box(lines[i])) \X Rows(Box(lines[i]))]

SegGrid ==
  /\ pc = "seggrid"
  /\ LET cells == SegCells
     IN  IF Crowded(cells) THEN pc' = "ringtree" /\ Find({})
         ELSE Wind(\E i, j \in DOMAIN lines :
                     /\ j < i /\ cells[i] \cap cells[j] # {}
                     /\ ~Apart(Box(lines[i]), Box(lines[j])) /\ RingHit(i, j))

RingTree ==
  /\ pc = "ringtree"
  /\ Wind(\E i, j \in DOMAIN lines :
            i < j /\ ~Apart(Box(lines[i]), Box(lines[j])) /\ RingHit(i, j))

Gate == Scan \/ PushLine \/ Finish \/ Pairs \/ EdgeSweep \/ EdgeSweepEnds \/ Grid \/ TreeChain

Validator == RingScan \/ RingPairs \/ RingSweep \/ RingSweepEnds \/ SegGrid \/ RingTree

Next == Gate \/ Validator

Spec == Init /\ [][Next]_vars /\ WF_vars(Next)

(***************************************************************************)
(* Properties.                                                             *)
(***************************************************************************)
Searched == pc = "done" /\ search # "none"

(* No side is a point, every caller of the gate has looked for those; and  *)
(* begin_ring parts no lines that the pairwise scan takes for one ring.    *)
Regular ==
  /\ \A k \in DOMAIN lines : lines[k].a # lines[k].b
  /\ tuning.fused => \A k \in 2 .. Len(lines) : lines[k].starts => lines[k].a # lines[k - 1].b

(* Whichever search the gate ends in, its answer is that of the pairwise   *)
(* scan it stands in for: the tree's always, the grid rejects nothing that *)
(* scan passes, and the sweep passes nothing that scan rejects.            *)
(* has_no_intersections_from_chains against has_no_intersections_small.    *)
NoPathStrays ==
  Searched /\ Regular =>
    /\ search \in {"pairs", "tree"} => clean = SmallClean
    /\ search = "grid" /\ SmallClean => clean
    /\ search = "sweep" /\ clean => SmallClean

(* The validator's check of a shell passes only simple closed curves, and  *)
(* has nothing against one but its winding, whichever of its searches the  *)
(* ring's length, the length of its vertical runs and the crowding of its  *)
(* cells selects.  A triangle folded flat off the axes is refused for its  *)
(* winding alone: the search leaves out sides that follow each other.      *)
(* check_ring_validity, sweep_ring_self_intersects and the paths it falls  *)
(* back to.                                                                *)
ValidatorExact ==
  pc = "done" /\ ~tuning.gate =>
    /\ errors = {} => Simple(Ring)
    /\ Simple(Ring) => errors \subseteq {"WrongOrientation"}

(* The winding read off one vertex is the sign of the area, for every      *)
(* ring the validator finds no other fault in.  robust_is_ccw_at.          *)
WindingIsArea ==
  pc = "done" /\ ~tuning.gate /\ errors \ {"WrongOrientation"} = {} =>
    (errors = {} <=> ShoelaceSum(Ring) > 0)

(* Violated: a ring the gate accepts is valid and needs no repair          *)
(* (fast_gate_accepts).                                                    *)
AcceptedIsSimple ==
  Searched /\ tuning.fused /\ clean => \A r \in Range(rings) : Simple(r)

(* Violated: a simple ring is found free of intersections: only            *)
(* intersections of lines that are not adjacent count                      *)
(* (shares_repeated_vertex).                                               *)
SimpleIsClean ==
  Searched /\ Len(rings) = 1 /\ Simple(Ring) => clean
=============================================================================
