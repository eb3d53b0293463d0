------------------------------ MODULE LineNoding ------------------------------
(***************************************************************************)
(* Repair of lines that meet themselves: LineString and MultiLineString in *)
(* make_valid/mod.rs, over the noders of noding/line.  A line is noded on  *)
(* one of four paths: the lean one, the crossing-only one, the general one *)
(* with families of collinear segments, and a greedy filter that drops     *)
(* segments when a noder gives up.                                         *)
(*                                                                         *)
(* A line is the sequence of its points, NaN and repeated points gone      *)
(* (CollectionRepair has that part).  Points have even coordinates and     *)
(* segments run along the axes or the diagonals, so that every crossing is *)
(* a lattice point and no tolerance of the code comes into play: clusters  *)
(* are single points, and collinear segments are always of one family.     *)
(***************************************************************************)
EXTENDS Segments, FiniteSets, SequencesExt

CONSTANTS
  Inputs,    \* sequences of lines: one of a LineString, several of a MultiLineString
  Tunings    \* [cell, dense, crowded, calls, family, active, retraced]

Octilinear(l) == LET x == l.b[1] - l.a[1]
                     y == l.b[2] - l.a[2]
                 IN  l.a # l.b /\ (x = 0 \/ y = 0 \/ x = y \/ x = -y)

ASSUME LinesAssumption == \A lines \in Inputs : Len(lines) > 0 /\ \A line \in Range(lines) :
  /\ Len(line) > 1
  /\ \A p \in Range(line) : p[1] % 2 = 0 /\ p[2] % 2 = 0
  /\ \A i \in 1 .. (Len(line) - 1) : Octilinear([a |-> line[i], b |-> line[i + 1]])

VARIABLES
  lines, tuning,
  at,        \* the line being repaired
  pc,
  nodes,     \* the general path's nodes: pairs of a segment and a point of it
  runs,      \* the runs the lines have been noded into
  dropped    \* the greedy filter was used

vars == <<lines, tuning, at, pc, nodes, runs, dropped>>

line == lines[at]

Segs == [i \in 1 .. (Len(line) - 1) |-> [a |-> line[i], b |-> line[i + 1]]]

IsClosed == Head(line) = Last(line)

Init == /\ lines \in Inputs /\ tuning \in Tunings
        /\ at = 1 /\ pc = "lean" /\ nodes = {} /\ runs = <<>> /\ dropped = FALSE

Go(to) == pc' = to /\ UNCHANGED <<lines, tuning, at, runs, dropped>>

(* The runs of this line are found; on with the next.                      *)
Found(found) ==
  /\ runs' = runs \o found
  /\ at' = IF at < Len(lines) THEN at + 1 ELSE at
  /\ pc' = IF at < Len(lines) THEN "lean" ELSE IF Len(lines) > 1 THEN "merge" ELSE "done"
  /\ nodes' = {}
  /\ UNCHANGED <<lines, tuning>>

(***************************************************************************)
(* Pairs of segments.                                                      *)
(***************************************************************************)
(* The point two crossing segments share.                                  *)
CrossPoint(l, m) ==
  LET x == l.b[1] - l.a[1]
      y == l.b[2] - l.a[2]
      o == Orient(m.a, m.b, l.a)
      d == o - Orient(m.a, m.b, l.b)
  IN  <<l.a[1] + (x * o) \div d, l.a[2] + (y * o) \div d>>

Contacts(l, m) == {v \in {l.a, l.b} : StrictlyOn(v, m)} \cup {v \in {m.a, m.b} : StrictlyOn(v, l)}

Shared(l, m) == {l.a, l.b} \cap {m.a, m.b}

(* classify: one node at most for segments that are not collinear.         *)
Classify(l, m) ==
  CASE ProperlyCross(l, m) -> [hit |-> "cross", pts |-> {CrossPoint(l, m)}]
    [] Overlap(l, m) -> [hit |-> "collinear", pts |-> {}]
    [] Contacts(l, m) # {} -> [hit |-> "vertex", pts |-> Contacts(l, m)]
    [] Shared(l, m) # {} -> [hit |-> "shared", pts |-> Shared(l, m)]
    [] OTHER -> [hit |-> "none", pts |-> {}]

NextTo(i, j) == i + 1 = j \/ (IsClosed /\ i = 1 /\ j = Len(Segs))

BoxesMeet(i, j) == ~Apart(Box(Segs[i]), Box(Segs[j]))

(* Segments that follow each other and run back over each other.           *)
Spikes == {p \in (DOMAIN Segs) \X (DOMAIN Segs) :
             p[1] < p[2] /\ NextTo(p[1], p[2]) /\ Overlap(Segs[p[1]], Segs[p[2]])}

(* What the pairs a search has found come to.                              *)
NodesAt(i, j, c) ==
  CASE c.hit = "cross" -> {i, j} \X c.pts
    [] c.hit = "vertex" -> {IF v \in {Segs[i].a, Segs[i].b} THEN <<j, v>> ELSE <<i, v>> : v \in c.pts}
    [] OTHER -> {}

NodesOf(pairs) == UNION {NodesAt(p[1], p[2], Classify(Segs[p[1]], Segs[p[2]])) : p \in pairs}

HitsOf(pairs, hit) == {p \in pairs : Classify(Segs[p[1]], Segs[p[2]]).hit = hit}

(* Mutant: a revisit is recorded as the starts of both segments.           *)
RevisitedEnds(pairs) == UNION {{Segs[p[1]].a, Segs[p[1]].b} : p \in HitsOf(pairs, "shared")}

RevisitsOf(pairs) == UNION {Shared(Segs[p[1]], Segs[p[2]]) : p \in HitsOf(pairs, "shared")}

(***************************************************************************)
(* From nodes to runs.                                                     *)
(***************************************************************************)
(* The pieces of the segments between their nodes, in order.               *)
SplitAt(points) ==
  LET Far(l, p) == Upper(p[1] - l.a[1], l.a[1] - p[1]) + Upper(p[2] - l.a[2], l.a[2] - p[2])
      Stops(i) == LET l == Segs[i]
                      inner == SetToSortSeq({p \in {n[2] : n \in {n \in points : n[1] = i}} : StrictlyOn(p, l)},
                                            LAMBDA p, q : Far(l, p) < Far(l, q))
                  IN  <<l.a>> \o inner \o <<l.b>>
      Between(stops) == [k \in 1 .. (Len(stops) - 1) |-> [a |-> stops[k], b |-> stops[k + 1]]]
  IN  FlattenSeq([i \in DOMAIN Segs |-> Between(Stops(i))])

Repeated(Step(_), start, n) == FoldLeft(LAMBDA c, k : Step(c), start, [k \in 1 .. n |-> k])

PointsOf(pieces, run) == <<pieces[Head(run)].a>> \o [k \in DOMAIN run |-> pieces[run[k]].b]

(* crossing_only and assemble: every piece not taken yet begins a run,     *)
(* which goes on, forwards and then backwards, up to a break, the end of   *)
(* the line, or one piece before it would close.                           *)
RunsBetween(pieces, breaks) ==
  LET m == Len(pieces)
      Ahead(k) == IF k < m THEN k + 1 ELSE 1
      Before(k) == IF k > 1 THEN k - 1 ELSE m
      Forth(run, used) ==
        LET k == Last(run)
        IN  IF \/ k = m /\ ~IsClosed
               \/ Ahead(k) \in used \cup Range(run)
               \/ pieces[k].b \in breaks
               \/ pieces[Ahead(k)].b = pieces[Head(run)].a
            THEN run ELSE Append(run, Ahead(k))
      Back(run, used) ==
        LET k == Head(run)
        IN  IF \/ k = 1 /\ ~IsClosed
               \/ Before(k) \in used \cup Range(run)
               \/ pieces[k].a \in breaks
               \/ pieces[Before(k)].a = pieces[Last(run)].b
            THEN run ELSE <<Before(k)>> \o run
      RunFrom(s, used) ==
        LET forward == Repeated(LAMBDA run : Forth(run, used), <<s>>, m)
        IN  Repeated(LAMBDA run : Back(run, used), forward, m)
      Take(acc, s) == IF s \in acc.used THEN acc
                      ELSE LET run == RunFrom(s, acc.used)
                           IN  [used |-> acc.used \cup Range(run),
                                runs |-> Append(acc.runs, PointsOf(pieces, run))]
  IN  FoldLeft(Take, [used |-> {}, runs |-> <<>>], [k \in 1 .. m |-> k]).runs

(***************************************************************************)
(* node_fast.                                                              *)
(***************************************************************************)
Whole == FoldLeft(LAMBDA s, l : Join(s, Box(l)), Box(Segs[1]), Segs)

Width == Whole.hx - Whole.lx

(* Four segments that each span nine tenths of the width.                  *)
FullSpan == /\ Width > 0
            /\ Cardinality({i \in DOMAIN Segs : LET b == Box(Segs[i])
                                                IN  10 * (b.hx - b.lx) >= 9 * Width}) >= 4

Monotone == \E axis \in {1, 2}, sign \in {-1, 1} :
  \A i \in DOMAIN Segs : sign * (Segs[i].b[axis] - Segs[i].a[axis]) > 0

(* The grid: cells of one size, from the widened box's lower corner.       *)
GridCells(b) == LET Index(v, origin) == (v - origin) \div tuning.cell
                IN  (Index(b.lx, Whole.lx) .. Index(b.hx, Whole.lx))
                      \X (Index(b.ly, Whole.ly) .. Index(b.hy, Whole.ly))

TooDense ==
  LET cells == [i \in DOMAIN Segs |-> GridCells(Box(Segs[i]))]
  IN  \E c \in UNION Range(cells) : Cardinality({i \in DOMAIN Segs : c \in cells[i]}) > tuning.dense

ScannedPairs ==
  {p \in (DOMAIN Segs) \X (DOMAIN Segs) :
     /\ p[1] < p[2] /\ ~NextTo(p[1], p[2])
     /\ GridCells(Box(Segs[p[1]])) \cap GridCells(Box(Segs[p[2]])) # {}
     /\ BoxesMeet(p[1], p[2])}

(* A point two steps on is the same one.                                   *)
TurnsBack == \/ \E i \in 1 .. (Len(line) - 2) : line[i] = line[i + 2]
             \/ IsClosed /\ line[Len(line) - 1] = line[2]

LeanSimple == pc = "lean" /\ (Len(line) < 3 \/ (~TurnsBack /\ Monotone))
              /\ Found(<<line>>) /\ UNCHANGED dropped

LeanScan ==
  /\ pc = "lean" /\ Len(line) > 2 /\ ~TurnsBack /\ ~Monotone
  /\ Spikes = {} /\ ~FullSpan /\ ~TooDense
  /\ \E pairs \in {ScannedPairs} :
       /\ HitsOf(pairs, "collinear") = {}
       /\ \E found \in {NodesOf(pairs)}, revisits \in {RevisitsOf(pairs)} :
            Found(IF found = {} /\ revisits = {} THEN <<line>>
                  ELSE RunsBetween(SplitAt(found), {n[2] : n \in found} \cup revisits))
  /\ UNCHANGED dropped

Unsupported ==
  /\ pc = "lean" /\ Len(line) > 2
  /\ \/ TurnsBack
     \/ ~Monotone /\ (Spikes # {} \/ FullSpan \/ TooDense \/ HitsOf(ScannedPairs, "collinear") # {})
  /\ Go("check") /\ UNCHANGED nodes

(***************************************************************************)
(* check_linestring_self_intersection stands before the other noders.      *)
(***************************************************************************)
SelfIntersects(points) ==
  LET n == Len(points) - 1
      Seg(i) == [a |-> points[i], b |-> points[i + 1]]
      Loop(i, j) == i = 1 /\ j = n /\ points[1] = points[n + 1]
  IN  \/ \E i \in 1 .. (n - 1) : Overlap(Seg(i), Seg(i + 1))
      \/ n > 1 /\ Loop(1, n) /\ Overlap(Seg(n), Seg(1))
      \/ \E i \in 1 .. n : \E j \in (i + 2) .. n :
           ~Loop(i, j) /\ (LeanPairIntersects(Seg(i), Seg(j)) \/ Shared(Seg(i), Seg(j)) # {})

(* revisit_dominated: the line keeps coming back to one point.  The points *)
(* are sorted by x alone, and visits count as long as they follow each     *)
(* other in that order.                                                    *)
RevisitDominated ==
  LET byX == SetToSortSeq(DOMAIN line, LAMBDA i, j : \/ line[i][1] < line[j][1]
                                                     \/ line[i][1] = line[j][1] /\ i < j)
      Visits(i, j) == \A k \in i .. j : line[byX[k]] = line[byX[i]]
  IN  /\ Len(Segs) >= tuning.retraced
      /\ \E i, j \in DOMAIN byX : /\ i <= j /\ Visits(i, j)
                                  /\ 2 * (j - i + 1) + 2 >= Len(Segs)

Check ==
  /\ pc = "check"
  /\ IF ~SelfIntersects(line) THEN Found(<<line>>) /\ UNCHANGED dropped
     ELSE Go(IF RevisitDominated THEN "greedy" ELSE "crossing") /\ UNCHANGED nodes

(***************************************************************************)
(* crossing_only.  The segment grid's candidates are the pairs whose boxes *)
(* meet (IntersectionGate), or it is too crowded to be built.              *)
(***************************************************************************)
MeetingPairs == {p \in (DOMAIN Segs) \X (DOMAIN Segs) :
                   p[1] < p[2] /\ ~NextTo(p[1], p[2]) /\ BoxesMeet(p[1], p[2])}

CrossingBails == \/ FullSpan
                 \/ Spikes # {}
                 \/ tuning.crowded
                 \/ Cardinality(MeetingPairs) > tuning.calls
                 \/ HitsOf(MeetingPairs, "collinear") # {}

CrossingOnly ==
  /\ pc = "crossing"
  /\ IF CrossingBails THEN Go("families") /\ UNCHANGED nodes
     ELSE /\ \E found \in {NodesOf(MeetingPairs)}, revisits \in {RevisitsOf(MeetingPairs)} :
               Found(RunsBetween(SplitAt(found), {n[2] : n \in found} \cup revisits))
          /\ UNCHANGED dropped

(***************************************************************************)
(* run_full: collinear segments form families, noded along their line; the *)
(* others are swept.  Families too large for the sweep are compared with   *)
(* what was swept, and with each other around the point where their lines  *)
(* meet.                                                                   *)
(***************************************************************************)
Aligned(i, j) == LET l == Segs[i] IN Orient(l.a, l.b, Segs[j].a) = 0 /\ Orient(l.a, l.b, Segs[j].b) = 0

Family(i) == {j \in DOMAIN Segs : Aligned(i, j)}

InSweep(i) == Cardinality(Family(i)) \in 1 .. Upper(1, tuning.family)

FamilyPass ==
  /\ pc = "families"
  /\ nodes' = UNION {{i} \X {p \in UNION {{Segs[j].a, Segs[j].b} : j \in Family(i) \ {i}} :
                               StrictlyOn(p, Segs[i])} : i \in DOMAIN Segs}
  /\ Go(IF Family(1) = DOMAIN Segs THEN "pieces" ELSE "sweep")

SweepOrder ==
  SetToSortSeq({i \in DOMAIN Segs : InSweep(i)},
               LAMBDA i, j : LET x == Box(Segs[i]).lx
                                 y == Box(Segs[j]).lx
                             IN  x < y \/ (x = y /\ i < j))

(* Before a segment is taken, the ones that reached the one before it.     *)
Overrun ==
  LET order == SweepOrder
      Active(k) == {j \in 1 .. (k - 1) : j = k - 1 \/ Box(Segs[order[j]]).hx >= Box(Segs[order[k - 1]]).lx}
  IN  \E k \in 2 .. Len(order) : Cardinality(Active(k)) > tuning.active

(* The lines of two large families cross inside the span of segment i.     *)
SpanHolds(i, j) ==
  LET m == Segs[CHOOSE k \in Family(j) : TRUE]
  IN  Orient(m.a, m.b, Segs[i].a) * Orient(m.a, m.b, Segs[i].b) <= 0

(* Mutant: large families are compared with nothing.                       *)
SweptOnly(i, j) == ~Aligned(i, j) /\ BoxesMeet(i, j) /\ InSweep(i) /\ InSweep(j)

Tested(i, j) ==
  /\ ~Aligned(i, j) /\ BoxesMeet(i, j)
  /\ \/ InSweep(i) /\ InSweep(j)
     \/ /\ Shared(Segs[i], Segs[j]) = {}
        /\ InSweep(i) \/ InSweep(j) \/ (SpanHolds(i, j) /\ SpanHolds(j, i))

SweepPass ==
  /\ pc = "sweep"
  /\ IF Overrun THEN nodes' = {} /\ Go("greedy")
     ELSE /\ nodes' = nodes \cup NodesOf({p \in (DOMAIN Segs) \X (DOMAIN Segs) :
                                            p[1] < p[2] /\ Tested(p[1], p[2])})
          /\ Go("pieces")

(* dedup_pieces: of pieces with the same ends the first stays.             *)
DedupPieces(pieces) ==
  LET first == SelectSeq([k \in DOMAIN pieces |-> k],
                         LAMBDA k : \A j \in 1 .. (k - 1) :
                                      {pieces[j].a, pieces[j].b} # {pieces[k].a, pieces[k].b})
  IN  [k \in DOMAIN first |-> pieces[first[k]]]

(* reconnect: pieces are joined where exactly two of them end, up to a     *)
(* point the run has passed.  Backwards it goes on from the start of the   *)
(* piece it has added, even when it was added the other way round.         *)
Reconnect(pieces) ==
  LET Ending(v) == {k \in DOMAIN pieces : v \in {pieces[k].a, pieces[k].b}}
      Onward(v, cur, used) == IF Cardinality(Ending(v)) = 2 THEN Ending(v) \ ({cur} \cup used) ELSE {}
      Other(k, v) == IF pieces[k].a = v THEN pieces[k].b ELSE pieces[k].a
      Fresh(c, v) == {q \in Onward(v, c.cur, c.used) : Other(q, v) \notin Range(c.pts)}
      Forth(c) == LET v == Last(c.pts) IN
        IF Fresh(c, v) = {} THEN c
        ELSE LET q == CHOOSE q \in Fresh(c, v) : TRUE
             IN  [pts |-> Append(c.pts, Other(q, v)), cur |-> q, used |-> c.used \cup {q}]
      Back(c) == LET v == pieces[c.cur].a IN
        IF Fresh(c, v) = {} THEN c
        ELSE LET q == CHOOSE q \in Fresh(c, v) : TRUE
             IN  [pts |-> <<Other(q, v)>> \o c.pts, cur |-> q, used |-> c.used \cup {q}]
      m == Len(pieces)
      RunFrom(s, used) ==
        LET forward == Repeated(Forth, [pts |-> <<pieces[s].a, pieces[s].b>>, cur |-> s, used |-> used \cup {s}], m)
        IN  Repeated(Back, [forward EXCEPT !.cur = s], m)
      Take(acc, s) == IF s \in acc.used THEN acc
                      ELSE LET c == RunFrom(s, acc.used)
                           IN  [used |-> c.used, runs |-> Append(acc.runs, c.pts)]
  IN  FoldLeft(Take, [used |-> {}, runs |-> <<>>], [k \in 1 .. m |-> k]).runs

Pieces ==
  /\ pc = "pieces"
  /\ \E found \in {Reconnect(DedupPieces(SplitAt(nodes)))} :
       IF \E r \in Range(found) : SelfIntersects(r)
       THEN Go("greedy") /\ UNCHANGED nodes
       ELSE Found(found) /\ UNCHANGED dropped

(***************************************************************************)
(* simple_subline keeps a segment unless it conflicts with a kept one, and *)
(* keep_conflicting_runs a run unless it conflicts with a kept one.        *)
(***************************************************************************)
Conflict(i, j) ==
  IF NextTo(i, j) \/ NextTo(j, i) THEN Overlap(Segs[i], Segs[j])
  ELSE /\ BoxesMeet(i, j)
       /\ \/ Shared(Segs[i], Segs[j]) # {}
          \/ EdgesIntersect(Segs[i], Segs[j])
          \/ VertexOnEdge(Segs[i], Segs[j])

SimpleSubline ==
  LET Keep(kept, j) == IF \E i \in Range(kept) : Conflict(i, j) THEN kept ELSE Append(kept, j)
      kept == FoldLeft(Keep, <<>>, [k \in DOMAIN Segs |-> k])
      Join1(rs, j) == IF rs # <<>> /\ Last(rs).last + 1 = j
                      THEN Append(Front(rs), [last |-> j, pts |-> Append(Last(rs).pts, Segs[j].b)])
                      ELSE Append(rs, [last |-> j, pts |-> <<Segs[j].a, Segs[j].b>>])
      joined == FoldLeft(Join1, <<>>, kept)
  IN  [k \in DOMAIN joined |-> joined[k].pts]

(* check_line_components_intersect.                                        *)
ComponentsIntersect(r, s) ==
  LET Boundary(t) == IF Head(t) = Last(t) THEN {} ELSE {Head(t), Last(t)}
      Touch(l, m) == ProperlyCross(l, m) \/ Overlap(l, m) \/ VertexOnEdge(l, m)
  IN  \/ \E p \in Range(r) \cap Range(s) : p \notin Boundary(r) \/ p \notin Boundary(s)
      \/ \E i \in 1 .. (Len(r) - 1), j \in 1 .. (Len(s) - 1) :
           Touch([a |-> r[i], b |-> r[i + 1]], [a |-> s[j], b |-> s[j + 1]])

KeepRuns(rs) ==
  FoldLeft(LAMBDA kept, r : IF \E k \in Range(kept) : ComponentsIntersect(k, r) THEN kept ELSE Append(kept, r),
           <<>>, rs)

Greedy ==
  /\ pc = "greedy"
  /\ Found(KeepRuns(SelectSeq(SimpleSubline, LAMBDA r : ~SelfIntersects(r))))
  /\ dropped' = TRUE

(* MultiLineString: the runs of all the lines.                             *)
Merge == /\ pc = "merge"
         /\ runs' = KeepRuns(runs)
         /\ pc' = "done"
         /\ UNCHANGED <<lines, tuning, at, nodes, dropped>>

Next == \/ LeanSimple \/ LeanScan \/ Unsupported \/ Check \/ CrossingOnly
        \/ FamilyPass \/ SweepPass \/ Pieces \/ Greedy \/ Merge

Spec == Init /\ [][Next]_vars /\ WF_vars(Next)

(***************************************************************************)
(* What the noders promise, in terms of unit steps of the lattice.         *)
(***************************************************************************)
Unit(l) == LET Sign(n) == IF n > 0 THEN 1 ELSE IF n < 0 THEN -1 ELSE 0
           IN  <<Sign(l.b[1] - l.a[1]), Sign(l.b[2] - l.a[2])>>

LengthOf(l) == Upper(Upper(l.b[1] - l.a[1], l.a[1] - l.b[1]), Upper(l.b[2] - l.a[2], l.a[2] - l.b[2]))

PointOf(l, k) == <<l.a[1] + k * Unit(l)[1], l.a[2] + k * Unit(l)[2]>>

LinesOf(run) == [i \in 1 .. (Len(run) - 1) |-> [a |-> run[i], b |-> run[i + 1]]]

AtomsOf(run) == UNION {{{PointOf(l, k), PointOf(l, k + 1)} : k \in 0 .. (LengthOf(l) - 1)} :
                         l \in Range(LinesOf(run))}

TotalLength(run) == FoldLeft(LAMBDA sum, l : sum + LengthOf(l), 0, LinesOf(run))

Ends(run) == {Head(run), Last(run)}

(* A run passes no point twice, but may end where it begins.               *)
SimpleRun(run) ==
  Cardinality(UNION AtomsOf(run)) = TotalLength(run) + (IF Cardinality(Ends(run)) = 1 THEN 0 ELSE 1)

(* Runs meet only in points where both end.                                *)
RunsApart(r, s) ==
  \A p \in UNION AtomsOf(r) \cap UNION AtomsOf(s) :
    \A t \in {r, s} : p \in Ends(t) /\ Cardinality(Ends(t)) = 2

(* A repaired line is valid: its runs are simple and meet in ends only,    *)
(* whichever path has noded it, the greedy one included, and so are the    *)
(* lines of a MultiLineString together (keep_conflicting_runs).            *)
RunsValid ==
  pc = "done" => /\ \A r \in Range(runs) : SimpleRun(r)
                 /\ \A i, j \in DOMAIN runs : i < j => RunsApart(runs[i], runs[j])

(* The points where a run has to end: not two steps lead there.            *)
Degree(p) == Cardinality({s \in AtomsOf(line) : p \in s})

Overlaps == \E i, j \in DOMAIN Segs : i < j /\ Overlap(Segs[i], Segs[j])

(* "The parent path reaches the same result" (noding/line/fast.rs): a      *)
(* noder loses nothing and keeps nothing twice; and a line that does not   *)
(* run over itself is cut at the same points on each of its paths, those   *)
(* where other than two steps meet, and once more in every loop.           *)
PathsAgree ==
  pc = "done" /\ Len(lines) = 1 /\ ~dropped =>
    /\ UNION {AtomsOf(r) : r \in Range(runs)} = AtomsOf(line)
    /\ ~Overlaps /\ Len(runs) > 1 =>
         \A k \in DOMAIN runs : \A p \in Ends(runs[k]) :
           Degree(p) # 2 \/ \E j \in DOMAIN runs \ {k} : Ends(runs[j]) = Ends(runs[k])
=============================================================================
