# A TLA+ model of GeoRepair

GeoRepair repairs invalid OGC geometries: given a polygon, a collection of
them, lines or points, it is to return a geometry its own validator accepts, or the
empty collection. Two things make it hard to get right. One is everything around
the engines: foreign boolean code that may return nonsense or panic, ladders of
fallbacks that must notice, certificates that let a result skip checks, loops
over lists that change under them, raw pointers handed through a C API. The
other is the combinatorics inside the engines and their judges: faces and holes
that nest and touch, one verdict computed by five different searches, graphs of
rings in contact, trees of collections read and written by four codecs. The
modules model both; rounding, which is between them, they leave out.

Paths below are relative to the repository; `polygon.rs`, `multipolygon.rs`
and so on are under `src/make_valid/` unless said otherwise.

## 1. The system

### 1.1 Components

| Component | State it keeps | Operations | Modelled by |
|---|---|---|---|
| Polygon repair dispatch (`polygon.rs`, `strip.rs`, `precondition.rs`) | polygon under repair, geometry in hand, certificate, rung of the precision ladder | `make_valid_with_config`, `make_valid_owned` | `RepairLadder`, `RepairContract` |
| MultiPolygon repair (`multipolygon.rs`, `src/parallel.rs`) | shells, merged geometry, best retry, certificate | `make_valid_with_config`, `par_fix_multi_polygon` | `MultiPolygonLadder` |
| Shell merging (`src/structure/merge.rs`) | list of shells edited in place, parent counts, kept shells | `merge_shells` | `MergeShells` |
| Structure pipeline (`src/structure/`) | rings, cut edges, shells and holes | node, BuildArea/XOR loop, classify, nest, subtract, merge | `StructureRepair`, `PlanarFaces`, `PolygonEngines` |
| Arrange (`src/arrange/`) | constraints, face labels, rings, components | filter, triangulate, label, trace, assemble | `ArrangeRepair`, `PlanarFaces`, `PolygonEngines` |
| Intersection gate (`src/arrange/prep_intersect.rs`, `src/structure/mod.rs`) | monotone chains, sweep status, grid, tree | is this ring simple, may this polygon pass unrepaired | `IntersectionGate`, `Segments`, `PolygonValidity` |
| Line noder (`src/noding/line.rs`, `src/noding/line/`) | nodes, families of collinear segments, sweep status, pieces | node a line that meets itself | `LineNoding`, `Segments` |
| Polygon noding (the rest of `src/noding/`) | segments, hot pixels, sweep status | snap rounding, intersection, collapse | taken at its result |
| Validator (`src/validation/`) | error list, ring contact graph | rings, holes, components, sweep | `IntersectionGate`, `PolygonValidity`; its verdict in the ladders |
| Precision reduction (`src/reduce/`) | precision model | snap a geometry to a grid | an engine of both ladders |
| Lines, points, collections (`mod.rs`) | members repaired so far, depth, runs kept | repair members, push, depth limit, greedy filters | `CollectionRepair`, in `Conversion`; `LineNoding` |
| C API (`src/bindings/ffi/`) | raw allocations owned by result structs | single calls, batch, free functions | `FfiBatch` (batch and free) |
| Python, WebAssembly (`src/bindings/python.rs`, `src/wasm.rs`) | none | wrappers | no |
| WKB and WKT (`src/io/wkb/`, `src/io/wkt/`) | cursor, depth | recursive readers, writers | `GeometryTree`, `GeometryCodec`, `Conversion` |
| File formats (`src/io/`) | record cursors | shp, gpkg, gml, csv, binary | no |
| Host conversion, output policy (`src/host.rs`, `src/output.rs`, `src/feature.rs`) | counters | convert, apply policy | no |
| Kernels (`src/dd.rs`, `src/orient.rs`, `src/simd/`, `src/snap.rs`, `src/cleanup.rs`, `src/util.rs`) | none | predicates, vector loops | no |
| CRS, Z/M, interop, command line, library surface | none | conversion, arguments, re-exports | no |

### 1.2 How they interact

A `MultiPolygon` call repairs every part with the polygon call and assembles
what comes back; a collection call does the same with its members. The polygon
call tries the *structure* pipeline first (a fast gate that recognises valid
input, one of four repair stages otherwise) and falls back to the *arrange*
chain: the input itself if the validator accepts it, the triangulation, snapping
to coarser and coarser grids, nothing. The validator is asked at almost every
step and its answer decides where the call goes. `merge_shells` ends both the
structure pipeline and the first half of the MultiPolygon call. The C API runs
polygon calls over a batch, one after the other or on a rayon pool, and turns
results into raw buffers that a caller frees.

The two engines call each other: the structure pipeline hands a polygon to the
triangulation when a hole crosses its shell or when no ring can be repaired, and
the triangulation is also what the ladder falls back to. Engines, ladder and
validator share one question, whether rings cross, and ask it through two
implementations with several searches each. Files come in through a reader,
go out through a writer, and between them through repair, whose collections may
nest no deeper than the validator and both formats accept.

Everything but the pool is synchronous: there is no shared mutable state between
two repairs, no persistence and no network. So there are no crashes to recover
from and no messages to lose. The hard behaviours are:

- an engine that returns anything at all, or panics, at any of its call sites;
- control that depends on verdicts taken earlier: a certificate lets a result
  skip the strip pass or the gate;
- a twin code path (borrowed/owned, serial/parallel, clean/rebuilt, single part/
  several parts) that has to keep the same promises with different code;
- a loop that edits the list it walks;
- workers that finish in any order, and a panic among them;
- a worklist whose order comes from a hash map, a spatial index or a heap: faces
  labelled, holes assigned, contacts followed in any order;
- one question answered by the search, or one line cut by the noder, that the
  size and the shape of the input select; no small test reaches the larger ones;
- state kept beside a tree in one flat list, to be consumed in step with it;
- ownership that leaves Rust and comes back through `free` in any order.

The full list, line by line, is under "hazards" in `PROJECT.json`, with the
property that covers each or the reason why none does.

### 1.3 What makes each component correct

- *Polygon call*: `docs/ARCHITECTURE.md` section 1 asks for answers that are valid
  or empty, no panic, no non-finite coordinate, winding normalised. The last two
  hold. Of the first holds, on every arm but the owned `Structure` one, that no
  engine's work is answered unless it is valid (a kept collapsed ring aside); where the fast gate errs, the polygon's own rings come back, wound and finite. Of
  the second, three dispatch sites in four. Besides: a valid polygon never loses its
  area (borrowed entry without `keep_collapsed`), and what is certified is the polygon itself.
- *MultiPolygon call*: valid, and one part never costs another.
- *Shell merging*: the even-odd rule, and never less area than the shells
  validly had.
- *Both engines*: the region returned is the even-odd region of the linework,
  whichever stages ran and in whatever order.
- *Gate and validator*: what is accepted is valid as a point set, what is valid is
  accepted, and the size of the input has no say in it.
- *Lines, points, collections*: a repaired line is simple and has lost nothing,
  whichever noder it went through; leaves keep their order, limits are respected.
- *Readers and writers*: what is written is read back, what was cut short is
  refused.
- *C API*: outcome i belongs to input i; nothing is freed twice; nothing is
  left behind.

## 2. The modules

| Module | What it is |
|---|---|
| `RepairGeometry` | the verdicts the dispatch code asks of a geometry, as records; `Valid`, `Wind`, `Strip`, and `Allowed`, the answers the contract allows |
| `RepairContract` | abstract specification: one step from a polygon to an allowed answer |
| `RepairLadder` | one polygon call, both entries, all methods |
| `MultiPolygonLadder` | one MultiPolygon call, both entries; its parts are repaired by the contract |
| `MergeShells` | `merge_shells` on concrete rings |
| `FfiBatch` | the batch entry of the C API, its pool, and the caller who frees |
| `PlanarFaces` | rings, faces, BuildArea and cells on an integer grid |
| `StructureRepair` | the structure engine on one polygon, over `PlanarFaces` |
| `ArrangeRepair` | the triangulation engine on one polygon, over `PlanarFaces` |
| `PolygonEngines` | the two composed, with the ways from one to the other |
| `Segments` | the pair predicates gate and validator share |
| `IntersectionGate` | every search of the gate and of the ring validator |
| `PolygonValidity` | what validator and gate say of rings and parts together |
| `LineNoding` | repair of one line or several: four noders and the greedy filters |
| `GeometryTree` | geometries as trees with ordinates beside them |
| `GeometryCodec` | WKB and WKT, readers and writers |
| `CollectionRepair` | repair of points, lines and collections |
| `Conversion` | a geometry written, damaged, read, repaired and written again |
| `MC...` | values of the constants for TLC |
| `..._proofs` | theorems of the module they extend, checked by TLAPS |

### 2.1 RepairGeometry: a geometry is what can be told apart about it

The ladders never look at coordinates, they look at verdicts: `is_valid_with_geo`,
`has_nan`, the second result of `enforce_ogc_winding`, the variant of `Geometry`.
A geometry is therefore the record of those verdicts, constrained the way the
code constrains them (the validator rejects what is not finite; only areal
geometries are wound). Two verdicts deserve a word. `turns` is FALSE for rings
whose orientation predicate underflows or overflows: `robust_is_ccw` calls them
clockwise both ways round, so winding them twice does not help and the validator
rejects them. `src` separates the polygon under repair from an engine's work, and
stripping keeps it. `OwnRings` is the polygon itself, wound and finite; `Allowed`, the
contract, grants it for a polygon the validator rejects, beside any valid answer.

`EngineOutputs`, what an engine may return, is *every* such record: TLC tries
all of them at every engine call, and the proofs quantify over them.

### 2.2 RepairLadder

`pc` is the stage of the call; one action per branch of the code. The table
gives the correspondence; `map` in `PROJECT.json` has the lines.

| Code | Actions |
|---|---|
| pre-scan, short-ring exit | `EntryDegenerate`, `EntryClean`, `EntryShort`, `EntryRebuild` |
| `filter_finite_rings`, `dedup_and_close` | `RebuildClose`, `RebuildTooFew` |
| `match poly_method`, `FixOutcome::Fast` | `DispatchArrange`, `FastCertified`, `FastRejected`, `DispatchStructure` |
| `fix_polygon_owned` | `Precondition`, `SinglePass`, `Crossing`, `Shells` |
| `FixOutcome::Repaired` in each arm | `GatePass`, `GateReject`, `GateSkipped` |
| `arrange_chain`, `reduce_fallback` | `ChainFast`, `ChainValid`, `ChainArrange`, `Arrange`, `ReduceRung`, `ReduceLast` |
| ends of `make_valid_impl` and `make_valid_impl_owned` | `FinishBorrowed`, `FinishOwned` |
| the four `catch_unwind` sites, one of them missing | `EntryClean`, `RebuildClose` (they set `guarded`), `Panic` |
| `strip_degenerate`, `maybe_collapse_keep`, `preserve_valid_input` | `TailBorrowedClean`, `TailBorrowedRebuilt`, `TailOwned` |

Of the fast gate one thing is assumed: it walks every coordinate, so it accepts no
short ring and no non-finite coordinate. It is not assumed to be right. It errs on
rings its grid misses (`gate_grid`) and above its vertex limit (`GiantIsValid`), and
five exits ship what it passes, at ordinary magnitudes, without asking the validator.
The ladder therefore also starts from polygons the gate passes and the validator
rejects. What then still holds is `OnlyGateErrs`: this is the one way to an invalid
answer, on every arm that gates, and what is shipped are the polygon's own rings.

### 2.3 MultiPolygonLadder

The parts are repaired in one step whose outcome is any combination of contract
answers (`Allowed`), so this module rests on the theorem that the borrowed
polygon call implements the contract. Of the shells they leave, `shells` keeps the kinds
among them, "good" (valid with an area), "thin" (valid, the area underflows) and "bad"
(a broken part whose own rings the ladder let through), and whether there is one
alone. `multi` is the geometry in hand with the answers of the two overlap tests. The
gate's last rung then looks at kinds: the components of what it refused, or of the
original shells, and keeps a good one if there is one. `ValidPartSurvives` says of an
empty answer that an engine panicked, that the overlay left nothing of several
shells (which may cancel), or that no shell was good.

### 2.4 MergeShells

This one is not about verdicts but about an algorithm, so rings are concrete.
They are the squares whose diagonal is an interval of the main diagonal of the
plane: two of them can lie apart, touch in a corner, overlap, share a corner and
two edges, nest, or coincide, and each test of the code (vertex in ring, probe
in ring, boxes meet, area) is exactly a comparison of interval ends. A region is
the set of unit cells it covers on the diagonal. The cancel loop takes one step
per shell, with its index; the even-parent rule, hole conversion and the guard
are operators checked against the even-odd rule. Twins that the cancel loop missed may
become the same hole twice (`twice`): the code lists a shell's holes before it adds
the first, so it adds both, and what it then has is not valid.

### 2.5 FfiBatch

`heap` is the set of raw allocations that are live; an item owns its WKB buffer
or its message, the batch the array and its own message. The pool lets any idle
worker take any position left and settle it at any time, which covers every
schedule of rayon's work stealing. Outcomes become raw only when all are there
(`PoolReturn`), in the serial loop one by one (`SerialItem`). A panic in a job is
raised on the calling thread once no worker is busy; other positions may be left
undone or not. The caller then frees items and the batch in any order.

### 2.6 PlanarFaces, StructureRepair, ArrangeRepair, PolygonEngines

Rings are concrete here: closed sequences of corners on the integer grid with
sides parallel to the axes. Noded linework is cut at every lattice point, which
changes no face, so a graph is a set of unit edges and a region a set of unit
cells; no coordinate is ever rounded. `Faces` is the walk of
`extract_all_faces_geos` (maximal rings by one turn, minimal ones by the other),
`KeptFaces` is BuildArea, and the same two operators serve every caller in the
code that goes through `build_area`.

| Code | Actions |
|---|---|
| `single_pass_fix`: noding, degenerate rings, vertex limit | `Assemble` |
| `make_valid_poly_symdiff`, one round; its two exits | `BuildAreaRound`, `LoopEnd` |
| the validity test behind it | `Gate` |
| `hole_crosses_shell`, `repair_ring`, `repair_hole`, `try_fast_fix` | `RepairRings` |
| `classify_holes`, `resolve_nesting`, `subtract_holes`, polygonize after a panic | `ProcessShell` |
| `merge_shells` | `Merge` |
| `prepare_lines` | `Prepare` |
| triangulation, `label_faces` | `Triangulate`, `SeeFromHull`, `SeeNeighbour` |
| `trace_rings`, pinch splitting | `Trace` |
| `assemble_polygons` | `AssignHole` |
| validity, `drop_nested_components`, `polygonizer_fallback` | `Judge` |
| `fallback_polygon_fix` without rings | `Difference` |
| `FixOutcome` of the structure engine, `arrange_chain` | `HandOver`, `ArrangeChain` |

What the code leaves to chance is a choice here: `big`, whether the polygon has
more edges than the single pass takes; whether a ring pair is short enough to be
looked at; whether the difference panics; which exterior around a hole the index
finds; which triangle is met next. Triangles are joined to faces, since no label
changes without a constraint between: a face is what a flood fill (`Flood`)
reaches from a cell of the hull without crossing one. The acceptance test at the
head of `fix_polygon` is `PolygonValidity`'s, and the filter of assembled rings
passes every ring here, as it would in exact arithmetic.

### 2.7 Segments and IntersectionGate

Whether one ring is simple. Vertices are lattice points, so orientations are
exact and the error margins of the code are zero. The gate builds monotone
chains line by line (`PushLine`, `Finish`, for the two builders that number rings
differently), then one of `Pairs`, `EdgeSweep`, `Grid`, `TreeChain`, or stops in
`Scan`; the validator takes one of `RingPairs`, `RingSweep`, `SegGrid`,
`RingTree` after `RingScan`. Which one is decided by thresholds that the source
fixes at sizes of 32 lines, 128 chains or 64 in a cell: they are the fields of
`tuning`, and an instance sets them to sizes its rings reach, so that every
search meets every ring. Chains, their sub-boxes, cells and the status of a sweep
are as in the code; that is what the properties are about.

Two of their conditions are about degenerate input. `NoPathStrays` asks for
`Regular` lines: no side is a point. With one the tree differs from the pairwise scan,
since a point lets two lines of one chain touch that are no neighbours, and pairs
within a chain are never compared. Every caller of the gate has looked for repeated
points before (`ring_is_plausible`, the validator's scan, the builder of the lines).
And a triangle folded flat off the axes is simple to the validator's search, which
leaves out sides that follow each other: it is refused for its winding, as a shell.
As a hole nobody asks for its winding (`validation/ring.rs:158-171`).

### 2.8 PolygonValidity

How rings lie together, each valid on its own. `mode` is the entry: the
validator, the gate below or above its vertex limit, or the acceptance test of
`fix_polygon`. The validator looks at the holes one by one (`CheckHole`), at their
pairs, then searches the graph of contacts for a cycle (`NextRoot`,
`FollowTouch`, a stack of touches, one step each), then at nesting; for several
parts it goes on to duplicate shells, crossings and nested shells. Its verdict is
compared with point-set topology computed independently: `Region` is a set of
quarter cells, fine enough for diagonal sides, and connectedness is a flood fill.

### 2.9 GeometryTree, GeometryCodec, CollectionRepair, Conversion

A geometry is a tree of nodes with coordinates, which are opaque, and a flat list
of the ordinates beyond x and y. WKB is a sequence of fields with width, value
and byte order; WKT a sequence of tokens; the characters of a number are left
out. The readers are recursive descent like the code's, with its limits, its
count checks against the bytes left and its rules for empty members. `Conversion`
is the life of a geometry: `Write` in one of six forms, `Enclose` by another
program in the other byte order, `Cut` anywhere, `ReadAs` one of five readers,
`Repair`. Repair of a leaf is any answer the code can give to it
(`LineAnswers`, `PolygonAnswers`); repair of a collection is the code's own
`push_repaired_member`.

### 2.10 LineNoding

What `LineAnswers` leaves open. Lines are octilinear with even coordinates, so that
any two segments cross in a lattice point and none of the code's tolerances decides
anything; a cluster of the code is a single point. `pc` is the stage of the noder,
`nodes` what the general path has found so far, `runs` what is done.

| Code | Actions |
|---|---|
| `node_fast`: too short or monotone; scanned; `Unsupported` | `LeanSimple`, `LeanScan`, `Unsupported` |
| `check_linestring_self_intersection`, `revisit_dominated` | `Check` |
| `crossing_only` and its bails | `CrossingOnly` |
| `run_full`: `family_pass`, `adjacent_pass` and `sweep_pass`, pieces to chains | `FamilyPass`, `SweepPass`, `Pieces` |
| `simple_subline`, `keep_conflicting_runs` | `Greedy` |
| `MultiLineString`: the runs of all lines together | `Merge` |

Which of them a line meets depends on sizes: 64 items in a cell, 1024 and 32 pairs
per segment, families of 64, 512 active segments, 32 segments to be dominated by a
revisit. They are the fields of `tuning`. Chains are walked as in the code, one
piece before they would close; `Reconnect` keeps the backward walk that goes on
from the start of the piece it has added, whichever way round that lies.

## 3. What is checked

| Run | Distinct states | Shows |
|---|---|---|
| `ladder_borrowed` | 88 thousand | the borrowed entry implements `RepairContract`; a valid polygon keeps its area; what is certified is the polygon itself |
| `ladder_all` | 1.5 million | both entries, with and without `keep_collapsed`: finite and wound answers on every exit, no invalid work of an engine from an arm that gates, one dispatch site a panic escapes from |
| `merge` | 333 thousand | parity of duplicates, singly covered area, even-odd nesting, the area guard, termination |
| `ffi_batch` | 12 thousand | order of outcomes, no double free, no allocation forgotten but the known one, the call returns |
| `multi` | 149 thousand | the serial entry ships valid geometry; a valid part survives the parts beside it, bad overlays and refusals |
| `structure` | 85 thousand | both engines return the even-odd region; the MakeValid loop leaves no face; the size of a polygon does not decide its region; labels alternate in any order |
| `conversion` | 150 thousand | every reader gives back what any writer wrote and refuses what was cut short; the size estimate is exact; repaired collections keep leaves, order and limits |
| `gate` | 136 thousand | no search of the gate differs from the pairwise scan, but for the one known place; the ring validator passes only simple curves and has nothing but the winding against one; winding is the sign of the area |
| `lines` | 131 thousand | repaired lines are valid on every path; no noder loses a step or keeps it twice; lines that do not retrace are cut in the same places by each |
| `validity` | 37 thousand | what gate and validator accept is a valid point set, what is valid the validator accepts; parts accepted have disjoint interiors; the cycle search finds the cycles there are and no other |

Two further runs end in a counterexample, each one a disagreement between code
and text; see section 5.

Every property of a passing run has a mutant: a definition of the model changed
the way a bug in that code would change it, under which TLC finds the property
violated. The mutants stand beside the definition they replace.

### 3.1 Bounds, and why they are enough

- `NScales`: the code has four rungs; `ladder_borrowed` and `multi` use four,
  `ladder_all` two (rungs differ in nothing but their number). The proofs hold
  for every length.
- Verdict records are finite, so `RepairLadder` has no other bound: TLC sees
  every input and engine result the abstraction distinguishes.
- `MaxParts = 3`: one valid, one broken, one non-finite part; the model counts
  shells only as one or several, and their kinds.
- `MergeShells`: all lists of up to three shells on five positions with holes,
  up to three plain ones on six positions (three levels of nesting), and up to
  four plain ones on five positions (two pairs of duplicates in any order, or a
  pair between two others, which is where the index rewinds), and six that begin
  with two pairs, so that one of them is missed and nests.
- `structure`: every set of up to four rectangles on a grid of 2 by 2 cells, every
  pair on 3 by 3, holes nested up to four deep with every start vertex, a notched
  shell, and rings that cross themselves once (apart, or one lobe inside the
  other) or have a spike, with a hole of any of these kinds. Four levels are the
  first depth at which an island has a hole. `MaxRounds = 4` is the iteration
  guard, which in the code is 64; `NoFaceLeft` says it is never the reason
  to stop.
- `gate`: every closed walk of five vertices over the corners of a square and a
  point on its side, of four with its centre, and of three over a shell; and
  straight and doubled-back rings. Ten settings of the thresholds reach every
  search. A larger grid adds vertices, not relative positions of two lines.
- `validity`: a square shell with every hole out of the squares, diamonds and
  corners of a grid of 4 by 4, pairs of them, and three or four diamonds and
  corners, from every start vertex: the shortest cycles of contacts have two,
  three and four rings. Two parts in both orders, with and without holes.
- `conversion`: every kind of geometry with empty and non-finite members, all
  dimensions, collections nested up to five deep with limits of 3 (formats) and 1
  (repair): the code has 256 and 100 and all that is used of them is that the
  second and its slack fit in the first (`LimitsAssumption`). One write after one
  repair.
- `lines`: every walk of three points from a corner, a side or the centre of a grid
  of 3 by 3, of five points from a corner, and every closed one of six; pairs of a
  walk and a segment, and triples of segments. Five points hold two segments that
  cross, touch or retrace with others before, between and behind them; six close a
  loop with a crossing in it. Six settings of `tuning` send each of them through
  every noder.
- `FfiBatch`: three items on two workers are enough for items to settle out of
  order and for one to be left over when another panics; three frees for an item,
  the batch and the batch again.

### 3.2 Fairness

A repair call is a single thread that waits for nobody, so its specification has
weak fairness on the whole next-state relation: the thread keeps running. It is
used where a loop could go on for ever, in `merge_shells` (`MergeEnds`); the ladders
count their rungs and cannot. In `FfiBatch` weak fairness is given to the calling
thread and to each worker separately, as the operating system schedules them, and
to nothing the caller does afterwards: nobody has to free anything.

`IntersectionGate`, `PolygonValidity` and `LineNoding` have weak fairness for the same
reason, though only safety is checked of them: a search that stopped short would be an
answer missing, and the verdicts are compared when there is one. `StructureRepair`,
`ArrangeRepair` and `Conversion` state none.

Deadlock is not checked: each model is one call, which really stops when it has
returned (or the panic has left it), or one geometry at the end of its journey.

## 4. What is proved

TLAPS checks all of this for every value of the constants.

**RepairLadder_proofs.** `TypeOK` first. Then one inductive invariant,

    IInv == TypeOK, FiniteInv, WoundInv, GatedInv, PolyInv, RebuiltInv,
            KeptInv, CertifiedInv

None of the properties is inductive alone, since each is about the answer while
the fault would be made stages earlier. The conjuncts say what must already hold
where: a certificate only travels with the polygon under repair, finite, wound and
passed by validator or gate (`CertifiedInv`, `FiniteInv`, `WoundInv`); whatever reaches
the finish of an arm that gates is `Backed`, valid or just such a polygon
(`GatedInv`); the polygon under repair is valid if the input was (`PolyInv`); one that
went through the NaN rebuild without `keep_collapsed` was not valid, which is why that
exit needs no `preserve_valid_input` (`RebuiltInv`, `KeptInv`). From it follow `GateErrsAlone`, `Finite` and `Wound` for both entries, and
for the borrowed one without `keep_collapsed` `BorrowedKeepsValid`,
`BorrowedCertified` and, with `ShortInv` (short rings leave at once),
`LadderImplementsContract`, the refinement. Nothing is assumed of the engines, nor
that the gate is right. The restriction is not a convenience: the owned
entry has no `preserve_valid_input` and an arm without a gate, and with
`keep_collapsed` the collapsed line may double back on itself.

**FfiBatch_proofs.** `DoubleFreeSafe` from `OwnInv`: the pointers in reach of the
caller are live, and no two owners hold the same one. `InputOrder` from
`PlaceInv`: a settled slot holds the fate of the input at its own position,
whoever settled it. `BatchTyped` is the type invariant. `FreedBatchLeaksNothing` needs
what the heap holds at every stage (`HeapInv`): nothing before outcomes become raw, what
the serial loop has built so far while it runs, and once the call has returned what
the caller owns and what a panic in that loop left behind (`Orphans`), nothing else.

**MultiPolygonLadder_proofs.** `MultiTyped` is the type invariant, which no run checks
beside the proof. `SerialGated` from `Gated`; `ValidPartsSurvive` from `InHand`: while a
valid part is among the inputs, the call holds shells at every stage, several of them where
they are put together, and a geometry with area wherever the overlay left something.

**MergeShells_proofs.** For lists of shells of any length, with any squares and holes.
`DuplicatesCancelInPairs` from `CancelInv`: besides the types, what is left is a list of
shells of the input in which every ring occurs as often as there, up to an even number;
`CopiesRemoved` says what a removed place does to the counts, and `SortPermutes` that the
sort by area is a permutation. `GuardKeepsArea` from `KeptInv`, with `AreaCoversRegion`:
the area of a list is at least that of its region, so a union that lost any of it falls
short of the area the guard adds up, and `GuardOverrules` it. `SinglyCoveredStays` says that a
cell under one shell survives cancelling (`LoneShellStays`), the even-parent rule and
the union. `MergesToEvenOdd` from `ReorderedInv`: if nothing cancels, the list is the
input reordered; then a cell under kept shells lies under one, or under a shell and
the hole it got, and the parents are counted right because they come first. Its condition
is the code's own, that kept shells keep apart: every shell lies inside at most one other,
and the inner ones have no holes. Deeper nests are not covered: the innermost shell
is kept, comes near the outermost, and that one gets no hole.
Assumption: `ListsAssumption`, that shells are what the repair stages hand over, holes
strictly inside and clear of each other.

**Segments_proofs and IntersectionGate_proofs.** The first is plane geometry on the
lattice: orientations, overlap and touching of lines, what a spike or a corner in a ring
looks like, and, with `UnhitIsSimple`, `SimpleMisses` and `SimpleNotFlat`, that a ring
whose sides no pair test hits is a simple curve, and the other way round. The second
proves `ValidatorIsExact` from

    ValidatorInv == RingInv, SweepInv, DoneInv

for calls of the validator: the findings of the scan stand while the ring is searched;
the sweep has tested every pair it has passed, since a line that left the active set
ends before the last left end met; and every search ends with the answer for all pairs
(`SomeHit`, `NoHit`). `CellsShared` is why the grid of segments loses no pair: cells of
lines that meet have one in common, thanks to the clamp that the gate's grid lacks.
`SearchesAgree`, in the same module and for every sequence of rings, is about the
gate, from `GateInv`. Monotone chains come first: `RunApart` (lines of a chain that do
not follow each other lie apart, so that a chain need not be compared with itself) and
`RunWithin` (the box read off the ends of part of a chain has its lines in it).
`OverlapsIs` then says that the recursion over two chains finds whether any of their
lines intersect, although it only looks where boxes meet; as a recursive function over
the parts of two chains it has a witness, and any other one agrees with it, by the
least span on which they might not. `TakeWalks` says that the walk builds chains in
order which have all the lines, with the ring numbers of the pairwise scan, for both
builders. The sweep meets a pair in the order of left ends and the scan in that of the
lines, and the test is not symmetric: `PairTurns` narrows the difference to lines of
one ring that meet end to start, and `OneOrderEnough` shows that then another pair is
found in either order.
Assumption: `InputsAreRings`, sequences of non-empty rings of lattice points.

**PolygonValidity_proofs.** `CycleSearchDecides`: the search reports a polygon exactly
when its rings touch in a cycle through different points, for any number of rings and
touches, in whatever order they are followed. Before it can be trusted the touches must
be all there are: what passes the tests of holes and pairs shares vertices only
(`InsideBoth` in `Segments_proofs`: a point inside a side of both rings would have been
an intersection; `SharedIsVertex`, `PairsLeaveVertices`). Then each direction has an
invariant of its own.

    ValidityInv == PlaceInv, HolesInv, CycleInv
    CycleInv    == MarksInv, SettledInv, RepeatInv, SearchInv, CyclesFound

is for the cycles it must not miss. Textbook depth-first search does not fit, as the rings
that touch the root go on the stack unmarked, and rings an earlier search marked are
passed over. `SettledInv` says that what earlier searches came to, with all that
touches it, is closed under touching and has no cycle in it; `RepeatInv`, that a search
that starts there stays there; `SearchInv`, that from any other one no cycle gets away:
one that passes a ring the search has come to passes a ring on the stack.

    TreeInv == if there is no cycle, nothing marked lies beyond a touch on the stack but
               the ring it is of, and beyond two touches lies no ring in common

is for the cycles it must not invent. What lies beyond a touch is the least set of rings that
only this contact leads out of. That a tree falls apart at its touches (`BeyondOnward`,
`BranchesApart`) is shown without induction along paths: a way is a set of contacts with
an odd number at its two ends and an even number at every point and other ring
(`WayJoins`: two ways make one), and a non-empty set that is even everywhere contains a
cycle (`NoWayBack`).
Assumption: `InputsWellFormed`, that polygons have rings of lattice points, not empty.

**PolygonEngines_proofs.** What the triangulation engine does up to the rings it traces,
for every polygon whose rings have axis-parallel sides, however many cross or overlap.
The argument rests on parity. A ring ends at a point as often as it starts there, so the
lines through the four unit sides at a vertex are even in number (`EvenAround`), and
the rays of two neighbouring cells differ by the lines between them; hence cells differ
in the even-odd rule exactly when the side between them is a constraint (`ConstraintsTell`).
A face is what a flood fill reaches; the recursion that defines it has a witness, and any
other solution agrees with it, by the number of cells not yet reached. So rays agree
within a face (`FacesAre`), and

    LabelInv == from the second stage on the walls are the constraints of the polygon, the
                labels are a function on the faces, and one that is given is the rule's

is inductive: a face seen from the hull is beside a cell outside the hull, which no line
lies right of, and one seen from a neighbour is across a constraint. From it

- `LabelsTellEvenOdd` is `LabelsAlternate`, which the run checks;
- `LabelsMakeRegion`: when no face is left, the cells labelled inside are the even-odd
  region and its outline is the constraints;
- `WalkSeesAll`: while one is left, one is on the hull or beside a labelled face, since
  a row of cells leads from it to the hull;
- `RimIsFollowed`: of each constraint one half-edge is on the rim, and the clockwise
  successor is a bijection on the rim. The four cells around a vertex decide it: ways in
  and out alternate. The caps of `trace_rings` (`arrange/extract.rs:42-75`) hence
  never end a walk;
- `CancelledIsEmpty`, from `CancelInv`: linework that all cancels is a shell twice over,
  or a shell and equal holes, and the difference of the rings is empty, as is the region.

Assumption: `PolygonsAssumption`, rings of lattice points with axis-parallel sides.

Assumptions used: the named ones on the constants, nothing else.

**Only model-checked.** `MergeEnds` and `CallReturns`: liveness is out of the prover's
reach. `structure` (`EvenOddLevels`, `NoFaceLeft`, `SizeIndependent`) is planar topology:
that faces walked along edges are the cells the even-odd rule tells apart needs
induction over walks of any length and Jordan's theorem on the grid. So does what
`ArrangedEvenOdd` adds to the theorems above: that the traced rings, split where they
pinch and put together again, enclose the region whose rim they are. `WindingIsArea`
needs it too, for polygons of any length. `AcceptedIsValid`,
`ValidAccepted` and `PartsDisjoint` compare verdicts with point sets that flood fills
compute (that a cycle of contacts cuts the interior in two is one of the things they
check and the proofs do not), and `lines` (`RunsValid`, `PathsAgree`) sums and folds over
the pieces of a line. `conversion` is about what recursive readers and writers compute,
for which the prover has no induction; `GeometryTree`, `GeometryCodec`,
`CollectionRepair` and `Conversion` moreover use RECURSIVE operators.

## 5. Where code and text disagree

| Run | The code | The text |
|---|---|---|
| `gate_grid` | `arrange/prep_intersect.rs:894`: a chain on the upper border of the box lies in no cell of the grid, and what it crosses there is not compared | `make_valid/polygon.rs:330-331`, the gate is strictly stronger than the validator |
| `validity_nested` | `validation/holes.rs:164`: whether one hole lies in another is only asked for an outer hole listed first | `tests/geos_differential.rs:11`, no false negatives; `validation/mod.rs:56` |

Eleven more definitions in the modules state what a text says and are violated. They
have no run of their own; as the INVARIANT of a cfg with the constants named, TLC
finds each of them violated within seconds.

| Definition, constants | The code | The text |
|---|---|---|
| `RepairLadder!ValidOrEmpty`, as `ladder_borrowed` | `polygon.rs:417-440`: what the fast gate passes by mistake is shipped certified; on the owned entry, moreover, 545 takes a repaired geometry ungated, and 532-536 certifies at extreme magnitudes | `docs/ARCHITECTURE.md:14`, no arm may ship geometry the validator rejects |
| `RepairLadder!NoPanicEscapes`, as `ladder_all` | `polygon.rs:621`: the owned entry repairs a rebuilt polygon outside `catch_unwind` | `docs/ARCHITECTURE.md:18`, every repair dispatch site is wrapped |
| `RepairLadder!LadderFirstRepairable`, as `ladder_borrowed` | `polygon.rs:793`: each rung is gated before anything winds it, so a clockwise polygon goes to the coarsest scale | `docs/ARCHITECTURE.md:34`, the first valid result wins |
| `MergeShells!DuplicatesCancel`, as `merge` | `structure/merge.rs:225`: after a pair is removed at index 0 the next shell is skipped | `structure/merge.rs:198`, duplicate shells cancel |
| `FfiBatch!BatchIsolates`, as `ffi_batch` | `bindings/ffi/batch.rs:31-75`: one `catch_unwind` around all items | `README.md:288`, per-item outcomes without failing as a whole |
| `MultiPolygonLadder!ParallelValid`, as `multi` | `parallel.rs:135`: the union is returned without any test | `docs/ARCHITECTURE.md:14` |
| `MultiPolygonLadder!NonfiniteFiltered`, as `multi` | `multipolygon.rs:22`: one non-finite part empties the whole | `docs/ARCHITECTURE.md:21`, filtered, not errors |
| `StructureRepair!CurlsCutOut`, `EngineSpec`, `Polygons <- Curled` | the fix for one crossing (`structure/fix_ring.rs`) splits a ring that winds twice into two nested lobes, and their union fills the inner one | `core/mod.rs:101`, repair always applies the EvenOdd rule |
| `IntersectionGate!SimpleIsClean`, `OneRing`, `SweepOnly` | the edge sweep rejects a ring that the pairwise scan passes | `arrange/prep_intersect.rs:388-389`, only an intersection of lines that are not adjacent counts |
| `Conversion!OrdinatesKept`, as `conversion` with `Payloads <- Empties`, `MaxWrites = 2` | `io/wkb/read.rs:217`: an empty point of a file leaves ordinates in the flat list that the writer gives to the next point | `io/wkb/mod.rs:81`, keeps SRID and Z/M data; `io/wkb/write.rs:396` |
| `PolygonValidity!GiantIsValid`, `Giants` | `structure/mod.rs:137`: above its vertex limit the gate does not ask whether a hole crosses the shell | `structure/mod.rs:57`, accepts exactly what the exit validator accepts |

Noticed while reading, and not run:

- the owned entry, and the borrowed one with `keep_collapsed`, have no
  `preserve_valid_input`, so a valid polygon that they repair may come back without
  area (`README.md` says that valid input comes back unchanged);
- `resolve_nesting` (`structure/nesting.rs:118-184`) looks at the first vertex of a
  hole only, and a vertex on another hole counts as outside: hence the last but
  one condition of `Untangled`;
- the polygonize fallback refills two holes that share an edge;
- `apply_target_crs` is applied again at every level of a collection
  (`multipolygon.rs:248`, `polygon.rs:704-715`);
- a repaired collection with two equal members is rejected by the validator
  (`validation/complex.rs:343`);
- the WKT writer writes an empty member of a MULTILINESTRING as `()`, which its
  reader refuses: hence `Sound`;
- members of MULTI geometries count as nesting in WKB and not in WKT;
- two builders of monotone chains disagree on the ring number when a hole starts
  at the shell's first vertex;
- a MultiPolygon whose shells are nested and touch at the first vertex, or cross at
  common vertices only, is accepted (`validation/complex.rs:176-281`): hence
  `ShellAloof` and `BarelyTouching`;
- on a line that retraces itself the backward walk of `reconnect`
  (`noding/line/pieces.rs:397`) stops after a piece added the other way round, and the
  line is cut at an ordinary point: hence `Overlaps` in `PathsAgree`;
- the radius test of snapping compares a square with a length
  (`arrange/prep.rs:72`).

## 6. Not modelled, and why

*Rounding.* Predicates' error margins, noding tolerances, hot pixels, snapping to
a grid or to 1e-8, the collapse of edges below one ulp (and the recursion of
`fix_polygon` that goes with it) and the SIMD kernels are functions of
floating-point numbers. A model checker cannot enumerate them, and a grid has no
ulp. The ladders take an engine's answer to be anything at all; the grid modules
take the engines to be exact. What lies between, an engine that is inexact in a
plausible way, is in neither.

*Noding of polygons* (`src/noding/` but for the line noder, `structure/sweep.rs`,
`structure/edge_split.rs`) is taken at its result: linework cut wherever it meets. How
the sweep finds the cuts, and the repeated rounds of snap rounding, are not modelled.
Of the line noder, what its tolerances do is left out: clusters within eps, pieces
that are nearly collinear, splits that cannot be placed. The chain index of
`crossing_only` is disabled in the source.

*Panics* outside the engines (index arithmetic on empty rings) are left out.
`preserve_valid_input` and the strip run outside `catch_unwind`; both are taken
not to panic.

*Input and output*: number formatting, buffering and the record formats (shapefile,
GeoPackage, GML, CSV, binary) hold no control beyond parsing. The Python and
WebAssembly bindings, the single calls of the C API, CRS and Z/M conversion, the
command line and the re-exports hold no state of interest. The counters of the
host conversion and the output policy are small and not modelled.

*The validator's list of errors*: which error comes first, and its place, are left
out; whether there is one is not.

## 7. Plan

What is left, in order of worth:

1. Theorems: that the rings `Trace` hands over enclose the labelled region, which
   `RimIsFollowed` prepares; bookkeeping of `StructureRepair` (no ring is lost between
   `shells`, `holes` and `parts`); and the part of `LineNoding` that does not rest on
   folds.
2. The composition of the polygon contract with `MultiPolygonLadder` made explicit.
3. The noding loop of polygons on an integer grid, with snap rounding as choice.
4. Output policy and host counters.
