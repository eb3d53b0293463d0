------------------------- MODULE MultiPolygonLadder -------------------------
(***************************************************************************)
(* One call of MultiPolygon::make_valid_with_config (entry "serial") or of *)
(* parallel::par_fix_multi_polygon (entry "parallel").  Every part is      *)
(* repaired by itself, which is the polygon ladder seen through its        *)
(* contract; the repaired shells are put together by overlay engines that  *)
(* may return anything or panic, through a precision ladder of their own   *)
(* and a gate that falls back rung by rung to the largest valid component. *)
(***************************************************************************)
EXTENDS RepairGeometry, Naturals

CONSTANTS Entries,    \* entry points called: a subset of {"serial", "parallel"}
          MaxParts,   \* parts of a MultiPolygon, at most
          NScales     \* rungs of the precision ladder (four in the code)

ASSUME EntriesAssumption == Entries \subseteq {"serial", "parallel"}
ASSUME MaxPartsAssumption == MaxParts \in Nat
ASSUME NScalesAssumption == NScales \in Nat \ {0}

VARIABLES call,    \* what was asked: entry and parts
          pc,      \* the stage the call is in
          shells,  \* the shells the repaired parts left
          multi,   \* the MultiPolygon in hand, and what the overlay tests say of it
          best,    \* result of the precision ladder's first rung, or Empty
          rung,    \* scales tried
          answer,  \* the geometry handed to the gate, then the answer
          panicked \* an overlay engine has panicked

vars == <<call, pc, shells, multi, best, rung, answer, panicked>>

(* A part is valid, broken, has a non-finite coordinate, or has no         *)
(* coordinates at all.                                                     *)
Part(sound, nan, short) ==
  [shape |-> [kind |-> "areal", sound |-> sound, turns |-> TRUE, wound |-> TRUE,
              nan |-> nan, src |-> "self"],
   short |-> short]

ValidPart == Part(TRUE, FALSE, FALSE)
BrokenPart == Part(FALSE, FALSE, FALSE)
NonfinitePart == Part(FALSE, TRUE, FALSE)
HollowPart == Part(TRUE, FALSE, TRUE)

Parts == {ValidPart, BrokenPart, NonfinitePart, HollowPart}

Calls == [entry : Entries, parts : UNION {[1 .. n -> Parts] : n \in 0 .. MaxParts}]

(* What the overlay tests ask of a MultiPolygon: do the boxes of two of    *)
(* its shells meet, is a vertex of one shell inside another.  One without  *)
(* components is the empty geometry.                                       *)
Arealities == {g \in EngineOutputs : g.kind # "other" /\ g.turns}

Multis == {m \in [shape : Arealities, boxes : BOOLEAN, inside : BOOLEAN] :
             m.shape.kind = "empty" => ~m.boxes /\ ~m.inside}

NoMulti == [shape |-> Empty, boxes |-> FALSE, inside |-> FALSE]

ValidAreas == {g \in Arealities : g.kind = "areal" /\ Valid(g)}

Stages == {"parts", "single", "whole", "even_odd", "merge", "filtered", "union", "snap",
           "gate", "done", "unwound"}

(***************************************************************************)
(* What the gate's last rung tells apart about a component: "good" is      *)
(* valid and has an area, "thin" is valid but its area underflows to zero, *)
(* "bad" is not valid.  Of the shells the model keeps which kinds there    *)
(* are, and whether there is one only.                                     *)
(***************************************************************************)
ShellSets == [kinds : SUBSET {"good", "thin", "bad"}, alone : BOOLEAN]

NoShells == [kinds |-> {}, alone |-> FALSE]

Init == /\ call \in Calls
        /\ pc = "parts"
        /\ shells = NoShells
        /\ multi = NoMulti
        /\ best = Empty
        /\ rung = 0
        /\ answer = Empty
        /\ panicked = FALSE

Serial == call.entry = "serial"

Goto(stage) == /\ pc' = stage
               /\ UNCHANGED <<call, shells, multi, best, rung, answer, panicked>>

Hand(stage, g) == /\ pc' = stage
                  /\ answer' = g
                  /\ UNCHANGED <<call, shells, multi, best, rung, panicked>>

(* The overlay of several shells has left nothing of them.                 *)
Vanish(stage) == /\ pc' = stage
                 /\ answer' = Empty
                 /\ multi' = NoMulti
                 /\ UNCHANGED <<call, shells, best, rung, panicked>>

(***************************************************************************)
(* The parts.  Each is repaired by Polygon::make_valid_with_config, which  *)
(* answers within its contract; what has no area is dropped.               *)
(***************************************************************************)
NoParts == /\ pc = "parts"
           /\ call.parts = <<>>
           /\ Hand("done", Empty)

SomeNonfinite == \E i \in DOMAIN call.parts : call.parts[i].shape.nan

(* The serial entry gives up on a MultiPolygon with a non-finite part.     *)
BailNonfinite == /\ pc = "parts"
                 /\ Serial
                 /\ SomeNonfinite
                 /\ Hand("done", Empty)

(* A repaired part is a Polygon, one shell, a MultiPolygon, several, or    *)
(* has no area.  An invalid one is a single polygon with its own rings.    *)
ShellsOf(part) ==
  UNION {IF g.kind # "areal" THEN {NoShells}
         ELSE IF Valid(g)
         THEN {s \in ShellSets : /\ s.kinds \in (SUBSET {"good", "thin"}) \ {{}}
                                 /\ s.alone => s.kinds # {"good", "thin"}}
         ELSE {[kinds |-> {"bad"}, alone |-> TRUE]} : g \in Allowed(part)}

(* The shells of all the parts: one alone if just one part left shells and *)
(* left a single one.                                                      *)
Gathered(left) ==
  LET some == {i \in DOMAIN left : left[i].kinds # {}}
  IN  [kinds |-> UNION {left[i].kinds : i \in some},
       alone |-> \E i \in some : some = {i} /\ left[i].alone]

RepairParts ==
  /\ pc = "parts"
  /\ call.parts # <<>>
  /\ ~(Serial /\ SomeNonfinite)
  /\ \E left \in [DOMAIN call.parts -> ShellSets] :
       /\ \A i \in DOMAIN call.parts : left[i] \in ShellsOf(call.parts[i])
       /\ shells' = Gathered(left)
  /\ pc' = IF shells'.kinds = {} THEN "done"
           ELSE IF shells'.alone THEN "single" ELSE "whole"
  /\ UNCHANGED <<call, multi, best, rung, answer, panicked>>

(* A single shell as a geometry: a valid one, or the rings of a part that  *)
(* the polygon ladder has passed on the word of the fast gate.             *)
ShellGeometries ==
  IF shells.kinds = {"bad"}
  THEN {g \in Geometries : g.kind = "areal" /\ OwnRings(g) /\ ~Valid(g)}
  ELSE ValidAreas

(* One survivor: the serial entry gates it again, having shipped a         *)
(* crossing polygon here once; the parallel one returns it.                *)
Single == /\ pc = "single"
          /\ \E g \in ShellGeometries : Hand(IF Serial THEN "gate" ELSE "done", g)

(***************************************************************************)
(* Putting the shells together.  Each is wound; together they may overlap, *)
(* nest or coincide.                                                       *)
(***************************************************************************)
WholeValid == /\ pc = "whole"
              /\ "bad" \notin shells.kinds
              /\ \E g \in ValidAreas : Hand("done", g)

WholeInvalid == /\ pc = "whole"
                /\ \E m \in Multis :
                     /\ m.shape.kind = "areal"
                     /\ m.shape.wound /\ ~m.shape.sound /\ ~m.shape.nan
                     /\ multi' = m
                     /\ pc' = IF ~Serial THEN "union"
                              ELSE IF m.boxes THEN "even_odd" ELSE "merge"
                /\ UNCHANGED <<call, shells, best, rung, answer, panicked>>

Filter(m) == /\ multi' = m
             /\ pc' = "filtered"
             /\ UNCHANGED <<call, shells, best, rung, answer, panicked>>

(* even_odd_parts: taken only when it is valid and not empty; a panic in   *)
(* it counts as no result.                                                 *)
EvenOdd == /\ pc = "even_odd"
           /\ \/ \E m \in Multis : m.shape \in ValidAreas /\ Filter(m)
              \/ Goto("merge")

(* merge_shells, whose own union is contained.                             *)
Merge == /\ pc = "merge"
         /\ \/ \E m \in Multis : m.shape.kind = "areal" /\ Filter(m)
            \/ Vanish("done")

FilteredApart == /\ pc = "filtered"
                 /\ ~multi.boxes
                 /\ Hand("gate", Wind(multi.shape))

FilteredMeeting == /\ pc = "filtered"
                   /\ multi.boxes
                   /\ Goto("union")

(* Mutant: shells with no vertex in one another are taken for valid.       *)
CertifiedByVertices(u) == ~u.inside

(* The union is certified when it is valid and no shell has a vertex in    *)
(* another; the empty MultiPolygon passes as well.                         *)
Certified(u) == Valid(u.shape) /\ ~u.inside

Ship(u) == /\ pc' = "done"
           /\ answer' = Wind(u.shape)
           /\ multi' = u
           /\ UNCHANGED <<call, shells, best, rung, panicked>>

Union == /\ pc = "union"
         /\ Serial
         /\ \E u \in Multis : IF Certified(u) THEN Ship(u) ELSE Goto("snap")

(* par_fix_multi_polygon returns the union of its shells as it comes.      *)
UnionParallel == /\ pc = "union"
                 /\ ~Serial
                 /\ \E u \in Multis : /\ pc' = "done"
                                      /\ answer' = u.shape
                                      /\ multi' = u
                                      /\ UNCHANGED <<call, shells, best, rung, panicked>>

(* The shells snapped to the scale of this rung and united again; the      *)
(* first rung's result is kept in case no rung is certified.               *)
SnapRung == /\ pc = "snap"
            /\ rung < NScales
            /\ \E u \in Multis :
                 IF Certified(u)
                 THEN Ship(u)
                 ELSE /\ best' = IF best = Empty THEN Wind(u.shape) ELSE best
                      /\ rung' = rung + 1
                      /\ UNCHANGED <<call, pc, shells, multi, answer, panicked>>

(* drop_nested_components: outermost components, wound; when these are not *)
(* valid together, what BuildArea makes of their lines, stripped and not   *)
(* wound; failing that, the components that are valid, perhaps none.       *)
Outermost(g) == {Wind(h) : h \in {h \in Arealities : h.kind = "areal" /\ (h.nan => g.nan)}}
Rebuilt == UNION {Strip(h) : h \in {h \in Arealities : h.kind = "areal" /\ ~h.nan}}

DropNested == /\ pc = "snap"
              /\ rung = NScales
              /\ \/ \E g \in Outermost(best) \cup (Rebuilt \ {Empty}) : Hand("gate", g)
                 \/ Vanish("gate")

(***************************************************************************)
(* validity_gate.                                                          *)
(***************************************************************************)
GateAccept == /\ pc = "gate"
              /\ Valid(answer)
              /\ Hand("done", answer)

(* What is neither Polygon nor MultiPolygon is passed on, valid or not.    *)
GateOther == /\ pc = "gate"
             /\ ~Valid(answer)
             /\ answer.kind = "other"
             /\ Hand("done", answer)

GateRefuses == pc = "gate" /\ ~Valid(answer) /\ answer.kind = "areal"

(* BuildArea on the lines of the refused geometry, then of the shells.     *)
GateRebuild == /\ GateRefuses
               /\ \E g \in ValidAreas : Hand("done", g)

(* The kinds among the components of the refused geometry: a single shell  *)
(* is its own only component, what an overlay made may have any.           *)
Components == IF shells.alone THEN {shells.kinds}
              ELSE (SUBSET {"good", "thin", "bad"}) \ {{}}

(* The components, or else the shells, that are valid on their own, if     *)
(* they are so together.                                                   *)
GateKeep == /\ GateRefuses
            /\ \E comps \in Components : comps \cup shells.kinds # {"bad"}
            /\ \E g \in ValidAreas : Hand("done", g)

(* Mutant: the original shells are not among the candidates.               *)
GateLargestMerged ==
  /\ GateRefuses
  /\ \E comps \in Components : \E g \in ValidAreas :
       Hand("done", IF "good" \in comps THEN g ELSE Empty)

(* The largest valid component, the original shells included; one whose    *)
(* area is zero is no larger than none.                                    *)
GateLargest ==
  /\ GateRefuses
  /\ \E comps \in Components : \E g \in ValidAreas :
       Hand("done", IF "good" \in comps \cup shells.kinds THEN g ELSE Empty)

(***************************************************************************)
(* A panic in an overlay engine.  The serial entry runs everything behind  *)
(* the parts in two catch_unwinds; the parallel one has none.              *)
(***************************************************************************)
EngineStages == {"union", "snap", "gate"}

Panic == /\ pc \in EngineStages
         /\ panicked' = TRUE
         /\ IF Serial THEN pc' = "done" /\ answer' = Empty
                      ELSE pc' = "unwound" /\ UNCHANGED answer
         /\ UNCHANGED <<call, shells, multi, best, rung>>

Next == \/ NoParts \/ BailNonfinite \/ RepairParts
        \/ Single \/ WholeValid \/ WholeInvalid
        \/ EvenOdd \/ Merge \/ FilteredApart \/ FilteredMeeting
        \/ Union \/ UnionParallel \/ SnapRung \/ DropNested
        \/ GateAccept \/ GateOther \/ GateRebuild \/ GateKeep \/ GateLargest
        \/ Panic

(* The caller waits for the call, and the call for nobody but the workers  *)
(* that repair its parts.                                                  *)
Spec == Init /\ [][Next]_vars /\ WF_vars(Next)

(***************************************************************************)
(* What the code must keep.                                                *)
(***************************************************************************)
TypeOK == /\ call \in Calls
          /\ pc \in Stages
          /\ shells \in ShellSets
          /\ multi \in Multis
          /\ best \in Arealities
          /\ rung \in 0 .. NScales
          /\ answer \in Geometries
          /\ panicked \in BOOLEAN

(* No areal answer of the serial entry is one the validator rejects,       *)
(* whichever engine, rung or gate it comes from ("No arm may ship geometry *)
(* the validator rejects").                                                *)
GatedValid == pc = "done" /\ Serial /\ answer.kind # "other" => Valid(answer)

(* The same of the parallel entry, which has no gate.                      *)
ParallelValid == pc = "done" /\ ~Serial => Valid(answer)

(* What may cost a MultiPolygon everything it holds: a panic; an overlay   *)
(* that leaves nothing of several shells (they may cancel one another);    *)
(* areas that underflow to zero.                                           *)
Unsaveable == \/ panicked
              \/ shells.kinds # {} /\ ~shells.alone /\ multi.shape.kind = "empty"
              \/ shells.kinds # {} /\ "good" \notin shells.kinds

HasValidPart == \E i \in DOMAIN call.parts : call.parts[i] = ValidPart

(* A valid part is not lost to the parts beside it nor to a bad merge: the *)
(* answer has something in it as long as one shell that came out of the    *)
(* repair is valid with an area and the overlay left anything at all,      *)
(* whatever union, rung or gate refused.                                   *)
ValidPartSurvives ==
  pc = "done" /\ answer.kind = "empty" /\ HasValidPart /\ ~(Serial /\ SomeNonfinite)
    => Unsaveable

(* "NaN/Inf are filtered, not errors": the same beside a non-finite part,  *)
(* where the valid part should at least have been looked at.               *)
NonfiniteFiltered == pc = "done" /\ HasValidPart => shells.kinds # {}
=============================================================================
