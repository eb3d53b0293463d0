---------------------- MODULE MultiPolygonLadder_proofs ----------------------
(***************************************************************************)
(* Proofs about MultiPolygonLadder, for every number of parts and rungs.   *)
(* Validity of what the serial entry ships needs no more than itself; that *)
(* a valid part survives needs to know at each stage whether the shells    *)
(* are one or several and whether the overlay has left something of them.  *)
(***************************************************************************)
EXTENDS MultiPolygonLadder, TLAPS

(* Winding a valid geometry leaves it valid and of its kind.               *)
LEMMA WindKeepsValid == \A g : Valid(g) => Valid(Wind(g)) /\ Wind(g).kind = g.kind
  BY DEF Valid, Wind

(* The empty collection is valid.                                          *)
LEMMA EmptyIsValid == Valid(Empty) /\ Empty.kind = "empty"
  BY DEF Valid, Empty

(* There is one geometry without content.                                  *)
LEMMA OnlyEmpty == \A g \in Geometries : g.kind = "empty" => g = Empty
  BY DEF Geometries, Records, Kinds, Empty

(***************************************************************************)
(* Types.                                                                  *)
(***************************************************************************)
LEMMA EmptyTyped == Empty \in Arealities /\ Empty \in Geometries /\ NoMulti \in Multis
<1>1. Empty \in EngineOutputs
  BY DEF Empty, EngineOutputs, Geometries, Records, Kinds
<1>2. Empty \in Arealities
  BY <1>1 DEF Arealities, Empty
<1> QED BY <1>1, <1>2 DEF EngineOutputs, NoMulti, Multis, Empty

(* What a union may return is a geometry.                                  *)
LEMMA ArealitiesAreGeometries == \A g \in Arealities : g \in Geometries
  BY DEF Arealities, EngineOutputs

(* A valid area is a geometry.                                             *)
LEMMA ValidAreasTyped == \A g \in ValidAreas : g \in Geometries
  BY ArealitiesAreGeometries DEF ValidAreas

(* Wound, it is still what a union may return.                             *)
LEMMA WindTyped ==
  ASSUME NEW g \in Arealities
  PROVE  Wind(g) \in Arealities /\ Wind(g) \in Geometries
<1>1. g \in Geometries /\ g.src = "engine" /\ g.kind # "other" /\ g.turns
  BY DEF Arealities, EngineOutputs
<1>2. /\ Wind(g) \in Records
      /\ Wind(g).kind = g.kind /\ Wind(g).src = g.src /\ Wind(g).turns = g.turns
      /\ Wind(g).nan = g.nan /\ Wind(g).sound = g.sound /\ Wind(g).wound
  BY <1>1 DEF Wind, Geometries, Records
<1>3. Wind(g) \in Geometries
  BY <1>1, <1>2 DEF Geometries
<1> QED BY <1>1, <1>2, <1>3 DEF Arealities, EngineOutputs

(* What drop_nested_components or the rebuild makes of it is a geometry.    *)
LEMMA NestedTyped == \A g \in Outermost(best) \cup Rebuilt : g \in Geometries
<1>1. \A g \in Outermost(best) : g \in Geometries
  BY WindTyped DEF Outermost
<1>2. Rebuilt \subseteq Geometries
  BY ArealitiesAreGeometries DEF Rebuilt, Strip
<1> QED BY <1>1, <1>2

(* The first state has its types.                                          *)
LEMMA TypeInit == Init => TypeOK
<1>1. NoShells \in ShellSets
  BY DEF NoShells, ShellSets
<1>2. 0 \in 0 .. NScales
  BY NScalesAssumption
<1> QED BY <1>1, <1>2, EmptyTyped DEF Init, TypeOK, Stages

(* Actions that only hand on a geometry keep the types.                    *)
LEMMA HandTyped ==
  ASSUME TypeOK, NEW stage \in Stages, NEW g \in Geometries, Hand(stage, g)
  PROVE  TypeOK'
  BY DEF Hand, TypeOK

(* So does an overlay that leaves nothing.                                 *)
LEMMA VanishTyped ==
  ASSUME TypeOK, NEW stage \in Stages, Vanish(stage)
  PROVE  TypeOK'
  BY EmptyTyped DEF Vanish, TypeOK

(* So does going on to another stage.                                      *)
LEMMA GotoTyped ==
  ASSUME TypeOK, NEW stage \in Stages, Goto(stage)
  PROVE  TypeOK'
  BY DEF Goto, TypeOK

(* So does shipping a union.                                               *)
LEMMA ShipTyped ==
  ASSUME TypeOK, NEW u \in Multis, Ship(u)
  PROVE  TypeOK'
<1>1. u.shape \in Arealities
  BY DEF Multis
<1>2. Wind(u.shape) \in Geometries
  BY <1>1, WindTyped
<1> QED BY <1>2 DEF Ship, TypeOK, Stages

(* The shells of the parts together are shells again.                      *)
LEMMA GatheredTyped ==
  ASSUME NEW D, NEW left \in [D -> ShellSets]
  PROVE  Gathered(left) \in ShellSets
<1> DEFINE some == {i \in DOMAIN left : left[i].kinds # {}}
           all == UNION {left[i].kinds : i \in some}
           one == \E i \in some : some = {i} /\ left[i].alone
<1>1. \A i \in D : left[i].kinds \subseteq {"good", "thin", "bad"}
  BY DEF ShellSets
<1>2. all \subseteq {"good", "thin", "bad"}
  BY <1>1
<1>3. one \in BOOLEAN
  OBVIOUS
<1>4. Gathered(left) = [kinds |-> all, alone |-> one]
  BY DEF Gathered
<1> QED BY <1>2, <1>3, <1>4 DEF ShellSets

(* A single shell is a geometry with area.                                 *)
LEMMA ShellTyped == \A g \in ShellGeometries : g \in Geometries /\ g.kind = "areal"
  BY ArealitiesAreGeometries DEF ShellGeometries, ValidAreas

(* Every step keeps the types.                                             *)
LEMMA TypeNext ==
  ASSUME TypeOK, [Next]_vars
  PROVE  TypeOK'
<1>s. /\ "done" \in Stages /\ "gate" \in Stages /\ "union" \in Stages /\ "merge" \in Stages
      /\ "snap" \in Stages /\ "unwound" \in Stages /\ "filtered" \in Stages
  BY DEF Stages
<1>m. \A m \in Multis : m.shape \in Arealities
  BY DEF Multis
<1>f. ASSUME NEW m \in Multis, Filter(m) PROVE TypeOK'
  BY <1>s, <1>f DEF Filter, TypeOK
<1>1. CASE NoParts \/ BailNonfinite
  BY <1>1, <1>s, EmptyTyped, HandTyped DEF NoParts, BailNonfinite
<1>2. CASE RepairParts
  <2>1. shells' \in ShellSets
    BY <1>2, GatheredTyped DEF RepairParts
  <2>2. pc' \in Stages
    BY <1>2 DEF RepairParts, Stages
  <2> QED BY <1>2, <2>1, <2>2 DEF RepairParts, TypeOK
<1>3. CASE Single \/ WholeValid \/ GateRebuild \/ GateKeep
  BY <1>3, <1>s, ValidAreasTyped, ShellTyped, HandTyped
     DEF Single, WholeValid, GateRebuild, GateKeep
<1>4. CASE WholeInvalid
  BY <1>4 DEF WholeInvalid, TypeOK, Stages
<1>5. CASE EvenOdd \/ Merge
  BY <1>5, <1>f, <1>s, GotoTyped, VanishTyped DEF EvenOdd, Merge
<1>6. CASE FilteredApart \/ FilteredMeeting
  BY <1>6, <1>s, <1>m, WindTyped, HandTyped, GotoTyped DEF FilteredApart, FilteredMeeting, TypeOK
<1>7. CASE Union
  BY <1>7, <1>s, ShipTyped, GotoTyped DEF Union
<1>8. CASE UnionParallel
  BY <1>8, <1>s, <1>m, ArealitiesAreGeometries DEF UnionParallel, TypeOK
<1>9. CASE SnapRung
  <2>1. PICK u \in Multis :
          IF Certified(u)
          THEN Ship(u)
          ELSE /\ best' = IF best = Empty THEN Wind(u.shape) ELSE best
               /\ rung' = rung + 1
               /\ UNCHANGED <<call, pc, shells, multi, answer, panicked>>
    BY <1>9 DEF SnapRung
  <2>2. CASE Certified(u)
    BY <2>1, <2>2, ShipTyped
  <2>3. CASE ~Certified(u)
    <3>1. best' \in Arealities
      BY <1>m, <2>1, <2>3, WindTyped DEF TypeOK
    <3>2. rung' \in 0 .. NScales
      BY <1>9, <2>1, <2>3, NScalesAssumption DEF SnapRung, TypeOK
    <3> QED BY <2>1, <2>3, <3>1, <3>2 DEF TypeOK
  <2> QED BY <2>2, <2>3
<1>10. CASE DropNested
  BY <1>10, <1>s, NestedTyped, HandTyped, VanishTyped DEF DropNested
<1>11. CASE GateAccept \/ GateOther
  BY <1>11, <1>s, HandTyped DEF GateAccept, GateOther, TypeOK
<1>12. CASE GateLargest
  <2>1. PICK g \in Geometries : Hand("done", g)
    BY <1>12, ValidAreasTyped, EmptyTyped DEF GateLargest
  <2> QED BY <2>1, <1>s, HandTyped
<1>13. CASE Panic
  BY <1>13, <1>s, EmptyTyped DEF Panic, TypeOK
<1>14. CASE UNCHANGED vars
  BY <1>14 DEF vars, TypeOK
<1> QED
  BY <1>1, <1>2, <1>3, <1>4, <1>5, <1>6, <1>7, <1>8, <1>9, <1>10, <1>11, <1>12,
     <1>13, <1>14 DEF Next

(* Every variable keeps its type: the rungs tried never outnumber the      *)
(* scales, and what the ladder keeps as its best result is the geometry of *)
(* a MultiPolygon.                                                         *)
THEOREM MultiTyped == Spec => []TypeOK
<1>1. TypeOK /\ [Next]_vars => TypeOK'
  BY TypeNext
<1> QED BY TypeInit, <1>1, PTL DEF Spec

(***************************************************************************)
(* The answer is gated.                                                    *)
(***************************************************************************)
Gated == GatedValid /\ (pc = "parts" => answer = Empty)

(* Nothing has been answered at first.                                     *)
LEMMA GatedInit == Init => Gated
  BY DEF Init, Gated, GatedValid

(* No step of the serial entry ships an invalid area.                      *)
LEMMA GatedNext ==
  ASSUME Gated, [Next]_vars
  PROVE  Gated'
<1> USE DEF Gated, GatedValid, Serial
<1>1. CASE NoParts \/ BailNonfinite
  BY <1>1, EmptyIsValid DEF NoParts, BailNonfinite, Hand
<1>2. CASE RepairParts
  BY <1>2, EmptyIsValid DEF RepairParts
<1>3. CASE Single \/ WholeValid \/ GateRebuild \/ GateKeep
  BY <1>3 DEF Single, WholeValid, GateRebuild, GateKeep, ValidAreas, Hand
<1>4. CASE WholeInvalid \/ EvenOdd
  BY <1>4 DEF WholeInvalid, EvenOdd, Filter, Goto
<1>5. CASE Merge
  BY <1>5, EmptyIsValid DEF Merge, Filter, Vanish
<1>6. CASE FilteredApart \/ FilteredMeeting
  BY <1>6 DEF FilteredApart, FilteredMeeting, Hand, Goto
<1>7. ASSUME NEW u \in Multis, Certified(u), Ship(u)
      PROVE  Gated'
  BY <1>7, WindKeepsValid DEF Ship, Certified
<1>8. CASE Union
  BY <1>7, <1>8 DEF Union, Goto
<1>9. CASE UnionParallel
  BY <1>9 DEF UnionParallel
<1>10. CASE SnapRung
  BY <1>7, <1>10 DEF SnapRung
<1>11. CASE DropNested
  BY <1>11 DEF DropNested, Hand, Vanish
<1>12. CASE GateAccept \/ GateOther
  BY <1>12 DEF GateAccept, GateOther, Hand
<1>13. CASE GateLargest
  BY <1>13, EmptyIsValid DEF GateLargest, ValidAreas, Hand
<1>14. CASE Panic
  BY <1>14, EmptyIsValid DEF Panic
<1>15. CASE UNCHANGED vars
  BY <1>15 DEF vars
<1> QED
  BY <1>1, <1>2, <1>3, <1>4, <1>5, <1>6, <1>8, <1>9, <1>10, <1>11, <1>12, <1>13,
     <1>14, <1>15 DEF Next

(* No areal answer of the serial entry is one the validator rejects        *)
(* (make_valid/multipolygon.rs, validity_gate and the certified unions).   *)
THEOREM SerialGated == Spec => []GatedValid
<1>1. Gated /\ [Next]_vars => Gated'
  BY GatedNext
<1>2. Gated => GatedValid
  BY DEF Gated
<1> QED BY GatedInit, <1>1, <1>2, PTL DEF Spec

(***************************************************************************)
(* A valid part survives.                                                  *)
(***************************************************************************)

(* Whether the shells are one or several decides the stages the call goes  *)
(* through; where several are put together, what is in hand has components *)
(* until an overlay leaves nothing.                                        *)
InHand ==
  /\ pc = "single" => shells.kinds # {}
  /\ pc \in {"whole", "even_odd", "merge", "filtered", "union", "snap"}
       => shells.kinds # {} /\ ~shells.alone
  /\ pc = "filtered" => multi.shape.kind = "areal"
  /\ pc = "gate" => shells.kinds # {}
  /\ pc = "gate" /\ answer.kind = "empty"
       => ~shells.alone /\ multi.shape.kind = "empty"
  /\ ValidPartSurvives

(* A valid part has a shell.                                               *)
LEMMA ValidPartLeavesShells ==
  ASSUME NEW part, part = ValidPart
  PROVE  \A s \in ShellsOf(part) : s.kinds # {}
<1>1. Valid(part.shape) /\ ~part.short
  BY DEF ValidPart, Part, Valid
<1>2. \A g \in Allowed(part) : g.kind = "areal"
  BY <1>1 DEF Allowed
<1> QED BY <1>2 DEF ShellsOf

(* So one of the parts' shells is in hand.                                 *)
LEMMA GatheredShells ==
  ASSUME NEW left, NEW i \in DOMAIN left, left[i].kinds # {}
  PROVE  Gathered(left).kinds # {}
<1> DEFINE some == {j \in DOMAIN left : left[j].kinds # {}}
           all == UNION {left[j].kinds : j \in some}
           one == \E j \in some : some = {j} /\ left[j].alone
<1>1. i \in some /\ left[i].kinds \subseteq all
  OBVIOUS
<1>2. Gathered(left) = [kinds |-> all, alone |-> one]
  BY DEF Gathered
<1>3. Gathered(left).kinds = all
  BY <1>2
<1> QED BY <1>1, <1>3

(* No step lets go of a shell that is valid and has an area, but for a     *)
(* panic or an overlay that leaves nothing.                                *)
LEMMA InHandNext ==
  ASSUME InHand, [Next]_vars
  PROVE  InHand'
<1> USE DEF InHand, ValidPartSurvives, Unsaveable, HasValidPart, Serial, SomeNonfinite
<1>1. CASE NoParts
  <2>1. ~HasValidPart
    BY <1>1 DEF NoParts
  <2> QED BY <1>1, <2>1 DEF NoParts, Hand
<1>2. CASE BailNonfinite
  BY <1>2 DEF BailNonfinite, Hand
<1>3. CASE RepairParts
  <2>1. PICK left \in [DOMAIN call.parts -> ShellSets] :
          /\ \A i \in DOMAIN call.parts : left[i] \in ShellsOf(call.parts[i])
          /\ shells' = Gathered(left)
    BY <1>3 DEF RepairParts
  <2>2. ASSUME HasValidPart PROVE shells'.kinds # {}
    <3>1. PICK i \in DOMAIN call.parts : call.parts[i] = ValidPart
      BY <2>2
    <3>2. i \in DOMAIN left /\ left[i].kinds # {}
      BY <2>1, <3>1, ValidPartLeavesShells
    <3> QED BY <2>1, <3>2, GatheredShells
  <2>3. CASE shells'.kinds = {}
    BY <1>3, <2>2, <2>3 DEF RepairParts
  <2>4. CASE shells'.kinds # {}
    BY <1>3, <2>4 DEF RepairParts
  <2> QED BY <2>3, <2>4
<1>4. CASE Single
  BY <1>4, ShellTyped DEF Single, Hand
<1>5. CASE WholeValid \/ GateRebuild \/ GateKeep
  BY <1>5 DEF WholeValid, GateRebuild, GateKeep, ValidAreas, Hand
<1>6. CASE WholeInvalid
  BY <1>6 DEF WholeInvalid
<1>7. CASE EvenOdd \/ Merge
  BY <1>7 DEF EvenOdd, Merge, Filter, ValidAreas, Goto, Vanish, NoMulti, Empty
<1>8. CASE FilteredApart \/ FilteredMeeting
  <2>1. Wind(multi.shape).kind = multi.shape.kind
    BY DEF Wind
  <2> QED BY <1>8, <2>1 DEF FilteredApart, FilteredMeeting, Hand, Goto
<1>9. ASSUME NEW u \in Multis, Ship(u), pc \in {"union", "snap"}
      PROVE  InHand'
  <2>1. Wind(u.shape).kind = u.shape.kind
    BY DEF Wind
  <2> QED BY <1>9, <2>1 DEF Ship
<1>10. CASE Union
  BY <1>9, <1>10 DEF Union, Goto
<1>11. CASE UnionParallel
  BY <1>11 DEF UnionParallel
<1>12. CASE SnapRung
  BY <1>9, <1>12 DEF SnapRung
<1>13. CASE DropNested
  <2>1. \A g \in Outermost(best) \cup (Rebuilt \ {Empty}) : g.kind # "empty"
    <3>1. \A g \in Outermost(best) : g.kind # "empty"
      BY DEF Outermost, Wind, Arealities, EngineOutputs, Geometries, Records
    <3>2. Rebuilt \subseteq Geometries
      BY DEF Rebuilt, Strip, Arealities, EngineOutputs
    <3> QED BY <3>1, <3>2, OnlyEmpty
  <2>2. CASE Vanish("gate")
    BY <1>13, <2>2 DEF DropNested, Vanish, NoMulti, Empty
  <2>3. ASSUME NEW g \in Outermost(best) \cup (Rebuilt \ {Empty}), Hand("gate", g)
        PROVE  InHand'
    BY <1>13, <2>1, <2>3 DEF DropNested, Hand
  <2> QED BY <1>13, <2>2, <2>3 DEF DropNested
<1>14. CASE GateAccept \/ GateOther
  BY <1>14 DEF GateAccept, GateOther, Hand
<1>15. CASE GateLargest
  BY <1>15 DEF GateLargest, GateRefuses, ValidAreas, Hand
<1>16. CASE Panic
  BY <1>16 DEF Panic
<1>17. CASE UNCHANGED vars
  BY <1>17 DEF vars
<1> QED
  BY <1>1, <1>2, <1>3, <1>4, <1>5, <1>6, <1>7, <1>8, <1>10, <1>11, <1>12, <1>13,
     <1>14, <1>15, <1>16, <1>17 DEF Next

(* A valid part is answered by something that is not empty, whatever lies  *)
(* beside it and whatever rung refuses it, unless an overlay engine        *)
(* panics or leaves nothing of several shells, or every area underflows.   *)
THEOREM ValidPartsSurvive == Spec => []ValidPartSurvives
<1>1. Init => InHand
  BY DEF Init, InHand, ValidPartSurvives
<1>2. InHand /\ [Next]_vars => InHand'
  BY InHandNext
<1>3. InHand => ValidPartSurvives
  BY DEF InHand
<1> QED BY <1>1, <1>2, <1>3, PTL DEF Spec
=============================================================================
