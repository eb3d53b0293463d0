---------------------------- MODULE PolygonEngines ----------------------------
(***************************************************************************)
(* The two engines behind one polygon (make_valid/polygon.rs): the ladder  *)
(* starts with either; the structure engine hands a polygon over when a    *)
(* hole crosses its shell or no ring of it can be repaired.                *)
(***************************************************************************)
EXTENDS StructureRepair

VARIABLES stage, direct, walls, labels, loose, comps, answer

A == INSTANCE ArrangeRepair

arrangeVars == <<stage, direct, walls, labels, loose, comps, answer>>

engineVars == <<vars, arrangeVars>>

EngineInit == Init /\ A!Init /\ direct = FALSE

Structure == stage = "idle" /\ Next /\ UNCHANGED arrangeVars

(* PolyMethod Arrange, or an answer of the structure engine that the       *)
(* ladder does not take.                                                   *)
ArrangeChain ==
  /\ \/ pc = "single" /\ ~big
     \/ pc = "unconsumed"
  /\ pc' = "chained" /\ UNCHANGED <<poly, big, remaining, area, guard, shells, holes, parts, exact, result>>
  /\ UNCHANGED arrangeVars

(* fallback_polygon_fix, as the structure engine's answer.                 *)
HandOver ==
  /\ pc = "arrange"
  /\ pc' = "chained" /\ UNCHANGED <<poly, big, remaining, area, guard, shells, holes, parts, exact, result>>
  /\ direct' = TRUE /\ UNCHANGED <<stage, walls, labels, loose, comps, answer>>

Arrange ==
  /\ pc = "chained" /\ A!Next
  /\ UNCHANGED <<pc, big, remaining, area, guard, shells, holes, parts, exact, result>>

EngineNext == Structure \/ ArrangeChain \/ HandOver \/ Arrange

EngineSpec == EngineInit /\ [][EngineNext]_engineVars

(* The labels of the triangulation: see ArrangeRepair.                     *)
LabelsAlternate == A!LabelsAlternate

(* The region of the triangulation: see ArrangeRepair.                     *)
ArrangedEvenOdd == A!ArrangedEvenOdd
=============================================================================
