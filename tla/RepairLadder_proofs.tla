------------------------- MODULE RepairLadder_proofs -------------------------
(***************************************************************************)
(* Proofs about RepairLadder, for every choice of entries, methods, keep   *)
(* flags and ladder length.  Lemmas about the geometry operators come      *)
(* first, so that the action proofs never look inside a geometry; then     *)
(* type correctness, the inductive invariant, and the guarantees it gives. *)
(***************************************************************************)
EXTENDS RepairLadder, TLAPS

(***************************************************************************)
(* The geometry operators.                                                 *)
(***************************************************************************)

(* The empty collection is a valid geometry: finite, wound, not areal.     *)
LEMMA EmptyFacts == /\ Empty \in Geometries
                    /\ Valid(Empty)
                    /\ ~Empty.nan
                    /\ Empty.wound
                    /\ Empty.kind = "empty"
BY DEF Empty, Geometries, Records, Kinds, Valid

(* enforce_ogc_winding changes the winding and nothing else.               *)
LEMMA WindFacts ==
  ASSUME NEW g \in Geometries
  PROVE  /\ Wind(g) \in Geometries
         /\ Wind(g).wound
         /\ Wind(g).nan = g.nan
         /\ Wind(g).kind = g.kind
         /\ Wind(g).src = g.src
         /\ Valid(g) => Wind(g) = g
         /\ Wind(g).turns = g.turns
BY DEF Wind, Geometries, Records, Valid

(* A valid geometry is finite and wound.                                   *)
LEMMA ValidFacts ==
  ASSUME NEW g \in Geometries, Valid(g)
  PROVE  ~g.nan /\ g.wound
BY DEF Geometries, Records, Valid

(* strip_degenerate never adds a non-finite coordinate or a wrong winding, *)
(* hands a valid geometry through, and of own rings leaves own rings or    *)
(* something valid.                                                        *)
LEMMA StripFacts ==
  ASSUME NEW g \in Geometries, NEW h \in Strip(g)
  PROVE  /\ h \in Geometries
         /\ h.nan => g.nan
         /\ g.wound => h.wound
         /\ Valid(g) => h = g
         /\ OwnRings(g) => OwnRings(h) \/ Valid(h)
<1>1. CASE g.kind # "areal" \/ Valid(g)
  BY <1>1 DEF Strip
<1>2. CASE ~(g.kind # "areal" \/ Valid(g))
  BY <1>2 DEF Strip, OwnRings, Valid, Geometries, Records
<1> QED BY <1>1, <1>2

(* Whatever an engine returns is a geometry.                               *)
LEMMA EngineFacts == \A g \in EngineOutputs : g \in Geometries
BY DEF EngineOutputs

(* A polygon's geometry, and what the cheap scans say of it.               *)
LEMMA PolygonFacts ==
  ASSUME NEW p \in Polygons
  PROVE  /\ p.shape \in Geometries
         /\ p.shape.kind = "areal"
         /\ p.gate => ~p.shape.nan
         /\ p.shape.src = "self"
         /\ p.flat => ~Valid(p.shape)
         /\ [p EXCEPT !.shape = Wind(@)].shape = Wind(p.shape)
BY DEF Polygons, Valid

(* Re-winding a polygon gives a polygon.                                   *)
LEMMA RewoundPolygon ==
  ASSUME NEW p \in Polygons
  PROVE  [p EXCEPT !.shape = Wind(@)] \in Polygons
<1>1. p.shape \in Geometries /\ p.shape.kind = "areal" /\ p.shape.src = "self"
  BY DEF Polygons
<1>2. /\ Wind(p.shape) \in Geometries
      /\ Wind(p.shape).kind = "areal"
      /\ Wind(p.shape).src = "self"
      /\ Wind(p.shape).nan = p.shape.nan
      /\ Wind(p.shape).wound
  BY <1>1, WindFacts
<1>3. Wind(p.shape).sound = p.shape.sound /\ Wind(p.shape).turns = p.shape.turns
  BY <1>1 DEF Wind, Geometries, Records
<1> QED BY <1>1, <1>2, <1>3 DEF Polygons

(* The rebuild behind the NaN filter gives a polygon, a valid one as it is. *)
LEMMA CleanedFacts ==
  ASSUME NEW p \in Polygons, NEW c \in Cleaned(p)
  PROVE  c \in Polygons /\ (Valid(p.shape) => c = p)
BY DEF Cleaned

(* A collapsed ring kept as a line is finite; without keep_collapsed       *)
(* nothing changes.                                                        *)
LEMMA CollapseFacts ==
  ASSUME NEW g \in Geometries, NEW h \in Collapse(g)
  PROVE  /\ h \in Geometries
         /\ h.nan => g.nan
         /\ g.wound => h.wound
         /\ ~call.keep => h = g
         /\ g.kind = "areal" => h = g
         /\ Valid(call.input.shape) => h = g
<1>1. CASE call.keep /\ g.kind = "empty" /\ ~Valid(call.input.shape)
  BY <1>1 DEF Collapse, EngineOutputs, Geometries, Records
<1>2. CASE ~(call.keep /\ g.kind = "empty" /\ ~Valid(call.input.shape))
  BY <1>2 DEF Collapse
<1> QED BY <1>1, <1>2

(* preserve_valid_input answers with its argument or with a valid input,   *)
(* and never loses the area of the latter.                                 *)
LEMMA PreserveFacts ==
  ASSUME NEW g \in Geometries, call.input \in Polygons
  PROVE  /\ Preserve(g) \in Geometries
         /\ Preserve(g).nan => g.nan
         /\ g.wound => Preserve(g).wound
         /\ Valid(g) => Valid(Preserve(g))
         /\ Valid(call.input.shape) => Preserve(g).kind = "areal"
         /\ g.kind = "areal" => Preserve(g) = g
<1>1. call.input.shape \in Geometries /\ call.input.shape.kind = "areal"
  BY PolygonFacts
<1>2. Valid(call.input.shape) => ~call.input.shape.nan /\ call.input.shape.wound
  BY <1>1, ValidFacts
<1> QED BY <1>1, <1>2 DEF Preserve

(***************************************************************************)
(* Type correctness.                                                       *)
(***************************************************************************)

(* The first state has its types.                                          *)
LEMMA InitTypeOK == Init => TypeOK
<1> SUFFICES ASSUME Init PROVE TypeOK
  OBVIOUS
<1>1. call \in Calls /\ poly = call.input
  BY DEF Init
<1>2. poly \in Polygons
  BY <1>1 DEF Calls
<1>3. 0 \in 0 .. NScales
  BY NScalesAssumption
<1>4. geom \in Geometries
  BY EmptyFacts DEF Init
<1>5. /\ pc \in Stages /\ route \in {"clean", "rebuilt"}
      /\ guarded \in BOOLEAN /\ cert \in BOOLEAN /\ rung = 0
  BY DEF Init, Stages
<1> QED BY <1>1, <1>2, <1>3, <1>4, <1>5 DEF TypeOK

(* A step that goes to a known stage, or hands on a geometry, keeps the    *)
(* types.                                                                  *)
LEMMA GotoTypeOK ==
  ASSUME TypeOK, NEW stage \in Stages, Goto(stage)
  PROVE  TypeOK'
BY DEF TypeOK, Goto

(* Handing a geometry to another stage keeps the types.                    *)
LEMMA HandTypeOK ==
  ASSUME TypeOK, NEW stage \in Stages, NEW g \in Geometries, NEW c \in BOOLEAN,
         Hand(stage, g, c)
  PROVE  TypeOK'
BY DEF TypeOK, Hand

(* Every step keeps the types.                                             *)
LEMMA StepTypeOK == TypeOK /\ [Next]_vars => TypeOK'
<1> SUFFICES ASSUME TypeOK, [Next]_vars PROVE TypeOK'
  OBVIOUS
<1> DEFINE p == poly
           w == Wind(poly.shape)
<1>a. /\ poly \in Polygons /\ poly.shape \in Geometries
      /\ w \in Geometries
      /\ geom \in Geometries /\ Wind(geom) \in Geometries
      /\ Empty \in Geometries
      /\ cert \in BOOLEAN
  BY PolygonFacts, WindFacts, EmptyFacts DEF TypeOK
<1>b. call.input \in Polygons /\ call.input.shape \in Geometries
  BY PolygonFacts DEF TypeOK, Calls
<1>1. CASE EntryDegenerate \/ EntryShort
  BY <1>1, <1>a, HandTypeOK DEF EntryDegenerate, EntryShort, Stages
<1>2. CASE DispatchArrange \/ ChainArrange \/ GateReject
  BY <1>2, GotoTypeOK DEF DispatchArrange, ChainArrange, GateReject, Stages
<1>3. CASE EntryClean \/ EntryRebuild
  BY <1>3 DEF EntryClean, EntryRebuild, TypeOK, Stages
<1>4. CASE RebuildClose
  BY <1>4, <1>b, CleanedFacts DEF RebuildClose, TypeOK, Stages
<1>5. CASE RebuildTooFew
  <2>1. PICK g \in {Empty} \cup SimpleParts : Hand("done", g, FALSE)
    BY <1>5 DEF RebuildTooFew
  <2>2. g \in Geometries
    BY <1>a, EngineFacts DEF SimpleParts
  <2> QED BY <2>1, <2>2, HandTypeOK DEF Stages
<1>6. CASE FastCertified
  <2>1. CASE OwnedStructure
    BY <1>6, <2>1, <1>a, HandTypeOK DEF FastCertified, Stages
  <2>2. CASE ~OwnedStructure
    BY <1>6, <2>2, <1>a, HandTypeOK DEF FastCertified, Stages
  <2> QED BY <2>1, <2>2
<1>7. CASE FastRejected
  <2>1. [poly EXCEPT !.shape = Wind(@)] \in Polygons
    BY <1>a, RewoundPolygon
  <2>2. poly' \in Polygons
    BY <1>7, <2>1, <1>a DEF FastRejected
  <2> QED BY <1>7, <2>2 DEF FastRejected, TypeOK, Stages
<1>8. CASE DispatchStructure
  BY <1>8, GotoTypeOK DEF DispatchStructure, Stages
<1>9. CASE Precondition \/ Crossing \/ Shells
  <2>1. ASSUME NEW g \in EngineOutputs, Hand("gate", g, FALSE) PROVE TypeOK'
    BY <2>1, EngineFacts, HandTypeOK DEF Stages
  <2>2. ASSUME Goto("chain") \/ Goto("shells") PROVE TypeOK'
    BY <2>2, GotoTypeOK DEF Stages
  <2> QED BY <1>9, <2>1, <2>2 DEF Precondition, Crossing, Shells
<1>10. CASE SinglePass
  <2>1. CASE Goto("crossing")
    BY <2>1, GotoTypeOK DEF Stages
  <2>2. ASSUME NEW g \in EngineOutputs, Hand("gate", Wind(g), FALSE) PROVE TypeOK'
    BY <2>2, EngineFacts, WindFacts, HandTypeOK DEF Stages
  <2> QED BY <1>10, <2>1, <2>2 DEF SinglePass
<1>11. CASE GatePass \/ GateSkipped
  BY <1>11, <1>a, HandTypeOK DEF GatePass, GateSkipped, Stages
<1>12. CASE ChainFast \/ ChainValid
  BY <1>12, <1>a, HandTypeOK DEF ChainFast, ChainValid, Stages
<1>13. CASE Arrange
  <2>1. PICK g \in EngineOutputs \cup {poly.shape} :
               IF Valid(Wind(g)) THEN Hand("finish", Wind(g), FALSE) ELSE Goto("reduce")
    BY <1>13 DEF Arrange
  <2>2. Wind(g) \in Geometries
    BY <1>a, EngineFacts, WindFacts
  <2> QED BY <2>1, <2>2, HandTypeOK, GotoTypeOK DEF Stages
<1>14. CASE ReduceRung
  <2>1. PICK s \in Snapped : geom' = s /\ pc' = IF Valid(s) THEN "finish" ELSE "reduce"
    BY <1>14 DEF ReduceRung
  <2>2. geom' \in Geometries /\ pc' \in Stages
    BY <2>1, EngineFacts DEF Snapped, Stages
  <2>3. rung' \in 0 .. NScales
    BY <1>14, NScalesAssumption DEF ReduceRung, TypeOK
  <2> QED BY <1>14, <2>2, <2>3 DEF ReduceRung, TypeOK
<1>15. CASE ReduceLast
  <2> DEFINE g == IF Valid(Wind(geom)) THEN Wind(geom) ELSE Empty
  <2>1. g \in Geometries
    BY <1>a
  <2>2. Hand("finish", g, FALSE)
    BY <1>15 DEF ReduceLast
  <2> QED BY <2>1, <2>2, HandTypeOK DEF Stages
<1>16. CASE FinishBorrowed \/ FinishOwned
  BY <1>16, <1>a, HandTypeOK, GotoTypeOK DEF FinishBorrowed, FinishOwned, Stages
<1>17. CASE Panic
  BY <1>17, <1>a, HandTypeOK, GotoTypeOK DEF Panic, Stages
<1>18. CASE TailBorrowedClean \/ TailBorrowedRebuilt \/ TailOwned
  <2>1. \A g \in Strip(geom) \cup {geom} : g \in Geometries
    BY <1>a, StripFacts
  <2>2. \A g \in Geometries : \A h \in Collapse(g) \cup {g} :
          h \in Geometries /\ Preserve(h) \in Geometries
    BY <1>b, CollapseFacts, PreserveFacts
  <2>3. PICK h \in Geometries : Hand("done", h, cert)
    <3>1. CASE TailBorrowedClean
      BY <2>1, <2>2, <3>1 DEF TailBorrowedClean
    <3>2. CASE TailBorrowedRebuilt
      BY <2>1, <2>2, <3>2 DEF TailBorrowedRebuilt
    <3>3. CASE TailOwned
      BY <2>1, <2>2, <3>3 DEF TailOwned
    <3> QED BY <1>18, <3>1, <3>2, <3>3
  <2> QED BY <2>3, <1>a, HandTypeOK DEF Stages
<1>19. CASE UNCHANGED vars
  BY <1>19 DEF vars, TypeOK
<1> QED
  BY <1>1, <1>2, <1>3, <1>4, <1>5, <1>6, <1>7, <1>8, <1>9, <1>10, <1>11, <1>12,
     <1>13, <1>14, <1>15, <1>16, <1>17, <1>18, <1>19 DEF Next

(* Every variable keeps its type in every state of every call.             *)
THEOREM TypeCorrect == Spec => []TypeOK
BY InitTypeOK, StepTypeOK, PTL DEF Spec

(***************************************************************************)
(* The inductive invariant.  The guarantees speak of answers; what makes   *)
(* them hold is what every stage hands to the next, so each part follows   *)
(* the geometry from the dispatch arms through the finish to the tail.     *)
(***************************************************************************)

(* What the geometry in hand may be once an arm has gated it: valid, or    *)
(* the rings of a rejected polygon the fast gate has passed.               *)
Backed == \/ Valid(geom)
          \/ /\ cert /\ OwnRings(geom)
             /\ poly.gate /\ ~poly.extreme /\ ~Valid(poly.shape)

(* The has_nan check at the finish is skipped for certified results only.  *)
FiniteInv == /\ pc = "finish" /\ cert => ~geom.nan
             /\ pc = "tail" => ~geom.nan
             /\ FiniteAnswers

(* Only the owned finish receives a geometry that is not wound yet.        *)
WoundInv == /\ pc = "finish" /\ (cert \/ call.entry = "borrowed") => geom.wound
            /\ pc = "tail" => geom.wound
            /\ WindingNormalised

(* Every arm but the owned Structure arm hands over gated geometry, and    *)
(* the tail can undo that only where a collapsed ring is kept.             *)
GatedInv == ~OwnedStructure /\ (pc \in {"finish", "tail"} \/ (pc = "done" /\ ~call.keep))
              => Backed

(* The rebuild and the re-winding leave a valid polygon as it was.         *)
PolyInv == Valid(call.input.shape) => Valid(poly.shape)

(* Without keep_collapsed the rebuild sees non-finite polygons only, so    *)
(* the route without the net never carries a valid input.                  *)
RebuiltInv == (pc = "rebuild" \/ route = "rebuilt") /\ ~call.keep
                => ~Valid(call.input.shape)

(* The borrowed entry keeps the area of valid input.                       *)
KeptInv == call.entry = "borrowed" /\ ~call.keep => ValidInputKept

(* A certified result is the polygon under repair, passed by the validator *)
(* or the gate.                                                            *)
CertifiedInv == ~OwnedStructure => CertifiedIsInput

IInv == /\ TypeOK
        /\ FiniteInv
        /\ WoundInv
        /\ GatedInv
        /\ PolyInv
        /\ RebuiltInv
        /\ KeptInv
        /\ CertifiedInv

(* The invariant holds at first.                                           *)
LEMMA InitIInv == Init => IInv
<1> SUFFICES ASSUME Init PROVE IInv
  OBVIOUS
<1>1. TypeOK
  BY InitTypeOK
<1>2. pc = "entry" /\ route = "clean" /\ poly = call.input
  BY DEF Init
<1> QED
  BY <1>1, <1>2 DEF IInv, FiniteInv, FiniteAnswers, WoundInv, WindingNormalised,
     GatedInv, PolyInv, RebuiltInv, KeptInv, ValidInputKept, CertifiedInv,
     CertifiedIsInput

(* Gated geometry is finite and wound.                                     *)
LEMMA BackedFacts ==
  ASSUME geom \in Geometries, Backed
  PROVE  ~geom.nan /\ geom.wound
BY ValidFacts DEF Backed, OwnRings

(* A polygon the gate passed at ordinary magnitudes, or one that is valid  *)
(* once wound, backs its own rings.                                        *)
LEMMA OwnPolygon ==
  ASSUME NEW p \in Polygons, p.shape.turns,
         Valid(Wind(p.shape)) \/ (p.gate /\ ~p.extreme)
  PROVE  /\ OwnRings(Wind(p.shape))
         /\ Valid(p.shape) => Valid(Wind(p.shape))
<1>1. p.shape \in Geometries /\ p.shape.src = "self" /\ (p.gate => ~p.shape.nan)
  BY PolygonFacts
<1>2. Valid(Wind(p.shape)) => ~Wind(p.shape).nan
  BY <1>1, WindFacts, ValidFacts
<1> QED BY <1>1, <1>2, WindFacts DEF OwnRings

(* What a step owes the invariant, by the stage it leads to.               *)

(* A step to a stage where nothing is answered yet keeps the invariant.    *)
LEMMA QuietStep ==
  ASSUME IInv, TypeOK', UNCHANGED <<call, route>>,
         Valid(call.input.shape) => Valid(poly'.shape),
         pc' \in {"dispatch", "precondition", "single_pass", "crossing", "shells",
                  "gate", "chain", "arrange", "reduce", "unwound"}
  PROVE  IInv'
BY DEF IInv, FiniteInv, FiniteAnswers, WoundInv, WindingNormalised, GatedInv, PolyInv,
   RebuiltInv, KeptInv, ValidInputKept, CertifiedInv, CertifiedIsInput, OwnedStructure

(* So does one that finishes with gated geometry, or with any in the owned *)
(* Structure arm.                                                          *)
LEMMA FinishStep ==
  ASSUME IInv, TypeOK', UNCHANGED <<call, route, poly>>,
         pc' = "finish",
         Backed' \/ (OwnedStructure /\ ~cert'),
         cert' => /\ geom' = Wind(poly.shape)
                  /\ OwnRings(geom')
                  /\ Valid(geom') \/ (poly.gate /\ ~poly.extreme)
  PROVE  IInv'
<1>1. Backed' => ~geom'.nan /\ geom'.wound
  BY ValidFacts DEF TypeOK, Backed, OwnRings
<1> QED
  BY <1>1 DEF IInv, FiniteInv, FiniteAnswers, WoundInv, WindingNormalised, GatedInv,
     PolyInv, RebuiltInv, KeptInv, ValidInputKept, CertifiedInv, CertifiedIsInput,
     OwnedStructure

(* So does one that hands finite, wound and gated geometry to the tail.    *)
LEMMA TailStep ==
  ASSUME IInv, TypeOK', UNCHANGED <<call, route, poly>>,
         pc' = "tail",
         ~geom'.nan,
         geom'.wound,
         ~OwnedStructure => Backed',
         ~OwnedStructure /\ cert'
           => /\ geom' = Wind(poly.shape)
              /\ OwnRings(geom')
              /\ Valid(geom') \/ (poly.gate /\ ~poly.extreme)
  PROVE  IInv'
BY DEF IInv, FiniteInv, FiniteAnswers, WoundInv, WindingNormalised, GatedInv, PolyInv,
   RebuiltInv, KeptInv, ValidInputKept, CertifiedInv, CertifiedIsInput, OwnedStructure

(* So does one that answers as the guarantees ask.                         *)
LEMMA DoneStep ==
  ASSUME IInv, TypeOK', UNCHANGED <<call, route, poly>>,
         pc' = "done",
         ~geom'.nan,
         geom'.wound,
         ~OwnedStructure /\ ~call.keep => Backed',
         call.entry = "borrowed" /\ ~call.keep /\ Valid(call.input.shape)
           /\ ~call.input.short => geom'.kind = "areal",
         ~OwnedStructure /\ cert' /\ route = "clean"
           => /\ geom' = Wind(poly.shape)
              /\ OwnRings(geom')
              /\ Valid(geom') \/ (poly.gate /\ ~poly.extreme)
  PROVE  IInv'
BY DEF IInv, FiniteInv, FiniteAnswers, WoundInv, WindingNormalised, GatedInv, PolyInv,
   RebuiltInv, KeptInv, ValidInputKept, CertifiedInv, CertifiedIsInput, OwnedStructure

(* The tail: stripping leaves gated geometry gated, collapsing needs       *)
(* keep_collapsed, and the net catches a valid input.                      *)
LEMMA TailActions ==
  ASSUME IInv, TypeOK', TailBorrowedClean \/ TailBorrowedRebuilt \/ TailOwned
  PROVE  IInv'
<1> DEFINE Fit(g) == /\ g \in Geometries /\ ~g.nan /\ g.wound
                     /\ ~OwnedStructure
                          => \/ Valid(g)
                             \/ /\ cert /\ OwnRings(g)
                                /\ poly.gate /\ ~poly.extreme /\ ~Valid(poly.shape)
           Own == /\ geom = Wind(poly.shape)
                  /\ OwnRings(geom)
                  /\ Valid(geom) \/ (poly.gate /\ ~poly.extreme)
<1>1. /\ geom \in Geometries /\ call.input \in Polygons
      /\ pc = "tail" /\ ~geom.nan /\ geom.wound
      /\ poly.shape \in Geometries /\ poly.shape.kind = "areal"
      /\ ~OwnedStructure /\ cert => Own
      /\ route = "rebuilt" /\ ~call.keep => ~Valid(call.input.shape)
  BY PolygonFacts DEF IInv, TypeOK, Calls, FiniteInv, WoundInv, CertifiedInv,
     CertifiedIsInput, RebuiltInv, TailBorrowedClean, TailBorrowedRebuilt, TailOwned
<1>2. Fit(geom)
  BY <1>1 DEF IInv, GatedInv, Backed
<1>3. ~OwnedStructure /\ cert => geom.kind = "areal"
  BY <1>1, WindFacts
<1>4. \A g \in Strip(geom) \cup {geom} : Fit(g)
  BY <1>1, <1>2, StripFacts
<1>5. \A g \in Strip(geom) \cup {geom} : \A h \in Collapse(g) \cup {g} :
         /\ h \in Geometries /\ ~h.nan /\ h.wound
         /\ ~call.keep => Fit(h)
         /\ g.kind = "areal" => h = g
  BY <1>4, CollapseFacts
<1>6. CASE TailBorrowedClean
  <2>1. PICK g \in IF cert THEN {geom} ELSE Strip(geom) : \E h \in Collapse(g) :
               Hand("done", Preserve(h), cert)
    BY <1>6 DEF TailBorrowedClean
  <2>2. PICK h \in Collapse(g) : Hand("done", Preserve(h), cert)
    BY <2>1
  <2>3. ~OwnedStructure
    BY <1>6 DEF TailBorrowedClean, OwnedStructure
  <2>4. g \in Strip(geom) \cup {geom} /\ (cert => g = geom)
    BY <2>1
  <2>5. /\ h \in Geometries /\ ~h.nan /\ h.wound
        /\ ~call.keep => Fit(h)
        /\ cert => h = geom
    BY <1>3, <1>5, <2>2, <2>3, <2>4
  <2>6. /\ ~Preserve(h).nan /\ Preserve(h).wound
        /\ Valid(call.input.shape) => Preserve(h).kind = "areal"
        /\ cert => Preserve(h) = geom
    BY <1>1, <1>3, <2>3, <2>5, PreserveFacts
  <2>7. Preserve(h) = h \/ Valid(Preserve(h))
    BY DEF Preserve
  <2>8. ~call.keep => Backed'
    BY <2>2, <2>3, <2>5, <2>7 DEF Hand, Backed
  <2> QED BY <2>2, <2>3, <2>6, <2>8, <1>1, DoneStep DEF Hand
<1>7. CASE TailBorrowedRebuilt
  <2>1. PICK g \in Strip(geom) : \E h \in Collapse(g) : Hand("done", h, cert)
    BY <1>7 DEF TailBorrowedRebuilt
  <2>2. PICK h \in Collapse(g) : Hand("done", h, cert)
    BY <2>1
  <2>3. ~OwnedStructure /\ route = "rebuilt"
    BY <1>7 DEF TailBorrowedRebuilt, OwnedStructure
  <2>4. /\ h \in Geometries /\ ~h.nan /\ h.wound
        /\ ~call.keep => Fit(h)
    BY <1>5, <2>1, <2>2
  <2>5. ~call.keep => Backed'
    BY <2>2, <2>3, <2>4 DEF Hand, Backed
  <2> QED BY <2>2, <2>3, <2>4, <2>5, <1>1, DoneStep DEF Hand
<1>8. CASE TailOwned
  <2>1. PICK g \in IF cert THEN {geom} ELSE Strip(geom) :
               \E h \in IF route = "rebuilt" THEN Collapse(g) ELSE {g} :
                 Hand("done", h, cert)
    BY <1>8 DEF TailOwned
  <2>2. PICK h \in IF route = "rebuilt" THEN Collapse(g) ELSE {g} : Hand("done", h, cert)
    BY <2>1
  <2>3. call.entry # "borrowed" /\ g \in Strip(geom) \cup {geom} /\ (cert => g = geom)
    BY <1>8, <2>1 DEF TailOwned, TypeOK, IInv, Calls
  <2>4. /\ h \in Geometries /\ ~h.nan /\ h.wound
        /\ ~call.keep => Fit(h)
        /\ cert /\ route = "clean" => h = geom
    BY <1>5, <2>2, <2>3
  <2>5. ~OwnedStructure /\ ~call.keep => Backed'
    BY <2>2, <2>4 DEF Hand, Backed
  <2> QED BY <2>2, <2>3, <2>4, <2>5, <1>1, DoneStep DEF Hand
<1> QED BY <1>6, <1>7, <1>8

(* A stage that certifies the polygon hands on its own rings.              *)
LEMMA CertifyStep ==
  ASSUME IInv, TypeOK', Hand("finish", Wind(poly.shape), TRUE), poly.shape.turns,
         Valid(Wind(poly.shape)) \/ (poly.gate /\ ~poly.extreme)
  PROVE  IInv'
<1>1. poly \in Polygons
  BY DEF IInv, TypeOK
<1>2. OwnRings(Wind(poly.shape)) /\ (Valid(poly.shape) => Valid(Wind(poly.shape)))
  BY <1>1, OwnPolygon
<1>3. Backed'
  BY <1>2 DEF Hand, Backed
<1> QED BY <1>2, <1>3, FinishStep DEF Hand

(* Every step keeps the invariant, whatever the engines return.            *)
LEMMA StepIInv == IInv /\ [Next]_vars => IInv'
<1> SUFFICES ASSUME IInv, [Next]_vars PROVE IInv'
  OBVIOUS
<1>t. TypeOK'
  BY StepTypeOK DEF IInv
<1>a. /\ poly \in Polygons /\ poly.shape \in Geometries
      /\ geom \in Geometries
      /\ call.input \in Polygons /\ call.input.shape \in Geometries
  BY PolygonFacts DEF IInv, TypeOK, Calls
<1>e. Valid(Empty) /\ ~Empty.nan /\ Empty.wound
  BY EmptyFacts
<1>p. Valid(call.input.shape) => Valid(poly.shape)
  BY DEF IInv, PolyInv
<1>v. Valid(geom') => Backed'
  BY DEF Backed
<1>1. CASE EntryDegenerate
  <2>1. ~Valid(call.input.shape)
    BY <1>1, <1>a, PolygonFacts DEF EntryDegenerate
  <2> QED BY <1>1, <2>1, <1>t, <1>e, <1>v, DoneStep DEF EntryDegenerate, Hand
<1>2. CASE EntryShort
  BY <1>2, <1>t, <1>e, <1>v, DoneStep DEF EntryShort, Hand
<1>3. CASE EntryRebuild
  <2>1. ~call.keep => ~Valid(call.input.shape)
    BY <1>3, <1>a, ValidFacts DEF EntryRebuild
  <2> QED
    BY <1>3, <1>t, <2>1 DEF EntryRebuild, IInv, FiniteInv, FiniteAnswers, WoundInv,
       WindingNormalised, GatedInv, PolyInv, RebuiltInv, KeptInv, ValidInputKept,
       CertifiedInv, CertifiedIsInput, OwnedStructure
<1>4. CASE RebuildTooFew
  <2>1. PICK g \in {Empty} \cup SimpleParts : Hand("done", g, FALSE)
    BY <1>4 DEF RebuildTooFew
  <2>2. g \in Geometries /\ Valid(g)
    BY <1>e, EmptyFacts DEF SimpleParts, EngineOutputs, Geometries, Valid
  <2>3. ~g.nan /\ g.wound
    BY <2>2, ValidFacts
  <2>4. ~call.keep => ~Valid(call.input.shape)
    BY <1>4 DEF RebuildTooFew, IInv, RebuiltInv
  <2> QED BY <2>1, <2>2, <2>3, <2>4, <1>t, <1>v, DoneStep DEF Hand
<1>5. CASE EntryClean \/ DispatchArrange \/ DispatchStructure \/ GateReject \/ ChainArrange
  BY <1>5, <1>t, <1>p, QuietStep DEF EntryClean, DispatchArrange, DispatchStructure,
     GateReject, ChainArrange, Goto
<1>6. CASE RebuildClose \/ FastRejected
  <2>1. Valid(call.input.shape) => Valid(poly'.shape)
    BY <1>6, <1>a, <1>p, CleanedFacts, WindFacts, PolygonFacts DEF RebuildClose, FastRejected
  <2> QED BY <1>6, <2>1, <1>t, QuietStep DEF RebuildClose, FastRejected
<1>7. CASE Precondition \/ SinglePass \/ Crossing \/ Shells
  <2>1. /\ pc' \in {"crossing", "shells", "gate", "chain"}
        /\ UNCHANGED <<call, route, poly>>
    BY <1>7 DEF Precondition, SinglePass, Crossing, Shells, Hand, Goto
  <2> QED BY <2>1, <1>t, <1>p, QuietStep
<1>8. CASE FastCertified
  <2>1. CASE OwnedStructure
    <3>1. ~Wind(poly.shape).nan /\ Wind(poly.shape).wound
      BY <1>8, <1>a, PolygonFacts, WindFacts DEF FastCertified
    <3> QED BY <1>8, <2>1, <3>1, <1>t, TailStep DEF FastCertified, Hand
  <2>2. CASE ~OwnedStructure
    BY <1>8, <2>2, <1>t, CertifyStep DEF FastCertified
  <2> QED BY <2>1, <2>2
<1>9. CASE GatePass \/ GateSkipped
  BY <1>9, <1>t, <1>v, FinishStep DEF GatePass, GateSkipped, Hand
<1>10. CASE ChainFast \/ ChainValid
  <2>1. Valid(poly.shape) => Valid(Wind(poly.shape)) /\ poly.shape.turns
    BY <1>a, WindFacts DEF Valid
  <2> QED BY <1>10, <2>1, <1>t, CertifyStep DEF ChainFast, ChainValid
<1>11. CASE Arrange
  <2>1. PICK g \in EngineOutputs \cup {poly.shape} :
               IF Valid(Wind(g)) THEN Hand("finish", Wind(g), FALSE) ELSE Goto("reduce")
    BY <1>11 DEF Arrange
  <2>2. CASE Valid(Wind(g))
    BY <2>1, <2>2, <1>t, <1>v, FinishStep DEF Hand
  <2>3. CASE ~Valid(Wind(g))
    BY <2>1, <2>3, <1>t, <1>p, QuietStep DEF Goto
  <2> QED BY <2>2, <2>3
<1>12. CASE ReduceRung
  <2>1. PICK s \in Snapped : geom' = s /\ pc' = IF Valid(s) THEN "finish" ELSE "reduce"
    BY <1>12 DEF ReduceRung
  <2>2. CASE Valid(s)
    BY <1>12, <2>1, <2>2, <1>t, <1>v, FinishStep DEF ReduceRung
  <2>3. CASE ~Valid(s)
    BY <1>12, <2>1, <2>3, <1>t, <1>p, QuietStep DEF ReduceRung
  <2> QED BY <2>2, <2>3
<1>13. CASE ReduceLast
  BY <1>13, <1>t, <1>e, <1>v, FinishStep DEF ReduceLast, Hand
<1>14. CASE FinishBorrowed
  <2>1. ~OwnedStructure /\ Backed
    BY <1>14 DEF FinishBorrowed, OwnedStructure, IInv, GatedInv
  <2>2. ~geom.nan /\ geom.wound
    BY <2>1, <1>a, BackedFacts
  <2>3. pc' = "tail" /\ UNCHANGED <<call, route, poly, geom, cert>>
    BY <1>14, <2>2 DEF FinishBorrowed, Goto
  <2>4. Backed'
    BY <2>1, <2>3 DEF Backed
  <2>5. cert => /\ geom = Wind(poly.shape)
                /\ OwnRings(geom)
                /\ Valid(geom) \/ (poly.gate /\ ~poly.extreme)
    BY <1>14, <2>1 DEF FinishBorrowed, IInv, CertifiedInv, CertifiedIsInput
  <2> QED BY <2>1, <2>2, <2>3, <2>4, <2>5, <1>t, TailStep
<1>15. CASE FinishOwned
  <2>1. /\ ~OwnedStructure => Backed
        /\ cert => ~geom.nan /\ geom.wound
    BY <1>15 DEF FinishOwned, IInv, GatedInv, FiniteInv, WoundInv
  <2>2. ~OwnedStructure /\ ~cert => Valid(geom) /\ Wind(geom) = geom /\ ~geom.nan
    BY <2>1, <1>a, WindFacts, ValidFacts DEF Backed
  <2>3. Wind(geom).wound /\ Wind(geom).nan = geom.nan
    BY <1>a, WindFacts
  <2>4. CASE cert
    <3>1. pc' = "tail" /\ UNCHANGED <<call, route, poly, geom, cert>>
      BY <1>15, <2>4 DEF FinishOwned, Goto
    <3>2. ~OwnedStructure => Backed'
      BY <2>1, <3>1 DEF Backed
    <3>3. ~OwnedStructure => /\ geom = Wind(poly.shape)
                             /\ OwnRings(geom)
                             /\ Valid(geom) \/ (poly.gate /\ ~poly.extreme)
      BY <1>15, <2>4 DEF FinishOwned, IInv, CertifiedInv, CertifiedIsInput
    <3> QED BY <2>1, <2>4, <3>1, <3>2, <3>3, <1>t, TailStep
  <2>5. CASE ~cert /\ geom.nan
    BY <1>15, <2>2, <2>5, <1>e, <1>t, TailStep DEF FinishOwned, Hand
  <2>6. CASE ~cert /\ ~geom.nan
    BY <1>15, <2>2, <2>3, <2>6, <1>t, <1>v, TailStep DEF FinishOwned, Hand
  <2> QED BY <2>4, <2>5, <2>6
<1>16. CASE Panic
  <2>1. CASE guarded
    BY <1>16, <2>1, <1>e, <1>t, <1>v, TailStep DEF Panic, Hand
  <2>2. CASE ~guarded
    BY <1>16, <2>2, <1>t, <1>p, QuietStep DEF Panic, Goto
  <2> QED BY <2>1, <2>2
<1>17. CASE TailBorrowedClean \/ TailBorrowedRebuilt \/ TailOwned
  BY <1>17, <1>t, TailActions
<1>18. CASE UNCHANGED vars
  BY <1>18, <1>t DEF vars, IInv, FiniteInv, FiniteAnswers, WoundInv,
     WindingNormalised, GatedInv, Backed, PolyInv, RebuiltInv, KeptInv, ValidInputKept,
     CertifiedInv, CertifiedIsInput, OwnedStructure
<1> QED
  BY <1>1, <1>2, <1>3, <1>4, <1>5, <1>6, <1>7, <1>8, <1>9, <1>10, <1>11, <1>12,
     <1>13, <1>14, <1>15, <1>16, <1>17, <1>18 DEF Next

(* The invariant holds in every reachable state.                           *)
LEMMA InductiveInvariant == Spec => []IInv
BY InitIInv, StepIInv, PTL DEF Spec

(***************************************************************************)
(* The guarantees.                                                         *)
(***************************************************************************)

(* What is left of guarantee 1 on every arm with a gate, on both entries:  *)
(* an engine's work is valid when it is answered, and the only invalid     *)
(* answer is made of own rings the fast gate passed.                       *)
THEOREM GateErrsAlone == Spec => []OnlyGateErrs
<1>1. IInv => OnlyGateErrs
  BY DEF IInv, GatedInv, Backed, OnlyGateErrs
<1> QED BY <1>1, InductiveInvariant, PTL

(* Guarantee 3, unconditionally: no answer holds a non-finite coordinate.  *)
THEOREM Finite == Spec => []FiniteAnswers
<1>1. IInv => FiniteAnswers
  BY DEF IInv, FiniteInv
<1> QED BY <1>1, InductiveInvariant, PTL

(* Guarantee 4, unconditionally: every answer is wound as OGC asks.        *)
THEOREM Wound == Spec => []WindingNormalised
<1>1. IInv => WindingNormalised
  BY DEF IInv, WoundInv
<1> QED BY <1>1, InductiveInvariant, PTL

(* Calls through the borrowed entry, with keep_collapsed off.              *)
BorrowedOnly == Entries = {"borrowed"} /\ Keeps = {FALSE}

(* What a call through the borrowed entry without keep_collapsed is.       *)
LEMMA BorrowedCall ==
  ASSUME BorrowedOnly, TypeOK
  PROVE  call.entry = "borrowed" /\ ~call.keep /\ ~OwnedStructure
BY DEF BorrowedOnly, TypeOK, Calls, OwnedStructure

(* A valid polygon handed to the borrowed entry never loses its area,      *)
(* whatever the engines return and wherever they panic.                    *)
THEOREM BorrowedKeepsValid ==
  ASSUME BorrowedOnly
  PROVE  Spec => []ValidInputKept
<1>1. IInv => ValidInputKept
  BY BorrowedCall DEF IInv, KeptInv
<1> QED BY <1>1, InductiveInvariant, PTL

(* On the borrowed entry a certified result is the polygon under repair,   *)
(* passed by the validator or, at ordinary magnitudes, by the fast gate.   *)
THEOREM BorrowedCertified ==
  ASSUME BorrowedOnly
  PROVE  Spec => []CertifiedIsInput
<1>1. IInv => CertifiedIsInput
  BY BorrowedCall DEF IInv, CertifiedInv
<1> QED BY <1>1, InductiveInvariant, PTL

(***************************************************************************)
(* The ladder implements the contract.                                     *)
(***************************************************************************)

(* Calls answer once: before "done" the contract has returned nothing, and *)
(* no action is left after it.                                             *)
LEMMA NextBeforeDone == Next => pc # "done" /\ UNCHANGED call
BY DEF Next, EntryDegenerate, EntryClean, EntryShort, EntryRebuild, RebuildClose,
   RebuildTooFew, DispatchArrange, FastCertified, FastRejected, DispatchStructure,
   Precondition, SinglePass, Crossing, Shells, GatePass, GateReject, GateSkipped,
   ChainFast, ChainValid, ChainArrange, Arrange, ReduceRung, ReduceLast,
   FinishBorrowed, FinishOwned, Panic, EngineStages, TailBorrowedClean,
   TailBorrowedRebuilt, TailOwned, Hand, Goto

(* A short ring is answered at the entry, by the empty collection, unless  *)
(* collapsed rings are kept.                                               *)
ShortInv == ~call.keep /\ call.input.short
              => pc = "entry" \/ (pc = "done" /\ geom = Empty)

(* Only EntryShort takes such a call anywhere.                             *)
LEMMA StepShortInv == ShortInv /\ [Next]_vars => ShortInv'
<1> SUFFICES ASSUME ShortInv, [Next]_vars, ~call'.keep, call'.input.short
             PROVE  pc' = "entry" \/ (pc' = "done" /\ geom' = Empty)
  BY DEF ShortInv
<1>1. CASE Next
  <2>1. pc = "entry" /\ ~call.keep /\ call.input.short
    BY <1>1, NextBeforeDone DEF ShortInv
  <2>2. EntryShort
    BY <1>1, <2>1 DEF Next, Prescan, EntryDegenerate, EntryClean, EntryRebuild,
       RebuildClose, RebuildTooFew, DispatchArrange, FastCertified, FastRejected,
       DispatchStructure, Precondition, SinglePass, Crossing, Shells, GatePass,
       GateReject, GateSkipped, ChainFast, ChainValid, ChainArrange, Arrange,
       ReduceRung, ReduceLast, FinishBorrowed, FinishOwned, Panic, EngineStages,
       TailBorrowedClean, TailBorrowedRebuilt, TailOwned
  <2> QED BY <2>2 DEF EntryShort, Hand
<1>2. CASE UNCHANGED vars
  BY <1>2 DEF vars, ShortInv
<1> QED BY <1>1, <1>2

(* Short rings are answered by nothing in every reachable state.           *)
LEMMA ShortInvariant == Spec => []ShortInv
<1>1. Init => ShortInv
  BY DEF Init, ShortInv
<1> QED BY <1>1, StepShortInv, PTL DEF Spec

(* Gated geometry, empty for a short ring and with area for a valid        *)
(* polygon, is an answer the contract allows.                              *)
LEMMA AnswerAllowed ==
  ASSUME NEW g \in Geometries,
         Valid(g) \/ (~Valid(call.input.shape) /\ OwnRings(g)),
         call.input.short => g = Empty,
         Valid(call.input.shape) /\ ~call.input.short => g.kind = "areal"
  PROVE  g \in Contract!Allowed(call.input)
BY DEF Contract!Allowed, Contract!Valid, Contract!OwnRings, Contract!Empty,
   Contract!Geometries, Contract!Records, Contract!Kinds, Valid, OwnRings, Empty,
   Geometries, Records, Kinds

(* Every step of the ladder is an answer of the contract or leaves what    *)
(* the contract shows unchanged.                                           *)
THEOREM LadderImplementsContract ==
  ASSUME BorrowedOnly
  PROVE  Spec => ImplementsContract
<1>1. Init => Contract!Init
  BY DEF Init, Contract!Init, Contract!Empty, Empty
<1>2. IInv /\ IInv' /\ ShortInv' /\ [Next]_vars => [Contract!Answer]_(Contract!vars)
  <2> SUFFICES ASSUME IInv, IInv', ShortInv', [Next]_vars
               PROVE  [Contract!Answer]_(Contract!vars)
    OBVIOUS
  <2>1. CASE UNCHANGED vars
    BY <2>1 DEF vars, Contract!vars
  <2>2. CASE Next /\ pc' # "done"
    BY <2>2, NextBeforeDone DEF Contract!vars
  <2>3. CASE Next /\ pc' = "done"
    <3>1. call.entry = "borrowed" /\ ~call.keep /\ ~OwnedStructure /\ call' = call
      BY <2>3, BorrowedCall, NextBeforeDone DEF IInv
    <3>2. Backed' /\ (Valid(call.input.shape) => Valid(poly'.shape))
      BY <2>3, <3>1 DEF IInv, GatedInv, PolyInv, OwnedStructure
    <3>3. Valid(geom') \/ (~Valid(call.input.shape) /\ OwnRings(geom'))
      BY <3>2 DEF Backed
    <3>4. call.input.short => geom' = Empty
      BY <2>3, <3>1 DEF ShortInv
    <3>5. Valid(call.input.shape) /\ ~call.input.short => geom'.kind = "areal"
      BY <2>3, <3>1 DEF IInv, KeptInv, ValidInputKept
    <3>6. geom' \in Contract!Allowed(call.input)
      BY <3>3, <3>4, <3>5, AnswerAllowed DEF IInv, TypeOK
    <3> QED BY <2>3, <3>1, <3>6, NextBeforeDone DEF Contract!Answer
  <2> QED BY <2>1, <2>2, <2>3
<1> QED
  BY <1>1, <1>2, InductiveInvariant, ShortInvariant, PTL
     DEF Spec, ImplementsContract, Contract!Spec
=============================================================================
