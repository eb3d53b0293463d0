---------------------------- MODULE RepairLadder ----------------------------
(***************************************************************************)
(* One call of Polygon::make_valid_with_config (entry "borrowed") or of    *)
(* make_valid_owned (entry "owned"): the pre-scan, the NaN-filter rebuild, *)
(* the strategy dispatch, the stages of structure::fix_polygon_owned, the  *)
(* arrange chain with its precision ladder, and the tail that strips,      *)
(* collapses or hands the input back.  The engines a stage calls (symdiff  *)
(* loop, boolean pipeline, CDT) are free to return any geometry, valid or  *)
(* not, or to panic: what is modelled is everything the dispatch code does *)
(* with what comes back.                                                   *)
(***************************************************************************)
EXTENDS RepairGeometry, Naturals

CONSTANTS Entries,    \* entry points called: a subset of {"borrowed", "owned"}
          Methods,    \* PolyMethod: a subset of {"Arrange", "Structure", "Auto"}
          Keeps,      \* values of keep_collapsed: a subset of BOOLEAN
          NScales     \* rungs of the precision ladder (four in the code)

ASSUME EntriesAssumption == Entries \subseteq {"borrowed", "owned"}
ASSUME MethodsAssumption == Methods \subseteq {"Arrange", "Structure", "Auto"}
ASSUME KeepsAssumption == Keeps \subseteq BOOLEAN
ASSUME NScalesAssumption == NScales \in Nat \ {0}

VARIABLES call,   \* what was asked: entry, method, keep and the polygon
          pc,     \* the stage the call is in
          route,  \* "clean": finite input as given; "rebuilt": after the NaN filter
          guarded, \* the dispatch runs inside catch_unwind
          poly,   \* the polygon under repair
          geom,   \* the geometry in hand
          cert,   \* the certification flag returned beside it
          rung    \* scales of the precision ladder already tried

vars == <<call, pc, route, guarded, poly, geom, cert, rung>>

(***************************************************************************)
(* A polygon is its geometry and the verdicts of the cheap scans:          *)
(*   gate     structure::fast_path_check accepts it;                       *)
(*   extreme  fast_gate_needs_full_validation (magnitudes out of range);   *)
(*   short    fewer than four exterior coordinates;                        *)
(*   flat     the exterior bbox is locally degenerate.                     *)
(* What is taken from the scans: the gate walks every coordinate and       *)
(* accepts no polygon with a non-finite one.  It is not taken to be right: *)
(* structure/mod.rs:57 says that it "accepts exactly what the exit         *)
(* validator accepts", but it passes rings that its grid misses on the     *)
(* upper border (IntersectionGate, AcceptedIsSimple) and holes that cross  *)
(* a shell with very many vertices (PolygonValidity, GiantIsValid).  The   *)
(* validator has its own four-coordinate and extent tests; it accepts the  *)
(* polygon with no coordinates at all, which is the sound short one.       *)
(***************************************************************************)
Polygons ==
  {p \in [shape : {g \in Geometries : g.kind = "areal" /\ g.src = "self"},
          gate : BOOLEAN, extreme : BOOLEAN, short : BOOLEAN, flat : BOOLEAN] :
     /\ p.gate => ~p.short /\ ~p.shape.nan
     /\ p.flat => ~p.shape.sound
     /\ p.short /\ p.shape.sound => p.shape.turns /\ p.shape.wound}

Calls == [entry : Entries, method : Methods, keep : Keeps, input : Polygons]

Stages == {"entry", "rebuild", "dispatch", "precondition", "single_pass", "crossing",
           "shells", "gate", "chain", "arrange", "reduce", "finish", "tail",
           "done", "unwound"}

(* The stages that run an engine, where a foreign assertion can fire.      *)
EngineStages == {"precondition", "single_pass", "crossing", "shells", "arrange"}

Init == /\ call \in Calls
        /\ pc = "entry"
        /\ route = "clean"
        /\ guarded = FALSE
        /\ poly = call.input
        /\ geom = Empty
        /\ cert = FALSE
        /\ rung = 0

(* The owned Structure arm, the one dispatch arm that is not make_valid_impl. *)
OwnedStructure == call.entry = "owned" /\ call.method = "Structure"

Goto(stage) == pc' = stage /\ UNCHANGED <<call, route, guarded, poly, geom, cert, rung>>

(* Leave a stage with geometry g in hand and certification c.              *)
Hand(stage, g, c) == /\ pc' = stage
                     /\ geom' = g
                     /\ cert' = c
                     /\ UNCHANGED <<call, route, guarded, poly, rung>>

(***************************************************************************)
(* Entry: the fused pre-scan and the short-ring exit.                      *)
(***************************************************************************)
Prescan == ~call.keep /\ ~call.input.short

EntryDegenerate == /\ pc = "entry"
                   /\ Prescan
                   /\ call.input.flat
                   /\ Hand("done", Empty, FALSE)

(* Mutant: one of the two clean dispatch sites without its catch_unwind.   *)
EntryCleanBare == /\ pc = "entry"
                  /\ Prescan
                  /\ ~call.input.flat
                  /\ ~call.input.shape.nan
                  /\ pc' = "dispatch"
                  /\ guarded' = (call.entry = "borrowed")
                  /\ UNCHANGED <<call, route, poly, geom, cert, rung>>

(* The clean dispatch is wrapped in catch_unwind at both entries           *)
(* (polygon.rs, the two Some(false) arms).                                 *)
EntryClean == /\ pc = "entry"
              /\ Prescan
              /\ ~call.input.flat
              /\ ~call.input.shape.nan
              /\ pc' = "dispatch"
              /\ guarded' = TRUE
              /\ UNCHANGED <<call, route, poly, geom, cert, rung>>

EntryShort == /\ pc = "entry"
              /\ ~call.keep
              /\ call.input.short
              /\ Hand("done", Empty, FALSE)

EntryRebuild == /\ pc = "entry"
                /\ \/ call.keep
                   \/ Prescan /\ ~call.input.flat /\ call.input.shape.nan
                /\ pc' = "rebuild"
                /\ route' = "rebuilt"
                /\ UNCHANGED <<call, guarded, poly, geom, cert, rung>>

(***************************************************************************)
(* Rebuild: filter_finite_rings and dedup_and_close.  A valid polygon has  *)
(* no repeated or non-finite coordinate, so it is rebuilt as it was; fewer *)
(* than three distinct coordinates are answered by a point, a two-point    *)
(* line or nothing, and the polygon without coordinates by nothing.  The   *)
(* bbox scan is not taken again: flat stays FALSE.  The borrowed entry     *)
(* wraps the dispatch that follows in catch_unwind; the owned one          *)
(* (polygon.rs:621) does not.                                              *)
(***************************************************************************)
NoCoordinates(p) == p.short /\ p.shape.sound

Cleaned(p) ==
  IF Valid(p.shape) THEN {p}
  ELSE {c \in Polygons : ~c.shape.nan /\ ~c.flat /\ ~NoCoordinates(c)}

SimpleParts == {g \in EngineOutputs : g.kind = "other" /\ g.sound}

RebuildClose == /\ pc = "rebuild"
                /\ ~NoCoordinates(call.input)
                /\ poly' \in Cleaned(call.input)
                /\ pc' = "dispatch"
                /\ guarded' = (call.entry = "borrowed")
                /\ UNCHANGED <<call, route, geom, cert, rung>>

RebuildTooFew == /\ pc = "rebuild"
                 /\ Valid(call.input.shape) => call.input.short
                 /\ \E g \in {Empty} \cup SimpleParts :
                      /\ NoCoordinates(call.input) => g = Empty
                      /\ Hand("done", g, FALSE)

(***************************************************************************)
(* Dispatch on PolyMethod; Structure and Auto open with the fast gate.     *)
(* The owned Structure arm leaves make_valid_impl_owned at once, without   *)
(* the extreme-magnitude check.                                            *)
(* What it returns straight from the chain is gated and wound there, so    *)
(* passing it through the finish below changes nothing.                    *)
(***************************************************************************)
DispatchArrange == /\ pc = "dispatch"
                   /\ call.method = "Arrange"
                   /\ Goto("chain")

(* Mutant: extreme magnitudes trusted to the gate on every arm.            *)
FastCertifiedUnchecked == /\ pc = "dispatch"
                          /\ call.method # "Arrange"
                          /\ poly.gate
                          /\ poly.shape.turns
                          /\ Hand("finish", Wind(poly.shape), TRUE)

FastCertified == /\ pc = "dispatch"
                 /\ call.method # "Arrange"
                 /\ poly.gate
                 /\ poly.shape.turns
                 /\ poly.extreme /\ ~OwnedStructure => Valid(Wind(poly.shape))
                 /\ Hand(IF OwnedStructure THEN "tail" ELSE "finish",
                         Wind(poly.shape), TRUE)

FastRejected == /\ pc = "dispatch"
                /\ call.method # "Arrange"
                /\ poly.gate
                /\ \/ ~poly.shape.turns
                   \/ poly.extreme /\ ~OwnedStructure /\ ~Valid(Wind(poly.shape))
                /\ pc' = "chain"
                /\ poly' = IF OwnedStructure
                           THEN [poly EXCEPT !.shape = Wind(@)] ELSE poly
                /\ UNCHANGED <<call, route, guarded, geom, cert, rung>>

(* snap_cannot_represent picks the first stage of the structure repair.    *)
DispatchStructure == /\ pc = "dispatch"
                     /\ call.method # "Arrange"
                     /\ ~poly.gate
                     /\ Goto("precondition") \/ Goto("single_pass")

(***************************************************************************)
(* The stages of structure::fix_polygon_owned behind its fast gate.        *)
(***************************************************************************)

(* precondition_fix: scale, repair the scaled copy, map the result back;   *)
(* when that is not possible the polygon goes on unconsumed.               *)
Precondition == /\ pc = "precondition"
                /\ \/ \E g \in EngineOutputs : Hand("gate", g, FALSE)
                   \/ Goto("chain")

(* single_pass_fix_tuned: the one engine whose result is wound and         *)
(* validated inside the structure pipeline.                                *)
SinglePass == /\ pc = "single_pass"
              /\ \/ Goto("crossing")
                 \/ \E g \in EngineOutputs :
                      /\ g.kind = "areal"
                      /\ IF Valid(Wind(g)) THEN Hand("gate", Wind(g), FALSE)
                                           ELSE Goto("crossing")

(* A hole with a vertex strictly outside the shell: CDT straight away.     *)
Crossing == /\ pc = "crossing"
            /\ \/ Goto("shells")
               \/ \E g \in EngineOutputs : g.kind # "other" /\ Hand("gate", g, FALSE)

(* Shell and hole rings repaired apart, holes subtracted, shells merged;   *)
(* a shell that cannot be repaired falls back to the CDT or to what        *)
(* handle_collapse_result keeps of it, and no result at all leaves the     *)
(* polygon unconsumed.                                                     *)
Shells == /\ pc = "shells"
          /\ \/ \E g \in EngineOutputs : Hand("gate", g, FALSE)
             \/ Goto("chain")

(* Mutant: the repaired geometry shipped without the gate.                 *)
GatePassUngated == /\ pc = "gate"
                   /\ ~OwnedStructure
                   /\ Hand("finish", Wind(geom), FALSE)

(* The gate of the dispatch arm on FixOutcome::Repaired.                   *)
GatePass == /\ pc = "gate"
            /\ ~OwnedStructure
            /\ Valid(Wind(geom))
            /\ Hand("finish", Wind(geom), FALSE)

GateReject == /\ pc = "gate"
              /\ ~OwnedStructure
              /\ ~Valid(Wind(geom))
              /\ Goto("chain")

(* The owned Structure arm takes the repaired geometry as it is.           *)
GateSkipped == /\ pc = "gate"
               /\ OwnedStructure
               /\ Hand("finish", geom, FALSE)

(***************************************************************************)
(* arrange_chain: the input itself, the CDT, the precision ladder, nothing. *)
(***************************************************************************)

(* fast_gate_accepts: asked only above small_ring_lines vertices.          *)
ChainFast == /\ pc = "chain"
             /\ poly.gate
             /\ poly.extreme => Valid(poly.shape)
             /\ poly.shape.turns
             /\ Hand("finish", Wind(poly.shape), TRUE)

ChainValid == /\ pc = "chain"
              /\ Valid(poly.shape)
              /\ Hand("finish", Wind(poly.shape), TRUE)

ChainArrange == /\ pc = "chain"
                /\ ~Valid(poly.shape)
                /\ Goto("arrange")

(* Mutant: the CDT result shipped without the gate.                        *)
ArrangeUngated == /\ pc = "arrange"
                  /\ \E g \in EngineOutputs \cup {poly.shape} :
                       Hand("finish", Wind(g), FALSE)

(* arrange_or_empty: the CDT result, or the polygon itself when arrange    *)
(* finds nothing to repair (it does not look at orientation).              *)
Arrange == /\ pc = "arrange"
           /\ \E g \in EngineOutputs \cup {poly.shape} :
                IF Valid(Wind(g)) THEN Hand("finish", Wind(g), FALSE)
                                  ELSE Goto("reduce")

(* reduce_fallback: the polygon snapped to the scale of this rung, taken   *)
(* as it is if the validator accepts it.                                   *)
Snapped == {g \in EngineOutputs : g.kind = "areal"}

(* Mutants: one rung too many; a rung that never counts.                   *)
ReduceRungExtra == /\ pc = "reduce"
                   /\ rung <= NScales
                   /\ \E s \in Snapped :
                        /\ geom' = s
                        /\ pc' = IF Valid(s) THEN "finish" ELSE "reduce"
                   /\ rung' = rung + 1
                   /\ cert' = FALSE
                   /\ UNCHANGED <<call, route, guarded, poly>>

ReduceRung == /\ pc = "reduce"
              /\ rung < NScales
              /\ \E s \in Snapped :
                   /\ geom' = s
                   /\ pc' = IF Valid(s) THEN "finish" ELSE "reduce"
              /\ rung' = rung + 1
              /\ cert' = FALSE
              /\ UNCHANGED <<call, route, guarded, poly>>

(* Mutant: the last resort shipped without its gate.                       *)
ReduceLastUngated == /\ pc = "reduce"
                     /\ rung = NScales
                     /\ Hand("finish", Wind(geom), FALSE)

(* After the last scale its (deterministic) result is computed again, and  *)
(* the chain winds and gates it.                                           *)
ReduceLast == /\ pc = "reduce"
              /\ rung = NScales
              /\ Hand("finish", IF Valid(Wind(geom)) THEN Wind(geom) ELSE Empty, FALSE)

(***************************************************************************)
(* The end of make_valid_impl (borrowed, and owned Auto) and of            *)
(* make_valid_impl_owned.                                                  *)
(***************************************************************************)
FinishBorrowed == /\ pc = "finish"
                  /\ call.entry = "borrowed"
                  /\ IF ~cert /\ geom.nan THEN Hand("tail", Empty, FALSE)
                                          ELSE Goto("tail")

(* Mutants of the owned finish: no non-finite check; no winding.           *)
FinishOwnedUnfiltered == /\ pc = "finish"
                         /\ call.entry = "owned"
                         /\ IF cert THEN Goto("tail") ELSE Hand("tail", Wind(geom), FALSE)

FinishOwnedUnwound == /\ pc = "finish"
                      /\ call.entry = "owned"
                      /\ IF cert THEN Goto("tail")
                         ELSE IF geom.nan THEN Hand("tail", Empty, TRUE)
                         ELSE Hand("tail", geom, FALSE)

FinishOwned == /\ pc = "finish"
               /\ call.entry = "owned"
               /\ IF cert THEN Goto("tail")
                  ELSE IF geom.nan THEN Hand("tail", Empty, TRUE)
                  ELSE Hand("tail", Wind(geom), FALSE)

(***************************************************************************)
(* A panic in an engine: caught where the dispatch site wraps it.          *)
(***************************************************************************)
Panic == /\ pc \in EngineStages
         /\ IF guarded THEN Hand("tail", Empty, FALSE) ELSE Goto("unwound")

(***************************************************************************)
(* The tail: strip, collapse, preserve.                                    *)
(***************************************************************************)

(* maybe_collapse_keep: with keep_collapsed, an empty result is replaced   *)
(* by the exterior ring as an open line when that ring has no area.  The   *)
(* line may double back on itself.                                         *)
Collapse(g) ==
  IF call.keep /\ g.kind = "empty" /\ ~Valid(call.input.shape)
  THEN {g} \cup {h \in EngineOutputs : h.kind = "other" /\ ~h.nan}
  ELSE {g}

(* Mutant: the net under valid input is gone.                              *)
PreserveNothing(g) == g

(* preserve_valid_input                                                    *)
Preserve(g) == IF g.kind # "areal" /\ Valid(call.input.shape)
               THEN call.input.shape ELSE g

TailBorrowedClean == /\ pc = "tail"
                     /\ call.entry = "borrowed"
                     /\ route = "clean"
                     /\ \E g \in IF cert THEN {geom} ELSE Strip(geom) :
                          \E h \in Collapse(g) : Hand("done", Preserve(h), cert)

TailBorrowedRebuilt == /\ pc = "tail"
                       /\ call.entry = "borrowed"
                       /\ route = "rebuilt"
                       /\ \E g \in Strip(geom) :
                            \E h \in Collapse(g) : Hand("done", h, cert)

TailOwned == /\ pc = "tail"
             /\ call.entry = "owned"
             /\ \E g \in IF cert THEN {geom} ELSE Strip(geom) :
                  \E h \in IF route = "rebuilt" THEN Collapse(g) ELSE {g} :
                    Hand("done", h, cert)

Next == \/ EntryDegenerate \/ EntryClean \/ EntryShort \/ EntryRebuild
        \/ RebuildClose \/ RebuildTooFew
        \/ DispatchArrange \/ FastCertified \/ FastRejected \/ DispatchStructure
        \/ Precondition \/ SinglePass \/ Crossing \/ Shells
        \/ GatePass \/ GateReject \/ GateSkipped
        \/ ChainFast \/ ChainValid \/ ChainArrange
        \/ Arrange \/ ReduceRung \/ ReduceLast
        \/ FinishBorrowed \/ FinishOwned
        \/ Panic
        \/ TailBorrowedClean \/ TailBorrowedRebuilt \/ TailOwned

(* The call runs on one thread and nothing it does waits for anybody.      *)
Spec == Init /\ [][Next]_vars /\ WF_vars(Next)

(***************************************************************************)
(* What the code must keep.                                                *)
(***************************************************************************)

TypeOK == /\ call \in Calls
          /\ pc \in Stages
          /\ route \in {"clean", "rebuilt"}
          /\ guarded \in BOOLEAN
          /\ poly \in Polygons
          /\ geom \in Geometries
          /\ cert \in BOOLEAN
          /\ rung \in 0 .. NScales

(* Guarantee 1 as docs/ARCHITECTURE.md:14 words it: no arm ships geometry  *)
(* the validator rejects.  The code does not keep it: the owned Structure  *)
(* arm has no exit gate, a kept collapsed ring may be an invalid line, and *)
(* what the fast gate passes by mistake is shipped as it came.             *)
ValidOrEmpty == pc = "done" => Valid(geom)

(* Guarantee 2 as make_valid words it: a panic in an engine never reaches  *)
(* the caller.  The rebuild route of the owned entry has no catch_unwind.  *)
NoPanicEscapes == pc # "unwound"

(* What guarantee 2 comes to: of the four sites that start the dispatch    *)
(* (both entries, clean and rebuilt) one lets a panic through, whichever   *)
(* stage it fires in: the rebuilt polygon of the owned entry.              *)
OnlyOwnedRebuildUnwinds == pc = "unwound" => call.entry = "owned" /\ route = "rebuilt"

(* What guarantee 1 comes to on the arms that gate, on both entries with   *)
(* no collapsed ring kept: nothing an engine built is shipped unless the   *)
(* validator accepts it.  The one invalid answer there is made of the      *)
(* polygon's own rings, wound and finite, certified because the fast gate  *)
(* passed the polygon at magnitudes where no second opinion is asked.      *)
OnlyGateErrs ==
  pc = "done" /\ ~OwnedStructure /\ ~call.keep /\ ~Valid(geom)
    => cert /\ OwnRings(geom) /\ poly.gate /\ ~poly.extreme

(* A valid polygon (with coordinates) is never answered by something       *)
(* without area: the engines may lose it, the call may not.                *)
ValidInputKept == pc = "done" /\ Valid(call.input.shape) /\ ~call.input.short
                    => geom.kind = "areal"

(* Guarantee 3: no answer has a non-finite coordinate, whatever the input  *)
(* and the engines held.                                                   *)
FiniteAnswers == pc = "done" => ~geom.nan

(* Guarantee 4: every areal answer is wound as OGC asks, on every exit.    *)
WindingNormalised == pc = "done" => geom.wound

(* A certified result is stripped on no exit of a clean call, so it must   *)
(* be the polygon under repair itself, wound, finite and told, and passed  *)
(* by the validator or, at ordinary magnitudes, by the fast gate: never an *)
(* engine's work, and beyond those magnitudes never on the gate's word.    *)
CertifiedIsInput ==
  cert /\ (pc \in {"finish", "tail"} \/ (pc = "done" /\ route = "clean"))
  => /\ geom = Wind(poly.shape)
     /\ OwnRings(geom)
     /\ Valid(geom) \/ (poly.gate /\ ~poly.extreme)

(* "Each path is tried in order; the first valid result wins": the ladder  *)
(* goes on to a coarser scale only from a snapped polygon that winding     *)
(* would not make valid.                                                   *)
LadderFirstRepairable ==
  [][pc = "reduce" /\ rung > 0 /\ rung' > rung => ~Valid(Wind(geom))]_vars

(* The ladder implements the contract: the answer appears in one step and  *)
(* is one the contract allows for the input.                               *)
Contract == INSTANCE RepairContract
              WITH input <- call.input,
                   returned <- (pc = "done"),
                   answer <- (IF pc = "done" THEN geom ELSE Empty)

ImplementsContract == Contract!Spec
=============================================================================
