--------------------------- MODULE RepairGeometry ---------------------------
(***************************************************************************)
(* What the repair code can tell apart about a geometry.  Coordinates are  *)
(* abstracted away; a geometry is the record of the verdicts the dispatch  *)
(* code asks for:                                                          *)
(*   kind   "areal" (Polygon, MultiPolygon), "other" (points, lines, mixed *)
(*          collections) or "empty" (the empty GeometryCollection);        *)
(*   sound  the validator's verdict, ring orientation left aside;          *)
(*   turns  robust_is_ccw can tell the orientation of every shell: FALSE   *)
(*          stands for shells whose orientation predicate underflows or    *)
(*          overflows, which read as clockwise either way round;           *)
(*   wound  every ring that can be told is wound as OGC asks, shells CCW   *)
(*          and holes CW;                                                  *)
(*   nan    some coordinate is NaN or infinite;                            *)
(*   src    "self" when it is the polygon under repair (perhaps re-wound), *)
(*          "engine" when some repair engine built it.                     *)
(***************************************************************************)

Kinds == {"areal", "other", "empty"}

Records == [kind : Kinds, sound : BOOLEAN, turns : BOOLEAN, wound : BOOLEAN,
            nan : BOOLEAN, src : {"self", "engine"}]

(* The records a geometry can have: the validator rejects a non-finite     *)
(* coordinate whatever the kind, only areal geometries have ring           *)
(* orientation, and the empty collection has nothing to reject.            *)
Geometries ==
  {g \in Records :
     /\ g.nan => ~g.sound
     /\ g.kind # "areal" => g.turns /\ g.wound /\ g.src = "engine"
     /\ g.kind = "empty" => g.sound}

(* empty_geom() *)
Empty == [kind |-> "empty", sound |-> TRUE, turns |-> TRUE, wound |-> TRUE,
          nan |-> FALSE, src |-> "engine"]

(* Whatever a repair engine (symdiff loop, boolean pipeline, CDT) returns. *)
EngineOutputs == {g \in Geometries : g.src = "engine"}

(* is_valid_with_geo: the validator decides orientation with the predicate *)
(* enforce_ogc_winding uses, so a shell that cannot be told is rejected    *)
(* (WrongOrientation).  The empty collection is valid.                     *)
Valid(g) == g.sound /\ g.turns /\ g.wound

(* enforce_ogc_winding: reverses exactly the rings with the wrong          *)
(* orientation; other kinds pass through.  Its second result, the          *)
(* orientation verdict, is the field turns of the result.                  *)
Wind(g) == [g EXCEPT !.wound = TRUE]

(* strip_degenerate: points, lines and collections pass through; a valid   *)
(* polygon has four coordinates, finite, not collinear, so it is kept; of  *)
(* an invalid geometry any part may be dropped or demoted to lines, and a  *)
(* non-finite coordinate survives only where there was one.  The polygon   *)
(* under repair is one Polygon: it stays one, finite, or all its rings are *)
(* demoted, to lines the validator accepts (filter_demoted_lines).         *)
Strip(g) ==
  IF g.kind # "areal" \/ Valid(g)
  THEN {g}
  ELSE {h \in Geometries : /\ h.nan => g.nan
                           /\ h.kind = "areal" => /\ h.src = g.src
                                                  /\ g.turns => h.turns
                                                  /\ g.wound => h.wound
                           /\ g.src = "self" => /\ ~h.nan
                                                /\ h.kind # "areal" => h.sound}

(* Rings of the input that no engine has touched, as an answer.            *)
OwnRings(g) == g.src = "self" /\ g.turns /\ g.wound /\ ~g.nan

(* The answers the repair contract allows for polygon p, p.short when it   *)
(* has fewer than four coordinates, which is answered by the empty         *)
(* collection.  A valid polygon is answered by a valid geometry with area; *)
(* a rejected one by a valid geometry or, where the code trusts a scan in  *)
(* place of the validator, by its own rings, finite and wound.             *)
Allowed(p) ==
  {g \in Geometries :
     /\ Valid(g) \/ (~Valid(p.shape) /\ OwnRings(g))
     /\ p.short => g = Empty
     /\ Valid(p.shape) /\ ~p.short => g.kind = "areal"}
=============================================================================
