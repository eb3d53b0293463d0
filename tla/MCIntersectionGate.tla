------------------------- MODULE MCIntersectionGate -------------------------
(* Rings and thresholds for the runs of IntersectionGate. *)
EXTENDS IntersectionGate

(* Every closed walk of k steps over the points.                           *)
Walks(points, k) == [1 .. k -> points]

Corners == {<<0, 0>>, <<2, 0>>, <<2, 1>>, <<2, 2>>, <<0, 2>>}

Stable(r) == \A i \in 1 .. (Len(r) - 1) : r[i] # r[i + 1]

OneRing ==
  {<<r>> : r \in {r \in Walks(Corners, 5) : Stable(r) /\ (IsInjective(r) \/ (r[1] = <<2, 2>> /\ Cardinality(Range(r)) = 4))}
                   \cup {r \in Walks(Corners \cup {<<1, 1>>}, 4) : Stable(r)}}

(* A shell with another ring anywhere over it, also from its first vertex. *)
Shells == {<<<<0, 0>>, <<3, 0>>, <<3, 3>>, <<0, 3>>>>, <<<<3, 1>>, <<1, 3>>, <<0, 0>>>>}

TwoRings == {<<s, h>> : s \in Shells,
                        h \in {r \in Walks({<<0, 0>>, <<3, 1>>, <<2, 2>>, <<1, 1>>, <<1, 3>>}, 3) : Stable(r)}}

(* Rings on one line, one of them found by its winding only.               *)
Flat == {<<<<<<0, 0>>, <<3, 0>>, <<1, 0>>>>>>, <<<<<<0, 0>>, <<3, 3>>>>>>,
         <<<<<<1, 1>>, <<0, 0>>, <<2, 2>>>>>>, <<<<<<0, 0>>, <<1, 1>>, <<2, 2>>>>>>}

AllRings == OneRing \cup TwoRings \cup Flat

Gates(fused) ==
  {[gate |-> TRUE, fused |-> fused, small |-> s, pinch |-> 4, spiky |-> k, cell |-> c, dense |-> d, run |-> 9] :
     <<s, k, c, d>> \in {<<9, 9, 9, 9>>, <<2, 9, 9, 9>>, <<2, 9, 0, 9>>, <<2, 3, 0, 9>>, <<2, 3, 9, 1>>}}

Validators ==
  {[gate |-> FALSE, fused |-> TRUE, small |-> s, pinch |-> 4, spiky |-> 9, cell |-> c, dense |-> d, run |-> r] :
     <<s, c, d, r>> \in {<<9, 9, 9, 9>>, <<2, 9, 9, 9>>, <<2, 9, 1, 9>>, <<2, 9, 9, 1>>, <<2, 0, 9, 1>>}}

Fused == {g \in Gates(TRUE) : g.cell = 0 \/ (g.small = 2 /\ g.spiky = 9)}

GridOnly == {g \in Gates(TRUE) : g.small = 2 /\ g.spiky = 9 /\ g.cell = 9}

SweepOnly == {g \in Gates(FALSE) : g.small = 2 /\ g.spiky = 3 /\ g.dense = 9}

AllTunings == Gates(FALSE) \cup Fused \cup Validators
=============================================================================
