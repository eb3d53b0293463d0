-------------------------- MODULE MCStructureRepair --------------------------
(* Polygons for the runs of StructureRepair. *)
EXTENDS PolygonEngines

Rect(x, y, u, v) == <<<<x, y>>, <<u, y>>, <<u, v>>, <<x, v>>>>

Rects(lo, hi) ==
  LET span == lo .. hi
  IN  {Rect(p[1], p[2], p[3], p[4]) :
         p \in {p \in span \X span \X span \X span : p[1] < p[3] /\ p[2] < p[4]}}

Turned(ring, k) == [i \in DOMAIN ring |-> ring[((i + k - 1) % Len(ring)) + 1]]

Polygon(shell, hs) == [shell |-> shell, holes |-> hs]

(* Every set of up to four rectangles of a small grid and every pair of a  *)
(* larger one: they nest, cross, share edges and leave edges dangling.     *)
Overlaid == {LET s == SetToSeq(S) IN Polygon(Head(s), Tail(s)) :
               S \in {S \in SUBSET Rects(0, 2) : Cardinality(S) \in 1 .. 4}}
       \cup {Polygon(r, <<s>>) : r, s \in Rects(0, 3)}

(* Two holes one inside the other or apart, wherever the second starts,    *)
(* and three or four levels of them.                                       *)
Nested == {Polygon(Rect(0, 0, 5, 5), <<Rect(1, 1, 4, 4), Turned(r, k)>>) :
             r \in Rects(1, 4), k \in 0 .. 3}
   \cup {Polygon(Rect(0, 0, 7, 7), <<r, Rect(1, 1, 6, 6), Rect(2, 2, 5, 5)>>) : r \in Rects(2, 5)}

(* A notched shell, with a hole in the notch and one beside it.            *)
Notched == {Polygon(<<<<0, 0>>, <<4, 0>>, <<4, 4>>, <<3, 4>>, <<3, 1>>, <<1, 1>>, <<1, 4>>, <<0, 4>>>>,
                    <<r>>) : r \in Rects(0, 4)}

(* Rings with one crossing, two lobes apart or one inside the other, and a *)
(* spiked one.                                                             *)
BowTie == <<<<0, 0>>, <<1, 0>>, <<1, 2>>, <<2, 2>>, <<2, 1>>, <<0, 1>>>>
Curl == <<<<0, 0>>, <<4, 0>>, <<4, 4>>, <<1, 4>>, <<1, 1>>, <<3, 1>>, <<3, 3>>, <<0, 3>>>>
Spiked == <<<<0, 0>>, <<2, 0>>, <<2, 2>>, <<2, 1>>, <<0, 1>>>>

Crossed == {Polygon(r, hs) : r \in {BowTie, Spiked, Curl},
                             hs \in {<<>>} \cup {<<h>> : h \in Rects(0, 2) \cup {BowTie, Curl, Spiked}}}

Mixed == Overlaid \cup Nested \cup Notched \cup Crossed

Curled == {Polygon(Turned(r, k), <<>>) : r \in Rects(0, 2) \cup {BowTie, Curl}, k \in 0 .. 3}
=============================================================================
