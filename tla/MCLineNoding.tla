---------------------------- MODULE MCLineNoding ----------------------------
(* Lines and thresholds for the runs of LineNoding. *)
EXTENDS LineNoding

Grid(n) == {<<2 * x, 2 * y>> : x, y \in 0 .. n}

Stepwise(w) == \A i \in 1 .. (Len(w) - 1) : Octilinear([a |-> w[i], b |-> w[i + 1]])

RECURSIVE Walks(_, _)
Walks(starts, k) ==
  IF k = 1 THEN {<<p>> : p \in starts}
  ELSE {w \in {Append(v, p) : v \in Walks(starts, k - 1), p \in Grid(2)} : Stepwise(w)}

(* Corner, side and centre of the grid, up to its symmetries.              *)
Starts == {<<0, 0>>, <<2, 0>>, <<2, 2>>}

Singles == {<<w>> : w \in Walks(Starts, 3) \cup Walks({<<0, 0>>}, 5)
                          \cup {w \in Walks({<<0, 0>>}, 6) : Last(w) = <<0, 0>>}}

Pairs == {<<v, w>> : v \in Walks({<<0, 0>>, <<2, 2>>}, 3), w \in Walks({<<0, 2>>, <<4, 2>>}, 2)}

Triples == {<<u, v, w>> : u \in Walks({<<0, 0>>}, 2), v \in Walks({<<2, 0>>}, 2), w \in Walks({<<2, 2>>}, 2)}

Base == [cell |-> 2, dense |-> 9, crowded |-> FALSE, calls |-> 99, family |-> 9, active |-> 99, retraced |-> 99]
Crossing == [Base EXCEPT !.dense = 0]
General == [Crossing EXCEPT !.calls = 0]

AllInputs == Singles \cup Pairs \cup Triples

AllTunings == {Base, Crossing, General, [General EXCEPT !.family = 1], [General EXCEPT !.active = 1, !.crowded = TRUE],
               [Crossing EXCEPT !.retraced = 4]}
=============================================================================
