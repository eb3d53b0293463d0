-------------------------- MODULE MCPolygonValidity --------------------------
(* Polygons and multipolygons for the runs of PolygonValidity. *)
EXTENDS PolygonValidity

Turned(ring, k) == [i \in DOMAIN ring |-> ring[((i + k - 1) % Len(ring)) + 1]]

Turns(rings) == UNION {{Turned(r, k) : k \in 0 .. Len(r) - 1} : r \in rings}

Square(x, y, n) == <<<<x, y>>, <<x + n, y>>, <<x + n, y + n>>, <<x, y + n>>>>

Diamond(x, y, n) == <<<<x - n, y>>, <<x, y - n>>, <<x + n, y>>, <<x, y + n>>>>

(* Half a square: the corner at (x, y), the legs along the axes.           *)
Corner(x, y, dx, dy) == IF dx * dy > 0 THEN <<<<x, y>>, <<x + dx, y>>, <<x, y + dy>>>>
                        ELSE <<<<x, y>>, <<x, y + dy>>, <<x + dx, y>>>>

Polygon(shell, holes) == [shell |-> shell, holes |-> [k \in DOMAIN holes |-> Reverse(holes[k])]]

Shell == Square(0, 0, 4)

(* A shell whose tips reach the sides of the square inside it.             *)
Waist == <<<<0, 0>>, <<1, 0>>, <<2, 1>>, <<3, 0>>, <<4, 0>>, <<4, 4>>, <<3, 4>>, <<2, 3>>, <<1, 4>>, <<0, 4>>>>

Squares == {Square(x, y, n) : x, y \in 0 .. 3, n \in {1, 2}} \cup {Square(1, 1, 3), Square(0, 1, 3)}
Diamonds == {Diamond(x, y, 1) : x, y \in 1 .. 3} \cup {Diamond(2, 2, 2)}
Corners == {Corner(x, y, dx, dy) : x, y \in {1, 3}, dx, dy \in {-2, 2}}

One == {<<h>> : h \in Turns({s \in Squares : TRUE} \cup Diamonds \cup Corners)}

Two == {<<g, h>> : g \in Diamonds \cup {Square(1, 1, 2), Square(1, 1, 1), Square(2, 1, 2)} \cup Corners,
                   h \in Turns(Diamonds \cup {Square(1, 1, 1), Square(1, 1, 2), Corner(1, 1, 2, 2)})}

Inner == {Corner(1, 1, 2, 2), Corner(3, 1, -2, 2), Corner(1, 3, 2, -2), Corner(3, 3, -2, -2)}

Many == {SetToSeq(S) : S \in UNION {kSubset(n, (Diamonds \ {Diamond(2, 2, 2)}) \cup Inner) : n \in 3 .. 4}}

Single(modes, shell, hs) == {[mode |-> m, parts |-> <<Polygon(shell, h)>>] : m \in modes, h \in hs}

Singles == Single({"validate", "gate", "arrange"}, Shell, One \cup Two \cup Many)

Waists == Single({"validate", "gate", "arrange"}, Waist,
                 {<<Square(1, 1, 2), h>> : h \in Diamonds \cup Squares})

(* Parts: a shell with a hole, and one or two other parts in and around.   *)
Bare == {<<>>} \cup {<<Square(1, 1, 1)>>, <<Square(1, 1, 2)>>, <<Diamond(2, 2, 1)>>}

Others == Turns(Squares \cup Diamonds \cup Corners \cup {Square(4, 4, 1), Square(4, 0, 2), Diamond(5, 2, 1)})

Multis == UNION {{[mode |-> "validate", parts |-> <<Polygon(Shell, hs), Polygon(o, <<>>)>>],
                  [mode |-> "validate", parts |-> <<Polygon(o, <<>>), Polygon(Shell, hs)>>]} : hs \in Bare, o \in Others}
     \cup {[mode |-> "validate", parts |-> <<Polygon(o, hs), Polygon(Turned(Shell, k), <<Square(1, 1, 2)>>)>>] :
              hs \in Bare, o \in {Square(1, 1, 2), Square(1, 1, 3), Diamond(2, 2, 2)}, k \in 0 .. 3}

(* Two holes either way round, and holes over the shell's boundary.        *)
Unlisted == Single({"validate"}, Square(0, 0, 5), Turns({<<Square(2, 2, 1), Square(1, 1, 3)>>, <<Diamond(2, 2, 1), Square(1, 1, 3)>>}))
Giants == Single({"giant"}, Shell, One)

AllInputs == Singles \cup Waists \cup Multis \cup Unlisted \cup Giants
=============================================================================
