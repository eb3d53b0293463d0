------------------------------ MODULE Segments ------------------------------
(***************************************************************************)
(* The pair predicates of the gate and the validator, on the integer       *)
(* lattice.  A line is [a, b]; orientations of lattice points are exact, so *)
(* the error margins and tolerances of the code are zero here: the         *)
(* coordinates are wider apart than any of them.                           *)
(***************************************************************************)
EXTENDS Integers, Sequences

Points == Int \X Int

Orient(a, b, c) == (b[1] - a[1]) * (c[2] - a[2]) - (b[2] - a[2]) * (c[1] - a[1])

Lower(m, n) == IF m < n THEN m ELSE n
Upper(m, n) == IF m < n THEN n ELSE m

Box(l) == [lx |-> Lower(l.a[1], l.b[1]), hx |-> Upper(l.a[1], l.b[1]),
           ly |-> Lower(l.a[2], l.b[2]), hy |-> Upper(l.a[2], l.b[2])]

Join(s, t) == [lx |-> Lower(s.lx, t.lx), hx |-> Upper(s.hx, t.hx),
               ly |-> Lower(s.ly, t.ly), hy |-> Upper(s.hy, t.hy)]

Apart(s, t) == s.hx < t.lx \/ t.hx < s.lx \/ s.hy < t.ly \/ t.hy < s.ly

(* The orientations of each line's ends about the other line.              *)
Sides4(l, m) == <<Orient(l.a, l.b, m.a), Orient(l.a, l.b, m.b),
                  Orient(m.a, m.b, l.a), Orient(m.a, m.b, l.b)>>

ProperlyCross(l, m) == LET o == Sides4(l, m) IN o[1] * o[2] < 0 /\ o[3] * o[4] < 0

(* Collinear, with a common part of positive length: the ends of m as      *)
(* parameters along l.                                                     *)
Overlap(l, m) ==
  LET Along(p) == (p[1] - l.a[1]) * (l.b[1] - l.a[1]) + (p[2] - l.a[2]) * (l.b[2] - l.a[2])
      s == Along(m.a)
      t == Along(m.b)
  IN  /\ Orient(l.a, l.b, m.a) = 0 /\ Orient(l.a, l.b, m.b) = 0
      /\ Upper(0, Lower(s, t)) < Lower(Along(l.b), Upper(s, t))

EdgesIntersect(l, m) == ~Apart(Box(l), Box(m)) /\ (ProperlyCross(l, m) \/ Overlap(l, m))

StrictlyOn(p, l) ==
  /\ p # l.a /\ p # l.b /\ Orient(l.a, l.b, p) = 0
  /\ LET s == Box(l) IN (s.lx < p[1] /\ p[1] < s.hx) \/ (s.ly < p[2] /\ p[2] < s.hy)

VertexOnEdge(l, m) ==
  /\ ~Apart(Box(l), Box(m))
  /\ StrictlyOn(l.a, m) \/ StrictlyOn(l.b, m) \/ StrictlyOn(m.a, l) \/ StrictlyOn(m.b, l)

(* lean_pair_intersects and the flag it leaves: an orientation too close   *)
(* to zero for the floating-point filter to decide.                        *)
Ambiguous(l, m) ==
  ~Apart(Box(l), Box(m)) /\ \E k \in 1 .. 4 : Sides4(l, m)[k] = 0

LeanPairIntersects(l, m) ==
  \/ ProperlyCross(l, m)
  \/ Ambiguous(l, m) /\ (EdgesIntersect(l, m) \/ VertexOnEdge(l, m))

(* The closed segments have a point in common (a definition of its own,    *)
(* not one of the code's).                                                 *)
Meet(l, m) ==
  LET o == Sides4(l, m) IN ~Apart(Box(l), Box(m)) /\ o[1] * o[2] <= 0 /\ o[3] * o[4] <= 0

After(ring, i) == ring[(i % Len(ring)) + 1]

EdgeOf(ring, i) == [a |-> ring[i], b |-> After(ring, i)]

(* The same ring from another vertex, or the other way round.              *)
RotatedDuplicate(r, s) ==
  /\ Len(r) = Len(s)
  /\ \E k \in DOMAIN r : LET At(i) == r[((k + i - 1) % Len(r)) + 1]
                             Back(i) == r[((k - i + Len(r) - 1) % Len(r)) + 1]
                         IN  \/ \A i \in DOMAIN s : At(i - 1) = s[i]
                             \/ \A i \in DOMAIN s : Back(i - 1) = s[i]

(* A simple closed curve: sides meet next to each other, in one point.     *)
Simple(ring) ==
  LET n == Len(ring)
      Next(i, j) == j = i + 1 \/ (i = 1 /\ j = n)
  IN  /\ n >= 3
      /\ \A i \in 1 .. n : ring[i] # After(ring, i)
      /\ \A i, j \in 1 .. n : i < j =>
           IF Next(i, j) THEN ~Overlap(EdgeOf(ring, i), EdgeOf(ring, j))
           ELSE ~Meet(EdgeOf(ring, i), EdgeOf(ring, j))
=============================================================================
