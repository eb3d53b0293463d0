--------------------------- MODULE Segments_proofs ---------------------------
(***************************************************************************)
(* What the pair predicates of the gate and the validator say about lines  *)
(* with ends anywhere on the integer lattice, and what a ring is on which  *)
(* they find nothing.                                                      *)
(***************************************************************************)
EXTENDS Segments, WellFoundedInduction, TLAPS

Lines == [a : Points, b : Points]

(***************************************************************************)
(* Signs of products.                                                      *)
(***************************************************************************)

(* The sign of a product is that of its factors.                           *)
LEMMA SignOfProduct ==
  ASSUME NEW x \in Int, NEW y \in Int
  PROVE  /\ x * y > 0 <=> (x > 0 /\ y > 0) \/ (x < 0 /\ y < 0)
         /\ x * y < 0 <=> (x > 0 /\ y < 0) \/ (x < 0 /\ y > 0)
         /\ x * y = 0 <=> x = 0 \/ y = 0
         /\ x * x >= 0
         /\ x * y \in Int
OBVIOUS

(* Of parallel u and v, one times the other's turn from d is symmetric.    *)
LEMMA TurnScaled ==
  ASSUME NEW u1 \in Int, NEW u2 \in Int, NEW v1 \in Int, NEW v2 \in Int, NEW d1 \in Int, NEW d2 \in Int,
         u1 * v2 = u2 * v1
  PROVE  /\ u1 * (d1 * v2 - d2 * v1) = v1 * (d1 * u2 - d2 * u1)
         /\ u2 * (d1 * v2 - d2 * v1) = v2 * (d1 * u2 - d2 * u1)
OBVIOUS

(* Opposite parallel vectors lie on the two sides of every other.          *)
LEMMA OppositeSides ==
  ASSUME NEW u1 \in Int, NEW u2 \in Int, NEW v1 \in Int, NEW v2 \in Int, NEW d1 \in Int, NEW d2 \in Int,
         u1 * v2 = u2 * v1, u1 * v1 < 0 \/ u2 * v2 < 0
  PROVE  (d1 * u2 - d2 * u1) * (d1 * v2 - d2 * v1) <= 0
<1> DEFINE o == d1 * u2 - d2 * u1
           p == d1 * v2 - d2 * v1
<1>1. o \in Int /\ p \in Int
  OBVIOUS
<1>2. u1 * p = v1 * o /\ u2 * p = v2 * o
  BY TurnScaled
<1> HIDE DEF o, p
<1>3. CASE u1 * v1 < 0
  <2>1. CASE o > 0 /\ p > 0
    BY <1>1, <1>2, <1>3, <2>1, SignOfProduct
  <2>2. CASE o < 0 /\ p < 0
    BY <1>1, <1>2, <1>3, <2>2, SignOfProduct
  <2> QED BY <1>1, <2>1, <2>2, SignOfProduct DEF o, p
<1>4. CASE u2 * v2 < 0
  <2>1. CASE o > 0 /\ p > 0
    BY <1>1, <1>2, <1>4, <2>1, SignOfProduct
  <2>2. CASE o < 0 /\ p < 0
    BY <1>1, <1>2, <1>4, <2>2, SignOfProduct
  <2> QED BY <1>1, <2>1, <2>2, SignOfProduct DEF o, p
<1> QED
  BY <1>3, <1>4

(* Parallel vectors with turns of opposite sign, not both zero, are        *)
(* opposite.                                                               *)
LEMMA Between ==
  ASSUME NEW u1 \in Int, NEW u2 \in Int, NEW v1 \in Int, NEW v2 \in Int, NEW o \in Int, NEW p \in Int,
         u1 * p = v1 * o, u2 * p = v2 * o,
         u1 # 0 \/ u2 # 0, v1 # 0 \/ v2 # 0,
         o * p <= 0, o # p
  PROVE  u1 * v1 < 0 \/ u2 * v2 < 0
<1>4. CASE o = 0
  BY <1>4, SignOfProduct
<1>5. CASE p = 0
  BY <1>5, SignOfProduct
<1>6. CASE o > 0 /\ p < 0
  BY <1>6, SignOfProduct
<1>7. CASE o < 0 /\ p > 0
  BY <1>7, SignOfProduct
<1> QED BY <1>4, <1>5, <1>6, <1>7, SignOfProduct

(***************************************************************************)
(* Points and lines.                                                       *)
(***************************************************************************)

(* An orientation is an integer, the same from each corner, negated by a   *)
(* swap.                                                                   *)
LEMMA OrientIs ==
  ASSUME NEW a \in Points, NEW b \in Points, NEW c \in Points
  PROVE  /\ Orient(a,b,c) \in Int
         /\ Orient(a,b,c) = Orient(b,c,a)
         /\ Orient(a,b,c) = -Orient(b,a,c)
         /\ Orient(a,a,c) = 0
BY DEF Orient, Points

(* A number lies strictly between two others if the differences differ in  *)
(* sign.                                                                   *)
LEMMA InsideIs ==
  ASSUME NEW x \in Int, NEW y \in Int, NEW z \in Int
  PROVE  (x - z) * (y - z) < 0 <=> Lower(x, y) < z /\ z < Upper(x, y)
<1>1. x - z \in Int /\ y - z \in Int
  OBVIOUS
<1>2. (x - z) * (y - z) < 0 <=> (x - z > 0 /\ y - z < 0) \/ (x - z < 0 /\ y - z > 0)
  BY <1>1, SignOfProduct
<1> QED BY <1>2 DEF Lower, Upper

(* A point is its two coordinates.                                         *)
LEMMA Points2 ==
  ASSUME NEW p \in Points, NEW q \in Points
  PROVE  /\ p[1] \in Int /\ p[2] \in Int
         /\ p = q <=> p[1] = q[1] /\ p[2] = q[2]
BY DEF Points

(* An orientation as a cross product of vectors from the third point, and  *)
(* how those of two points differ.                                         *)
LEMMA CrossFrom ==
  ASSUME NEW a \in Points, NEW b \in Points, NEW p \in Points, NEW q \in Points
  PROVE  /\ Orient(a, b, p) = (a[1] - p[1]) * (b[2] - p[2]) - (a[2] - p[2]) * (b[1] - p[1])
         /\ Orient(a, b, q) = Orient(p, q, a) - Orient(p, q, b) + Orient(a, b, p)
<1>1. /\ a[1] \in Int /\ a[2] \in Int /\ b[1] \in Int /\ b[2] \in Int
      /\ p[1] \in Int /\ p[2] \in Int /\ q[1] \in Int /\ q[2] \in Int
  BY Points2
<1>2. ASSUME NEW a1 \in Int, NEW a2 \in Int, NEW b1 \in Int, NEW b2 \in Int, NEW p1 \in Int, NEW p2 \in Int,
             NEW q1 \in Int, NEW q2 \in Int
      PROVE  /\ (b1 - a1) * (p2 - a2) - (b2 - a2) * (p1 - a1) = (a1 - p1) * (b2 - p2) - (a2 - p2) * (b1 - p1)
             /\ (b1 - a1) * (q2 - a2) - (b2 - a2) * (q1 - a1)
                  = ((q1 - p1) * (a2 - p2) - (q2 - p2) * (a1 - p1))
                    - ((q1 - p1) * (b2 - p2) - (q2 - p2) * (b1 - p1))
                    + ((b1 - a1) * (p2 - a2) - (b2 - a2) * (p1 - a1))
  OBVIOUS
<1> QED BY <1>1, <1>2 DEF Orient

(* A point is strictly on a line (point_strictly_on_segment) if it is      *)
(* collinear and strictly within in one coordinate.                        *)
LEMMA StrictlyOnIs ==
  ASSUME NEW p \in Points, NEW l \in Lines
  PROVE  /\ StrictlyOn(p, l) <=>
           /\ Orient(l.a, l.b, p) = 0
           /\ \/ (l.a[1] - p[1]) * (l.b[1] - p[1]) < 0
              \/ (l.a[2] - p[2]) * (l.b[2] - p[2]) < 0
         /\ StrictlyOn(p, l) <=>
           /\ Orient(l.a, l.b, p) = 0
           /\ \/ Lower(l.a[1], l.b[1]) < p[1] /\ p[1] < Upper(l.a[1], l.b[1])
              \/ Lower(l.a[2], l.b[2]) < p[2] /\ p[2] < Upper(l.a[2], l.b[2])
<1> DEFINE a == l.a
           b == l.b
<1>1. /\ a \in Points /\ b \in Points /\ p \in Points
      /\ a[1] \in Int /\ a[2] \in Int /\ b[1] \in Int /\ b[2] \in Int /\ p[1] \in Int /\ p[2] \in Int
      /\ p = <<p[1], p[2]>> /\ a = <<a[1], a[2]>> /\ b = <<b[1], b[2]>>
  BY DEF Points, Lines
<1> HIDE DEF a, b
<1>2. /\ (a[1] - p[1]) * (b[1] - p[1]) < 0 <=>
            Lower(a[1], b[1]) < p[1] /\ p[1] < Upper(a[1], b[1])
      /\ (a[2] - p[2]) * (b[2] - p[2]) < 0 <=>
            Lower(a[2], b[2]) < p[2] /\ p[2] < Upper(a[2], b[2])
  BY <1>1, InsideIs
<1>3. StrictlyOn(p, l) <=>
        /\ p # a /\ p # b /\ Orient(a, b, p) = 0
        /\ \/ Lower(a[1], b[1]) < p[1] /\ p[1] < Upper(a[1], b[1])
           \/ Lower(a[2], b[2]) < p[2] /\ p[2] < Upper(a[2], b[2])
  BY DEF StrictlyOn, Box, a, b
<1>4. \/ Lower(a[1], b[1]) < p[1] /\ p[1] < Upper(a[1], b[1])
      \/ Lower(a[2], b[2]) < p[2] /\ p[2] < Upper(a[2], b[2])
      => p # a /\ p # b
  BY <1>1 DEF Lower, Upper
<1> QED
  BY <1>2, <1>3, <1>4, Zenon DEF a, b

(* A line through a point strictly on m has the ends of m on its two       *)
(* sides.                                                                  *)
LEMMA OnSplits ==
  ASSUME NEW m \in Lines, NEW p \in Points, NEW q \in Points, StrictlyOn(p, m)
  PROVE  Orient(p, q, m.a) * Orient(p, q, m.b) <= 0
<1> DEFINE u1 == m.a[1] - p[1]
           u2 == m.a[2] - p[2]
           v1 == m.b[1] - p[1]
           v2 == m.b[2] - p[2]
           d1 == q[1] - p[1]
           d2 == q[2] - p[2]
<1>1. u1 \in Int /\ u2 \in Int /\ v1 \in Int /\ v2 \in Int /\ d1 \in Int /\ d2 \in Int
  BY DEF Points, Lines
<1>2. u1 * v1 < 0 \/ u2 * v2 < 0
  BY StrictlyOnIs
<1>3. u1 * v2 = u2 * v1
  <2>1. Orient(m.a, m.b, p) = 0
    BY StrictlyOnIs
  <2>2. m.a \in Points /\ m.b \in Points
    BY DEF Lines
  <2>3. u1 * v2 - u2 * v1 = 0
    BY <2>1, <2>2, CrossFrom
  <2> QED BY <1>1, <2>3
<1>4. /\ Orient(p, q, m.a) = d1 * u2 - d2 * u1
      /\ Orient(p, q, m.b) = d1 * v2 - d2 * v1
  BY DEF Orient
<1> HIDE DEF u1, u2, v1, v2, d1, d2
<1>5. (d1 * u2 - d2 * u1) * (d1 * v2 - d2 * v1) <= 0
  BY <1>1, <1>2, <1>3, OppositeSides
<1> QED BY <1>4, <1>5

(* An end on the other line that the ends of that line lie around is       *)
(* strictly on it.                                                         *)
LEMMA EndOn ==
  ASSUME NEW l \in Lines, NEW p \in Points, NEW q \in Points,
         Orient(l.a, l.b, p) = 0, Orient(l.a, l.b, q) # 0,
         p # l.a, p # l.b,
         Orient(p, q, l.a) * Orient(p, q, l.b) <= 0
  PROVE  StrictlyOn(p, l)
<1> DEFINE u1 == l.a[1] - p[1]
           u2 == l.a[2] - p[2]
           v1 == l.b[1] - p[1]
           v2 == l.b[2] - p[2]
           d1 == q[1] - p[1]
           d2 == q[2] - p[2]
<1>1. u1 \in Int /\ u2 \in Int /\ v1 \in Int /\ v2 \in Int /\ d1 \in Int /\ d2 \in Int
  BY DEF Points, Lines
<1>0. l.a \in Points /\ l.b \in Points
  BY DEF Lines
<1>2. u1 * v2 = u2 * v1
  <2>1. u1 * v2 - u2 * v1 = 0
    BY <1>0, CrossFrom
  <2> QED BY <1>1, <2>1
<1>3. (u1 # 0 \/ u2 # 0) /\ (v1 # 0 \/ v2 # 0)
  BY <1>0, Points2
<1>4. /\ Orient(p, q, l.a) = d1 * u2 - d2 * u1
      /\ Orient(p, q, l.b) = d1 * v2 - d2 * v1
  BY DEF Orient
<1>5. Orient(p, q, l.a) # Orient(p, q, l.b)
  <2>1. Orient(p, q, l.a) \in Int /\ Orient(p, q, l.b) \in Int
    BY <1>0, OrientIs
  <2> QED BY <1>0, <2>1, CrossFrom
<1> HIDE DEF u1, u2, v1, v2, d1, d2
<1>6. /\ u1 * Orient(p, q, l.b) = v1 * Orient(p, q, l.a)
      /\ u2 * Orient(p, q, l.b) = v2 * Orient(p, q, l.a)
  BY <1>1, <1>2, <1>4, TurnScaled
<1>7. u1 * v1 < 0 \/ u2 * v2 < 0
  <2>1. Orient(p, q, l.a) \in Int /\ Orient(p, q, l.b) \in Int
    BY <1>0, OrientIs
  <2> QED BY <1>1, <1>3, <1>5, <1>6, <2>1, Between
<1> QED BY <1>7, StrictlyOnIs DEF u1, u2, v1, v2

(* Two intervals that meet and have no end in common: an end is inside.    *)
LEMMA IntervalsTouch ==
  ASSUME NEW x \in Int, NEW y \in Int, NEW z \in Int, NEW w \in Int,
         x # y, z # w, x # z, x # w, y # z, y # w,
         Upper(x, y) >= Lower(z, w), Upper(z, w) >= Lower(x, y)
  PROVE  \/ Lower(x, y) < z /\ z < Upper(x, y)
         \/ Lower(x, y) < w /\ w < Upper(x, y)
         \/ Lower(z, w) < x /\ x < Upper(z, w)
         \/ Lower(z, w) < y /\ y < Upper(z, w)
BY DEF Lower, Upper

(* Distinct points of a line differ in each coordinate the line moves in.  *)
LEMMA ApartOnLine ==
  ASSUME NEW d1 \in Int, NEW d2 \in Int, NEW p1 \in Int, NEW p2 \in Int, NEW q1 \in Int, NEW q2 \in Int,
         NEW a1 \in Int, NEW a2 \in Int,
         d1 * (p2 - a2) = d2 * (p1 - a1), d1 * (q2 - a2) = d2 * (q1 - a1),
         p1 # q1 \/ p2 # q2
  PROVE  (d1 # 0 => p1 # q1) /\ (d2 # 0 => p2 # q2)
<1>1. d1 * (p2 - q2) = d2 * (p1 - q1)
  OBVIOUS
<1>2. /\ p2 - q2 \in Int /\ p1 - q1 \in Int /\ d1 * 0 = 0 /\ d2 * 0 = 0
  OBVIOUS
<1>3. ASSUME p1 = q1 PROVE d1 = 0
  <2>1. p2 - q2 # 0 /\ p1 - q1 = 0
    BY <1>3
  <2>2. d1 * (p2 - q2) = 0
    BY <1>1, <1>2, <2>1
  <2> QED BY <1>2, <2>1, <2>2, SignOfProduct
<1>4. ASSUME p2 = q2 PROVE d2 = 0
  <2>1. p1 - q1 # 0 /\ p2 - q2 = 0
    BY <1>4
  <2>2. d2 * (p1 - q1) = 0
    BY <1>1, <1>2, <2>1
  <2> QED BY <1>2, <2>1, <2>2, SignOfProduct
<1> QED BY <1>3, <1>4

(* A line with its ends on another one has that one's ends on it.          *)
LEMMA Collinear ==
  ASSUME NEW l \in Lines, NEW m \in Lines, l.a # l.b,
         Orient(l.a, l.b, m.a) = 0, Orient(l.a, l.b, m.b) = 0
  PROVE  Orient(m.a, m.b, l.a) = 0 /\ Orient(m.a, m.b, l.b) = 0
<1>1. /\ l.a \in Points /\ l.b \in Points /\ m.a \in Points /\ m.b \in Points
  BY DEF Lines
<1> DEFINE a1 == l.a[1]
           a2 == l.a[2]
           d1 == l.b[1] - a1
           d2 == l.b[2] - a2
           u1 == m.a[1] - a1
           u2 == m.a[2] - a2
           v1 == m.b[1] - a1
           v2 == m.b[2] - a2
<1>2. /\ d1 \in Int /\ d2 \in Int /\ u1 \in Int /\ u2 \in Int /\ v1 \in Int /\ v2 \in Int
      /\ d1 # 0 \/ d2 # 0
  BY <1>1, Points2
<1>3. Orient(l.a, l.b, m.a) = d1 * u2 - d2 * u1 /\ Orient(l.a, l.b, m.b) = d1 * v2 - d2 * v1
  BY DEF Orient
<1>4. Orient(m.a, m.b, l.a) = u1 * v2 - u2 * v1
  BY <1>1, CrossFrom
<1> HIDE DEF d1, d2, u1, u2, v1, v2
<1>5. d1 * u2 = d2 * u1 /\ d1 * v2 = d2 * v1
  BY <1>2, <1>3
<1>6. u1 * v2 = u2 * v1
  BY <1>2, <1>5
<1>7. Orient(m.a, m.b, l.a) = 0
  BY <1>2, <1>4, <1>6
<1>8. Orient(l.a, l.b, m.a) = Orient(m.a, m.b, l.a) - Orient(m.a, m.b, l.b) + Orient(l.a, l.b, m.a)
  <2>1. /\ Orient(l.a, l.b, m.b) = Orient(m.a, m.b, l.a) - Orient(m.a, m.b, l.b) + Orient(l.a, l.b, m.a)
    BY <1>1, CrossFrom
  <2> QED BY <2>1
<1> QED
  BY <1>1, <1>7, <1>8, OrientIs

(* Collinear lines that meet without a common end: an end is strictly on   *)
(* the other (edges_vertex_on_edge).                                       *)
LEMMA CollinearMeet ==
  ASSUME NEW l \in Lines, NEW m \in Lines, l.a # l.b, m.a # m.b,
         Orient(l.a, l.b, m.a) = 0, Orient(l.a, l.b, m.b) = 0,
         ~Apart(Box(l), Box(m)),
         l.a # m.a, l.a # m.b, l.b # m.a, l.b # m.b
  PROVE  VertexOnEdge(l, m)
<1>1. /\ l.a \in Points /\ l.b \in Points /\ m.a \in Points /\ m.b \in Points
  BY DEF Lines
<1> DEFINE a1 == l.a[1]
           a2 == l.a[2]
           b1 == l.b[1]
           b2 == l.b[2]
           p1 == m.a[1]
           p2 == m.a[2]
           q1 == m.b[1]
           q2 == m.b[2]
           d1 == l.b[1] - a1
           d2 == l.b[2] - a2
<1>2. /\ a1 \in Int /\ a2 \in Int /\ b1 \in Int /\ b2 \in Int
      /\ p1 \in Int /\ p2 \in Int /\ q1 \in Int /\ q2 \in Int
      /\ d1 \in Int /\ d2 \in Int /\ (d1 # 0 \/ d2 # 0)
      /\ a1 # p1 \/ a2 # p2
      /\ a1 # q1 \/ a2 # q2
      /\ b1 # p1 \/ b2 # p2
      /\ b1 # q1 \/ b2 # q2
      /\ a1 # b1 \/ a2 # b2
      /\ p1 # q1 \/ p2 # q2
  BY <1>1, Points2
<1>3. /\ d1 * (p2 - a2) = d2 * (p1 - a1)
      /\ d1 * (q2 - a2) = d2 * (q1 - a1)
      /\ d1 * (b2 - a2) = d2 * (b1 - a1)
      /\ d1 * (a2 - a2) = d2 * (a1 - a1)
  <2>1. /\ d1 * (p2 - a2) - d2 * (p1 - a1) = 0
        /\ d1 * (q2 - a2) - d2 * (q1 - a1) = 0
    BY DEF Orient
  <2>2. /\ d1 * (b2 - a2) - d2 * (b1 - a1) = 0
        /\ d1 * (a2 - a2) - d2 * (a1 - a1) = 0
    BY <1>2
  <2> HIDE DEF d1, d2, a1, a2, b1, b2, p1, p2, q1, q2
  <2> QED BY <1>2, <2>1, <2>2
<1>4. /\ Upper(a1, b1) >= Lower(p1, q1) /\ Upper(p1, q1) >= Lower(a1, b1)
      /\ Upper(a2, b2) >= Lower(p2, q2) /\ Upper(p2, q2) >= Lower(a2, b2)
  BY <1>2 DEF Apart, Box, Lower, Upper
<1> HIDE DEF d1, d2, a1, a2, b1, b2, p1, p2, q1, q2
<1>5. /\ d1 # 0 => a1 # b1 /\ p1 # q1 /\ a1 # p1 /\ a1 # q1 /\ b1 # p1 /\ b1 # q1
      /\ d2 # 0 => a2 # b2 /\ p2 # q2 /\ a2 # p2 /\ a2 # q2 /\ b2 # p2 /\ b2 # q2
  BY <1>2, <1>3, ApartOnLine
<1>6. \/ Lower(a1, b1) < p1 /\ p1 < Upper(a1, b1)
      \/ Lower(a1, b1) < q1 /\ q1 < Upper(a1, b1)
      \/ Lower(p1, q1) < a1 /\ a1 < Upper(p1, q1)
      \/ Lower(p1, q1) < b1 /\ b1 < Upper(p1, q1)
      \/ Lower(a2, b2) < p2 /\ p2 < Upper(a2, b2)
      \/ Lower(a2, b2) < q2 /\ q2 < Upper(a2, b2)
      \/ Lower(p2, q2) < a2 /\ a2 < Upper(p2, q2)
      \/ Lower(p2, q2) < b2 /\ b2 < Upper(p2, q2)
  <2>1. CASE d1 # 0
    BY <1>2, <1>4, <1>5, <2>1, IntervalsTouch
  <2>2. CASE d2 # 0
    BY <1>2, <1>4, <1>5, <2>2, IntervalsTouch
  <2> QED BY <1>2, <2>1, <2>2
<1>7. Orient(m.a, m.b, l.a) = 0 /\ Orient(m.a, m.b, l.b) = 0
  BY Collinear
<1>8. StrictlyOn(l.a, m) \/ StrictlyOn(l.b, m) \/ StrictlyOn(m.a, l) \/ StrictlyOn(m.b, l)
  BY <1>1, <1>6, <1>7, StrictlyOnIs DEF a1, a2, b1, b2, p1, p2, q1, q2
<1> QED BY <1>8 DEF VertexOnEdge

(* The four orientations orient4 computes.                                 *)
LEMMA SidesAre ==
  ASSUME NEW l \in Lines, NEW m \in Lines
  PROVE  /\ Sides4(l, m)[1] = Orient(l.a, l.b, m.a) /\ Sides4(l, m)[2] = Orient(l.a, l.b, m.b)
         /\ Sides4(l, m)[3] = Orient(m.a, m.b, l.a) /\ Sides4(l, m)[4] = Orient(m.a, m.b, l.b)
         /\ Orient(l.a, l.b, m.a) \in Int /\ Orient(l.a, l.b, m.b) \in Int
         /\ Orient(m.a, m.b, l.a) \in Int /\ Orient(m.a, m.b, l.b) \in Int
         /\ l.a \in Points /\ l.b \in Points /\ m.a \in Points /\ m.b \in Points
<1>1. l.a \in Points /\ l.b \in Points /\ m.a \in Points /\ m.b \in Points
  BY DEF Lines
<1> QED BY <1>1, OrientIs DEF Sides4

(* Meeting is symmetric.                                                   *)
LEMMA MeetSymmetric ==
  ASSUME NEW l \in Lines, NEW m \in Lines
  PROVE  Meet(l, m) <=> Meet(m, l)
<1>1. Apart(Box(l), Box(m)) <=> Apart(Box(m), Box(l))
  BY DEF Apart
<1> QED BY <1>1, SidesAre DEF Meet

(* Lines that meet without a common end are found by                       *)
(* lean_pair_intersects.                                                   *)
LEMMA MeetHits ==
  ASSUME NEW l \in Lines, NEW m \in Lines, l.a # l.b, m.a # m.b,
         l.a # m.a, l.a # m.b, l.b # m.a, l.b # m.b,
         Meet(l, m)
  PROVE  LeanPairIntersects(l, m)
<1> DEFINE o1 == Orient(l.a, l.b, m.a)
           o2 == Orient(l.a, l.b, m.b)
           o3 == Orient(m.a, m.b, l.a)
           o4 == Orient(m.a, m.b, l.b)
<1>1. /\ o1 \in Int /\ o2 \in Int /\ o3 \in Int /\ o4 \in Int
      /\ Sides4(l, m)[1] = o1 /\ Sides4(l, m)[2] = o2
      /\ Sides4(l, m)[3] = o3 /\ Sides4(l, m)[4] = o4
      /\ l.a \in Points /\ l.b \in Points /\ m.a \in Points /\ m.b \in Points
  BY SidesAre
<1>2. ~Apart(Box(l), Box(m)) /\ o1 * o2 <= 0 /\ o3 * o4 <= 0
  BY <1>1 DEF Meet
<1>3. ProperlyCross(l, m) <=> o1 * o2 < 0 /\ o3 * o4 < 0
  BY <1>1 DEF ProperlyCross
<1>4. o1 = 0 /\ o2 = 0 <=> o3 = 0 /\ o4 = 0
  BY <1>1, Collinear
<1> HIDE DEF o1, o2, o3, o4
<1>5. CASE ProperlyCross(l, m)
  BY <1>5 DEF LeanPairIntersects
<1>6. CASE ~ProperlyCross(l, m)
  <2>1. o1 = 0 \/ o2 = 0 \/ o3 = 0 \/ o4 = 0
    BY <1>1, <1>2, <1>3, <1>6, SignOfProduct
  <2>2. Ambiguous(l, m)
    BY <1>1, <1>2, <2>1 DEF Ambiguous
  <2>3. VertexOnEdge(l, m)
    <3>1. CASE o1 = 0 /\ o2 = 0
      BY <1>2, <3>1, CollinearMeet DEF o1, o2
    <3>2. CASE o1 = 0 /\ o2 # 0
      <4>1. StrictlyOn(m.a, l)
        BY <1>1, <1>2, <3>2, EndOn DEF o1, o2, o3, o4
      <4> QED BY <1>2, <4>1 DEF VertexOnEdge
    <3>3. CASE o2 = 0 /\ o1 # 0
      <4>1. Orient(m.b, m.a, l.a) * Orient(m.b, m.a, l.b) <= 0
        <5>1. Orient(m.b, m.a, l.a) = -o3 /\ Orient(m.b, m.a, l.b) = -o4
          BY <1>1, OrientIs DEF o3, o4
        <5>2. (-o3) * (-o4) = o3 * o4
          BY <1>1
        <5> QED BY <1>2, <5>1, <5>2
      <4>2. StrictlyOn(m.b, l)
        BY <1>1, <4>1, <3>3, EndOn DEF o1, o2
      <4> QED BY <1>2, <4>2 DEF VertexOnEdge
    <3>4. CASE o3 = 0 /\ o4 # 0
      <4>1. StrictlyOn(l.a, m)
        BY <1>1, <1>2, <3>4, EndOn DEF o1, o2, o3, o4
      <4> QED BY <1>2, <4>1 DEF VertexOnEdge
    <3>5. CASE o4 = 0 /\ o3 # 0
      <4>1. Orient(l.b, l.a, m.a) * Orient(l.b, l.a, m.b) <= 0
        <5>1. Orient(l.b, l.a, m.a) = -o1 /\ Orient(l.b, l.a, m.b) = -o2
          BY <1>1, OrientIs DEF o1, o2
        <5>2. (-o1) * (-o2) = o1 * o2
          BY <1>1
        <5> QED BY <1>2, <5>1, <5>2
      <4>2. StrictlyOn(l.b, m)
        BY <1>1, <4>1, <3>5, EndOn DEF o3, o4
      <4> QED BY <1>2, <4>2 DEF VertexOnEdge
    <3> QED BY <1>1, <1>4, <2>1, <3>1, <3>2, <3>3, <3>4, <3>5
  <2> QED BY <2>2, <2>3 DEF LeanPairIntersects
<1> QED BY <1>5, <1>6

(* Lines that lean_pair_intersects finds do meet.                          *)
LEMMA LeanMeets ==
  ASSUME NEW l \in Lines, NEW m \in Lines, l.a # l.b, m.a # m.b,
         ~Apart(Box(l), Box(m)), LeanPairIntersects(l, m)
  PROVE  Meet(l, m)
<1> DEFINE o1 == Orient(l.a, l.b, m.a)
           o2 == Orient(l.a, l.b, m.b)
           o3 == Orient(m.a, m.b, l.a)
           o4 == Orient(m.a, m.b, l.b)
<1>1. /\ o1 \in Int /\ o2 \in Int /\ o3 \in Int /\ o4 \in Int
      /\ Sides4(l, m)[1] = o1 /\ Sides4(l, m)[2] = o2
      /\ Sides4(l, m)[3] = o3 /\ Sides4(l, m)[4] = o4
      /\ l.a \in Points /\ l.b \in Points /\ m.a \in Points /\ m.b \in Points
  BY SidesAre
<1>2. Meet(l, m) <=> o1 * o2 <= 0 /\ o3 * o4 <= 0
  BY <1>1 DEF Meet
<1>3. ProperlyCross(l, m) <=> o1 * o2 < 0 /\ o3 * o4 < 0
  BY <1>1 DEF ProperlyCross
<1>4. /\ Orient(l.b, l.a, m.a) * Orient(l.b, l.a, m.b) = o1 * o2
      /\ Orient(m.b, m.a, l.a) * Orient(m.b, m.a, l.b) = o3 * o4
  <2>1. /\ Orient(l.b, l.a, m.a) = -o1 /\ Orient(l.b, l.a, m.b) = -o2
        /\ Orient(m.b, m.a, l.a) = -o3 /\ Orient(m.b, m.a, l.b) = -o4
    BY <1>1, OrientIs DEF o1, o2, o3, o4
  <2> HIDE DEF o1, o2, o3, o4
  <2>2. (-o1) * (-o2) = o1 * o2 /\ (-o3) * (-o4) = o3 * o4
    BY <1>1
  <2> QED BY <2>1, <2>2
<1>5. CASE ProperlyCross(l, m)
  <2> HIDE DEF o1, o2, o3, o4
  <2> QED BY <1>1, <1>2, <1>3, <1>5
<1>6. CASE Overlap(l, m)
  <2>1. o1 = 0 /\ o2 = 0
    BY <1>6 DEF Overlap
  <2>2. o3 = 0 /\ o4 = 0
    BY <2>1, Collinear
  <2> HIDE DEF o1, o2, o3, o4
  <2> QED BY <1>2, <2>1, <2>2
<1>7. CASE StrictlyOn(l.a, m)
  <2>1. o3 = 0 /\ o1 * o2 <= 0
    BY <1>1, <1>7, StrictlyOnIs, OnSplits
  <2> HIDE DEF o1, o2, o3, o4
  <2> QED BY <1>1, <1>2, <2>1
<1>8. CASE StrictlyOn(l.b, m)
  <2>1. o4 = 0 /\ o1 * o2 <= 0
    BY <1>1, <1>4, <1>8, StrictlyOnIs, OnSplits
  <2> HIDE DEF o1, o2, o3, o4
  <2> QED BY <1>1, <1>2, <2>1
<1>9. CASE StrictlyOn(m.a, l)
  <2>1. o1 = 0 /\ o3 * o4 <= 0
    BY <1>1, <1>9, StrictlyOnIs, OnSplits
  <2> HIDE DEF o1, o2, o3, o4
  <2> QED BY <1>1, <1>2, <2>1
<1>10. CASE StrictlyOn(m.b, l)
  <2>1. o2 = 0 /\ o3 * o4 <= 0
    BY <1>1, <1>4, <1>10, StrictlyOnIs, OnSplits
  <2> HIDE DEF o1, o2, o3, o4
  <2> QED BY <1>1, <1>2, <2>1
<1> QED
  BY <1>5, <1>6, <1>7, <1>8, <1>9, <1>10 DEF LeanPairIntersects, EdgesIntersect, VertexOnEdge

(***************************************************************************)
(* Sides that follow each other.                                           *)
(***************************************************************************)

Side(a, b) == [a |-> a, b |-> b]

(* The ring turns back at b.                                              *)
Spike(a, b, c) ==
  /\ Orient(a, b, c) = 0
  /\ (a[1] - b[1]) * (c[1] - b[1]) + (a[2] - b[2]) * (c[2] - b[2]) > 0

(* The square of a length other than zero is positive.                     *)
LEMMA Squares ==
  ASSUME NEW x \in Int, NEW y \in Int, x # 0 \/ y # 0
  PROVE  x * x + y * y > 0 /\ x * x + y * y \in Int
<1>1. /\ x * x \in Int /\ y * y \in Int /\ x * x >= 0 /\ y * y >= 0
      /\ x # 0 => x * x > 0
      /\ y # 0 => y * y > 0
  BY SignOfProduct
<1> QED BY <1>1

(* Sides that follow each other overlap exactly at a spike, in either      *)
(* order.                                                                  *)
LEMMA SpikeOverlaps ==
  ASSUME NEW a \in Points, NEW b \in Points, NEW c \in Points, a # b, b # c
  PROVE  /\ Overlap(Side(a, b), Side(b, c)) <=> Spike(a, b, c)
         /\ Overlap(Side(b, c), Side(a, b)) <=> Spike(a, b, c)
<1> DEFINE u1 == a[1] - b[1]
           u2 == a[2] - b[2]
           w1 == c[1] - b[1]
           w2 == c[2] - b[2]
           U == u1 * u1 + u2 * u2
           W == w1 * w1 + w2 * w2
           t == u1 * w1 + u2 * w2
<1>1. /\ u1 \in Int /\ u2 \in Int /\ w1 \in Int /\ w2 \in Int
      /\ u1 # 0 \/ u2 # 0
      /\ w1 # 0 \/ w2 # 0
      /\ a[1] \in Int /\ a[2] \in Int /\ b[1] \in Int /\ b[2] \in Int /\ c[1] \in Int /\ c[2] \in Int
  BY Points2
<1>2. /\ (b[1] - a[1]) * (b[1] - a[1]) + (b[2] - a[2]) * (b[2] - a[2]) = U
      /\ (c[1] - a[1]) * (b[1] - a[1]) + (c[2] - a[2]) * (b[2] - a[2]) = U - t
  BY <1>1
<1>3. Orient(a, b, b) = 0 /\ Orient(b, c, b) = 0 /\ Orient(a, b, c) = Orient(b, c, a)
  BY OrientIs, OrientIs DEF Orient, Points
<1>4. /\ (a[1] - b[1]) * (c[1] - b[1]) + (a[2] - b[2]) * (c[2] - b[2]) = t
      /\ (b[1] - b[1]) * (c[1] - b[1]) + (b[2] - b[2]) * (c[2] - b[2]) = 0
      /\ (c[1] - b[1]) * (c[1] - b[1]) + (c[2] - b[2]) * (c[2] - b[2]) = W
  BY <1>1
<1>5. U > 0 /\ W > 0 /\ U \in Int /\ W \in Int /\ t \in Int
  <2> HIDE DEF u1, u2, w1, w2
  <2> QED BY <1>1, Squares, SignOfProduct
<1> HIDE DEF U, W, t, u1, u2, w1, w2
<1>6. Overlap(Side(a, b), Side(b, c)) <=>
        Orient(a, b, c) = 0 /\ Upper(0, Lower(U, U - t)) < Lower(U, Upper(U, U - t))
  BY <1>2, <1>3 DEF Overlap, Side
<1>7. Overlap(Side(b, c), Side(a, b)) <=>
        Orient(a, b, c) = 0 /\ Upper(0, Lower(t, 0)) < Lower(W, Upper(t, 0))
  BY <1>3, <1>4 DEF Overlap, Side
<1>8. Spike(a, b, c) <=> Orient(a, b, c) = 0 /\ t > 0
  BY <1>4 DEF Spike
<1>9. /\ Upper(0, Lower(U, U - t)) < Lower(U, Upper(U, U - t)) <=> t > 0
      /\ Upper(0, Lower(t, 0)) < Lower(W, Upper(t, 0)) <=> t > 0
  BY <1>5 DEF Upper, Lower
<1> QED BY <1>6, <1>7, <1>8, <1>9

(* Two numbers of one sign are equal, or one lies between zero and the     *)
(* other.                                                                  *)
LEMMA SameSign ==
  ASSUME NEW x \in Int, NEW y \in Int
  PROVE  /\ x * y > 0 => x = y \/ (x - y) * (-y) < 0 \/ (-x) * (y - x) < 0
         /\ (x - y) * (-y) < 0 \/ (-x) * (y - x) < 0 => x * y > 0
<1>1. x - y \in Int /\ -y \in Int /\ -x \in Int /\ y - x \in Int
  OBVIOUS
<1>2. /\ x * y > 0 <=> (x > 0 /\ y > 0) \/ (x < 0 /\ y < 0)
      /\ (x - y) * (-y) < 0 <=> (x - y > 0 /\ -y < 0) \/ (x - y < 0 /\ -y > 0)
      /\ (-x) * (y - x) < 0 <=> (-x > 0 /\ y - x < 0) \/ (-x < 0 /\ y - x > 0)
  BY <1>1, SignOfProduct
<1> QED BY <1>2

(* Parallel vectors that agree in one coordinate's sign agree in the       *)
(* other's.                                                                *)
LEMMA ParallelParts ==
  ASSUME NEW u1 \in Int, NEW u2 \in Int, NEW w1 \in Int, NEW w2 \in Int,
         u2 * w1 = u1 * w2, u1 * w1 > 0
  PROVE  u2 * w2 >= 0 /\ (u1 = w1 => u2 = w2)
<1> DEFINE q == u1 * w2
           r == u2 * w1
<1>1. (u1 * w1) * (u2 * w2) = q * r /\ q = r /\ q \in Int
  OBVIOUS
<1> HIDE DEF q, r
<1>2. /\ u1 * w1 \in Int /\ u2 * w2 \in Int
      /\ (u1 * w1) * (u2 * w2) >= 0
  <2>1. q * r = q * q
    BY <1>1
  <2> QED BY <1>1, <2>1, SignOfProduct
<1>3. u2 * w2 >= 0
  BY <1>1, <1>2, SignOfProduct
<1>4. ASSUME u1 = w1 PROVE u2 = w2
  <2>1. u1 * (w2 - u2) = 0 /\ u1 # 0 /\ w2 - u2 \in Int
    BY <1>4
  <2> QED BY <2>1, SignOfProduct
<1> QED BY <1>3, <1>4

(* At a spike an end lies on the other side, and nowhere else.             *)
LEMMA SpikeEnds ==
  ASSUME NEW a \in Points, NEW b \in Points, NEW c \in Points, a # b, b # c
  PROVE  Spike(a, b, c) <=> a = c \/ StrictlyOn(c, Side(a, b)) \/ StrictlyOn(a, Side(b, c))
<1> DEFINE u1 == a[1] - b[1]
           u2 == a[2] - b[2]
           w1 == c[1] - b[1]
           w2 == c[2] - b[2]
<1>1. /\ u1 \in Int /\ u2 \in Int /\ w1 \in Int /\ w2 \in Int
      /\ u1 # 0 \/ u2 # 0
      /\ w1 # 0 \/ w2 # 0
      /\ a = c <=> u1 = w1 /\ u2 = w2
      /\ a[1] - c[1] = u1 - w1 /\ a[2] - c[2] = u2 - w2
      /\ b[1] - c[1] = -w1 /\ b[2] - c[2] = -w2
      /\ b[1] - a[1] = -u1 /\ b[2] - a[2] = -u2
      /\ c[1] - a[1] = w1 - u1 /\ c[2] - a[2] = w2 - u2
  <2>1. /\ a[1] \in Int /\ a[2] \in Int /\ b[1] \in Int /\ b[2] \in Int /\ c[1] \in Int /\ c[2] \in Int
        /\ a[1] # b[1] \/ a[2] # b[2]
        /\ c[1] # b[1] \/ c[2] # b[2]
    BY Points2
  <2>2. a = c <=> a[1] = c[1] /\ a[2] = c[2]
    BY Points2
  <2>3. a = c <=> u1 = w1 /\ u2 = w2
    BY <2>1, <2>2
  <2>4. /\ u1 # 0 \/ u2 # 0
        /\ w1 # 0 \/ w2 # 0
    BY <2>1
  <2>5. /\ a[1] - c[1] = u1 - w1 /\ a[2] - c[2] = u2 - w2
        /\ b[1] - c[1] = -w1 /\ b[2] - c[2] = -w2
        /\ b[1] - a[1] = -u1 /\ b[2] - a[2] = -u2
        /\ c[1] - a[1] = w1 - u1 /\ c[2] - a[2] = w2 - u2
    BY <2>1
  <2> QED BY <2>1, <2>3, <2>4, <2>5
<1>2. Orient(a, b, c) = u2 * w1 - u1 * w2
  <2>1. Orient(a, b, c) = (-u1) * (w2 - u2) - (-u2) * (w1 - u1)
    BY <1>1 DEF Orient
  <2> HIDE DEF u1, u2, w1, w2
  <2> QED BY <1>1, <2>1
<1>3. Spike(a, b, c) <=> Orient(a, b, c) = 0 /\ u1 * w1 + u2 * w2 > 0
  BY DEF Spike
<1>4. /\ Orient(b, c, a) = Orient(a, b, c)
      /\ Side(a, b) \in Lines /\ Side(b, c) \in Lines
      /\ Side(a, b).a = a /\ Side(a, b).b = b /\ Side(b, c).a = b /\ Side(b, c).b = c
  BY OrientIs DEF Side, Lines
<1>5. StrictlyOn(c, Side(a, b)) <=>
        Orient(a, b, c) = 0 /\ ((u1 - w1) * (-w1) < 0 \/ (u2 - w2) * (-w2) < 0)
  BY <1>1, <1>4, StrictlyOnIs
<1>6. StrictlyOn(a, Side(b, c)) <=>
        Orient(a, b, c) = 0 /\ ((-u1) * (w1 - u1) < 0 \/ (-u2) * (w2 - u2) < 0)
  BY <1>1, <1>4, StrictlyOnIs
<1> HIDE DEF u1, u2, w1, w2
<1>7. ASSUME u2 * w1 - u1 * w2 = 0, u1 * w1 + u2 * w2 > 0
      PROVE  \/ u1 = w1 /\ u2 = w2
             \/ (u1 - w1) * (-w1) < 0 \/ (u2 - w2) * (-w2) < 0
             \/ (-u1) * (w1 - u1) < 0 \/ (-u2) * (w2 - u2) < 0
  <2>1. u2 * w1 = u1 * w2 /\ u1 * w2 = u2 * w1 /\ (u1 * w1 > 0 \/ u2 * w2 > 0)
    BY <1>1, <1>7
  <2>2. CASE u1 * w1 > 0
    BY <1>1, <2>1, <2>2, SameSign, ParallelParts
  <2>3. CASE u2 * w2 > 0
    BY <1>1, <2>1, <2>3, SameSign, ParallelParts
  <2> QED BY <2>1, <2>2, <2>3
<1>8. ASSUME u2 * w1 - u1 * w2 = 0,
             \/ u1 = w1 /\ u2 = w2
             \/ (u1 - w1) * (-w1) < 0 \/ (u2 - w2) * (-w2) < 0
             \/ (-u1) * (w1 - u1) < 0 \/ (-u2) * (w2 - u2) < 0
      PROVE  u1 * w1 + u2 * w2 > 0
  <2>1. u2 * w1 = u1 * w2 /\ u1 * w2 = u2 * w1 /\ u1 * w1 \in Int /\ u2 * w2 \in Int
    BY <1>1, <1>8
  <2>2. CASE u1 = w1 /\ u2 = w2
    BY <1>1, <2>2, Squares
  <2>3. CASE u1 * w1 > 0
    BY <1>1, <2>1, <2>3, ParallelParts
  <2>4. CASE u2 * w2 > 0
    BY <1>1, <2>1, <2>4, ParallelParts
  <2> QED BY <1>1, <1>8, <2>2, <2>3, <2>4, SameSign
<1>9. (u1 = w1 /\ u2 = w2) => u2 * w1 - u1 * w2 = 0
  BY <1>1
<1>10. a = c => Orient(a, b, c) = 0
  BY <1>1, <1>2, <1>9
<1> QED BY <1>1, <1>2, <1>3, <1>5, <1>6, <1>7, <1>8, <1>10

(* Sides that follow each other are found by the pair test only at a       *)
(* spike.                                                                  *)
LEMMA CornerHit ==
  ASSUME NEW a \in Points, NEW b \in Points, NEW c \in Points, a # b, b # c,
         \/ LeanPairIntersects(Side(a, b), Side(b, c))
         \/ LeanPairIntersects(Side(b, c), Side(a, b))
  PROVE  Spike(a, b, c)
<1> DEFINE l == Side(a, b)
           m == Side(b, c)
<1>1. /\ l \in Lines /\ m \in Lines
      /\ l.a = a /\ l.b = b /\ m.a = b /\ m.b = c
  BY DEF Side, Lines
<1>2. Orient(l.a, l.b, m.a) = 0 /\ Orient(m.a, m.b, l.b) = 0
  BY <1>1, OrientIs DEF Orient, Points
<1> HIDE DEF l, m
<1>3. ~ProperlyCross(l, m) /\ ~ProperlyCross(m, l)
  <2>1. /\ Sides4(l, m)[1] = 0 /\ Sides4(l, m)[2] \in Int
        /\ Sides4(m, l)[3] = 0 /\ Sides4(m, l)[4] \in Int
    BY <1>1, <1>2, SidesAre
  <2> QED BY <2>1 DEF ProperlyCross
<1>4. ~StrictlyOn(b, l) /\ ~StrictlyOn(b, m)
  BY <1>1 DEF StrictlyOn
<1>5. \/ Overlap(l, m) \/ Overlap(m, l)
      \/ StrictlyOn(a, m) \/ StrictlyOn(c, l)
  BY <1>1, <1>3, <1>4 DEF LeanPairIntersects, EdgesIntersect, VertexOnEdge, l, m
<1> QED
  BY <1>5, SpikeOverlaps, SpikeEnds DEF l, m

(* A number lies between two others if the differences do not have one     *)
(* sign.                                                                   *)
LEMMA WithinIs ==
  ASSUME NEW x \in Int, NEW y \in Int, NEW z \in Int
  PROVE  (x - z) * (y - z) <= 0 => Lower(x, y) <= z /\ z <= Upper(x, y)
<1>1. x - z \in Int /\ y - z \in Int /\ (x - z) * (y - z) \in Int
  OBVIOUS
<1>2. (x - z) * (y - z) > 0 <=> (x - z > 0 /\ y - z > 0) \/ (x - z < 0 /\ y - z < 0)
  BY <1>1, SignOfProduct
<1> QED BY <1>1, <1>2 DEF Lower, Upper

(* Parallel vectors opposite in one coordinate do not agree in the other.  *)
LEMMA OppositeParts ==
  ASSUME NEW u1 \in Int, NEW u2 \in Int, NEW w1 \in Int, NEW w2 \in Int,
         u1 * w2 = u2 * w1, u1 * w1 < 0
  PROVE  u2 * w2 <= 0
<1> DEFINE q == u1 * w2
           r == u2 * w1
<1>1. (u1 * w1) * (u2 * w2) = q * r /\ q = r /\ q \in Int
  OBVIOUS
<1> HIDE DEF q, r
<1>2. /\ u1 * w1 \in Int /\ u2 * w2 \in Int
      /\ (u1 * w1) * (u2 * w2) >= 0
  <2>1. q * r = q * q
    BY <1>1
  <2> QED BY <1>1, <2>1, SignOfProduct
<1> QED BY <1>2, SignOfProduct

(* A point strictly on a line is in its box.                               *)
LEMMA OnIsWithin ==
  ASSUME NEW p \in Points, NEW l \in Lines, StrictlyOn(p, l)
  PROVE  /\ Box(l).lx <= p[1] /\ p[1] <= Box(l).hx
         /\ Box(l).ly <= p[2] /\ p[2] <= Box(l).hy
<1> DEFINE u1 == l.a[1] - p[1]
           u2 == l.a[2] - p[2]
           v1 == l.b[1] - p[1]
           v2 == l.b[2] - p[2]
<1>0. l.a \in Points /\ l.b \in Points
  BY DEF Lines
<1>1. /\ u1 \in Int /\ u2 \in Int /\ v1 \in Int /\ v2 \in Int
      /\ l.a[1] \in Int /\ l.a[2] \in Int /\ l.b[1] \in Int /\ l.b[2] \in Int
      /\ p[1] \in Int /\ p[2] \in Int
  BY <1>0, Points2
<1>2. Orient(l.a, l.b, p) = 0 /\ (u1 * v1 < 0 \/ u2 * v2 < 0)
  BY StrictlyOnIs
<1>3. u1 * v2 = u2 * v1
  <2>1. u1 * v2 - u2 * v1 = 0
    BY <1>0, <1>2, CrossFrom
  <2> HIDE DEF u1, u2, v1, v2
  <2> QED BY <1>1, <2>1
<1>4. u1 * v1 <= 0 /\ u2 * v2 <= 0
  <2> HIDE DEF u1, u2, v1, v2
  <2>1. u2 * v1 = u1 * v2 /\ u1 * v1 \in Int /\ u2 * v2 \in Int
    BY <1>1, <1>3
  <2>2. CASE u1 * v1 < 0
    BY <1>1, <1>3, <2>1, <2>2, OppositeParts
  <2>3. CASE u2 * v2 < 0
    BY <1>1, <1>3, <2>1, <2>3, OppositeParts
  <2> QED BY <1>2, <2>2, <2>3
<1>5. /\ Lower(l.a[1], l.b[1]) <= p[1] /\ p[1] <= Upper(l.a[1], l.b[1])
      /\ Lower(l.a[2], l.b[2]) <= p[2] /\ p[2] <= Upper(l.a[2], l.b[2])
  BY <1>1, <1>4, WithinIs
<1> QED BY <1>5 DEF Box

(* A box holds the ends of its line.                                       *)
LEMMA BoxIs ==
  ASSUME NEW l \in Lines
  PROVE  /\ Box(l).lx \in Int /\ Box(l).hx \in Int /\ Box(l).ly \in Int /\ Box(l).hy \in Int
         /\ Box(l).lx <= l.a[1] /\ l.a[1] <= Box(l).hx /\ Box(l).lx <= l.b[1] /\ l.b[1] <= Box(l).hx
         /\ Box(l).ly <= l.a[2] /\ l.a[2] <= Box(l).hy /\ Box(l).ly <= l.b[2] /\ l.b[2] <= Box(l).hy
<1>1. /\ l.a[1] \in Int /\ l.a[2] \in Int /\ l.b[1] \in Int /\ l.b[2] \in Int
  BY Points2 DEF Lines
<1> QED BY <1>1 DEF Box, Lower, Upper

(* Boxes with a common point are not apart.                                *)
LEMMA ShareBoxes ==
  ASSUME NEW l \in Lines, NEW m \in Lines, NEW x \in Int, NEW y \in Int,
         Box(l).lx <= x, x <= Box(l).hx, Box(l).ly <= y, y <= Box(l).hy,
         Box(m).lx <= x, x <= Box(m).hx, Box(m).ly <= y, y <= Box(m).hy
  PROVE  ~Apart(Box(l), Box(m)) /\ ~Apart(Box(m), Box(l))
BY BoxIs DEF Apart

(* An end strictly on the other line is found by the pair test, in either  *)
(* order.                                                                  *)
LEMMA TouchHits ==
  ASSUME NEW l \in Lines, NEW m \in Lines, StrictlyOn(m.a, l) \/ StrictlyOn(m.b, l)
  PROVE  /\ ~Apart(Box(l), Box(m)) /\ ~Apart(Box(m), Box(l))
         /\ LeanPairIntersects(l, m) /\ LeanPairIntersects(m, l)
<1>1. l.a \in Points /\ l.b \in Points /\ m.a \in Points /\ m.b \in Points
  BY DEF Lines
<1>2. PICK p \in {m.a, m.b} : StrictlyOn(p, l)
  OBVIOUS
<1>3. /\ Box(l).lx <= p[1] /\ p[1] <= Box(l).hx
      /\ Box(l).ly <= p[2] /\ p[2] <= Box(l).hy
      /\ p[1] \in Int /\ p[2] \in Int
  BY <1>1, <1>2, OnIsWithin, Points2
<1>4. /\ Box(m).lx <= p[1] /\ p[1] <= Box(m).hx
      /\ Box(m).ly <= p[2] /\ p[2] <= Box(m).hy
  BY BoxIs
<1>5. /\ ~Apart(Box(l), Box(m)) /\ ~Apart(Box(m), Box(l))
  BY <1>3, <1>4, ShareBoxes
<1>6. Orient(l.a, l.b, m.a) = 0 \/ Orient(l.a, l.b, m.b) = 0
  BY StrictlyOnIs, <1>1
<1>7. Ambiguous(l, m) /\ Ambiguous(m, l)
  BY <1>5, <1>6, SidesAre DEF Ambiguous
<1>8. VertexOnEdge(l, m) /\ VertexOnEdge(m, l)
  BY <1>5 DEF VertexOnEdge
<1> QED BY <1>5, <1>7, <1>8 DEF LeanPairIntersects

(***************************************************************************)
(* Rings.                                                                  *)
(***************************************************************************)

(* The place after place i.                                                *)
Suc(ring, i) == IF i = Len(ring) THEN 1 ELSE i + 1

(* Sides and vertices of a ring.                                           *)
LEMMA RingFacts ==
  ASSUME NEW ring \in Seq(Points), NEW i \in 1 .. Len(ring)
  PROVE  /\ Len(ring) \in Nat
         /\ Suc(ring, i) \in 1 .. Len(ring)
         /\ After(ring, i) = ring[Suc(ring, i)]
         /\ ring[i] \in Points /\ After(ring, i) \in Points
         /\ EdgeOf(ring, i) = Side(ring[i], ring[Suc(ring, i)])
         /\ EdgeOf(ring, i) \in Lines
         /\ EdgeOf(ring, i).a = ring[i] /\ EdgeOf(ring, i).b = ring[Suc(ring, i)]
<1>1. Len(ring) \in Nat /\ ring[i] \in Points
  OBVIOUS
<1>2. Suc(ring, i) \in 1 .. Len(ring) /\ ring[Suc(ring, i)] \in Points
  BY <1>1 DEF Suc
<1>3. (i % Len(ring)) + 1 = Suc(ring, i)
  <2>1. CASE i = Len(ring)
    <3>1. i % i = 0
      OBVIOUS
    <3> QED BY <2>1, <3>1 DEF Suc
  <2>2. CASE i < Len(ring)
    <3>1. i % Len(ring) = i
      BY <1>1, <2>2
    <3> QED BY <1>1, <2>2, <3>1 DEF Suc
  <2> QED BY <1>1, <2>1, <2>2
<1>4. After(ring, i) = ring[Suc(ring, i)]
  BY <1>3 DEF After
<1> QED BY <1>1, <1>2, <1>4 DEF EdgeOf, Side, Lines

(* No vertex is visited twice.                                             *)
Distinct(ring) == \A i, j \in 1 .. Len(ring) : i # j => ring[i] # ring[j]

(* The search of the validator objects to a pair of sides.                 *)
SidesHit(ring, i, j) ==
  /\ i > j + 1 \/ j > i + 1
  /\ ~Apart(Box(EdgeOf(ring, i)), Box(EdgeOf(ring, j)))
  /\ LeanPairIntersects(EdgeOf(ring, i), EdgeOf(ring, j))

SpikeAt(ring, i) == Spike(ring[i], ring[Suc(ring, i)], ring[Suc(ring, Suc(ring, i))])

(* The sides that follow each other, i the earlier.                        *)
SideNext(ring, i, j) == j = i + 1 \/ (i = 1 /\ j = Len(ring))

(* A simple closed curve has no zero side, no spike, and sides that do     *)
(* not follow each other do not meet.                                      *)
LEMMA SimpleIs ==
  ASSUME NEW ring \in Seq(Points)
  PROVE  Simple(ring) <=>
           /\ Len(ring) >= 3
           /\ \A i \in 1 .. Len(ring) : ring[i] # ring[Suc(ring, i)]
           /\ \A i \in 1 .. Len(ring) : ~SpikeAt(ring, i)
           /\ \A i, j \in 1 .. Len(ring) : i < j /\ ~SideNext(ring, i, j) =>
                ~Meet(EdgeOf(ring, i), EdgeOf(ring, j))
<1> DEFINE n == Len(ring)
           Steps == n >= 3 /\ \A i \in 1 .. n : ring[i] # ring[Suc(ring, i)]
           Corners == \A i, j \in 1 .. n : i < j /\ SideNext(ring, i, j) =>
                        ~Overlap(EdgeOf(ring, i), EdgeOf(ring, j))
           Rest == \A i, j \in 1 .. n : i < j /\ ~SideNext(ring, i, j) =>
                     ~Meet(EdgeOf(ring, i), EdgeOf(ring, j))
<1>1. n \in Nat
  OBVIOUS
<1>2. \A i \in 1 .. n : After(ring, i) = ring[Suc(ring, i)]
  BY RingFacts
<1>3. Simple(ring) <=> Steps /\ Corners /\ Rest
  BY <1>2, Zenon DEF Simple, SideNext
<1>4. ASSUME Steps
      PROVE  Corners <=> \A i \in 1 .. n : ~SpikeAt(ring, i)
  <2>1. ASSUME NEW i \in 1 .. (n - 1)
        PROVE  Overlap(EdgeOf(ring, i), EdgeOf(ring, i + 1)) <=> SpikeAt(ring, i)
    <3>1. i \in 1 .. n /\ i + 1 \in 1 .. n /\ Suc(ring, i) = i + 1
      BY <1>1 DEF Suc
    <3>2. Suc(ring, i + 1) \in 1 .. n
      BY <3>1, RingFacts
    <3>3. /\ EdgeOf(ring, i) = Side(ring[i], ring[i + 1])
          /\ EdgeOf(ring, i + 1) = Side(ring[i + 1], ring[Suc(ring, i + 1)])
      BY <3>1, RingFacts
    <3>4. ring[i] # ring[i + 1] /\ ring[i + 1] # ring[Suc(ring, i + 1)]
      BY <1>4, <3>1
    <3>5. ring[i] \in Points /\ ring[i + 1] \in Points /\ ring[Suc(ring, i + 1)] \in Points
      BY <3>1, <3>2, RingFacts
    <3> QED BY <3>1, <3>3, <3>4, <3>5, SpikeOverlaps DEF SpikeAt
  <2>2. Overlap(EdgeOf(ring, 1), EdgeOf(ring, n)) <=> SpikeAt(ring, n)
    <3>1. 1 \in 1 .. n /\ 2 \in 1 .. n /\ n \in 1 .. n /\ Suc(ring, n) = 1 /\ Suc(ring, 1) = 2
      BY <1>1, <1>4 DEF Suc
    <3>2. /\ EdgeOf(ring, n) = Side(ring[n], ring[1])
          /\ EdgeOf(ring, 1) = Side(ring[1], ring[2])
      BY <3>1, RingFacts
    <3>3. ring[n] # ring[1] /\ ring[1] # ring[2]
      BY <1>4, <3>1
    <3>4. ring[n] \in Points /\ ring[1] \in Points /\ ring[2] \in Points
      BY <3>1, RingFacts
    <3> QED BY <3>1, <3>2, <3>3, <3>4, SpikeOverlaps DEF SpikeAt
  <2>3. ASSUME Corners, NEW i \in 1 .. n PROVE ~SpikeAt(ring, i)
    <3>1. CASE i = n
      <4>1. ~Overlap(EdgeOf(ring, 1), EdgeOf(ring, n))
        BY <1>1, <1>4, <2>3 DEF SideNext
      <4> QED BY <2>2, <3>1, <4>1
    <3>2. CASE i # n
      <4>1. i \in 1 .. (n - 1) /\ i + 1 \in 1 .. n
        BY <1>1, <3>2
      <4>2. ~Overlap(EdgeOf(ring, i), EdgeOf(ring, i + 1))
        BY <2>3, <4>1 DEF SideNext
      <4> QED BY <2>1, <4>1, <4>2
    <3> QED BY <3>1, <3>2
  <2>4. ASSUME \A i \in 1 .. n : ~SpikeAt(ring, i),
               NEW i \in 1 .. n, NEW j \in 1 .. n, i < j, SideNext(ring, i, j)
        PROVE  ~Overlap(EdgeOf(ring, i), EdgeOf(ring, j))
    <3>1. CASE j = i + 1
      <4>1. i \in 1 .. (n - 1)
        BY <1>1, <3>1
      <4> QED BY <2>1, <2>4, <3>1, <4>1
    <3>2. CASE i = 1 /\ j = n
      BY <1>1, <2>2, <2>4, <3>2
    <3> QED BY <2>4, <3>1, <3>2 DEF SideNext
  <2> QED BY <2>3, <2>4
<1> QED BY <1>3, <1>4, Zenon

(* The first and last places of a ring of three vertices or more.          *)
LEMMA EndsOf ==
  ASSUME NEW ring \in Seq(Points), Len(ring) >= 3
  PROVE  /\ Len(ring) \in 1 .. Len(ring) /\ 1 \in 1 .. Len(ring) /\ 2 \in 1 .. Len(ring)
         /\ Suc(ring, Len(ring)) = 1 /\ Suc(ring, 1) = 2
<1> DEFINE n == Len(ring)
<1>1. n \in Nat /\ n >= 3
  OBVIOUS
<1> HIDE DEF n
<1>2. n \in 1 .. n /\ 1 \in 1 .. n /\ 2 \in 1 .. n /\ 1 # n
  BY <1>1
<1> QED BY <1>2 DEF Suc, n

(* The pair test finds nothing in a simple closed curve.                   *)
LEMMA SimpleMisses ==
  ASSUME NEW ring \in Seq(Points), Simple(ring), NEW i \in 1 .. Len(ring), NEW j \in 1 .. Len(ring)
  PROVE  ~SidesHit(ring, i, j)
<1> DEFINE n == Len(ring)
           l == EdgeOf(ring, i)
           m == EdgeOf(ring, j)
<1>1. SUFFICES ASSUME SidesHit(ring, i, j) PROVE FALSE
  OBVIOUS
<1>2. n \in Nat /\ n >= 3
  BY SimpleIs
<1>3. /\ l \in Lines /\ m \in Lines /\ l.a # l.b /\ m.a # m.b
  BY RingFacts, SimpleIs
<1>7. n \in 1 .. n /\ Suc(ring, n) = 1 /\ Suc(ring, 1) = 2 /\ 1 \in 1 .. n /\ 2 \in 1 .. n
  BY <1>2, EndsOf
<1>4. CASE i = 1 /\ j = n
  <2>1. n \in 1 .. n /\ Suc(ring, n) = 1 /\ Suc(ring, 1) = 2 /\ 1 \in 1 .. n /\ 2 \in 1 .. n
    BY <1>7
  <2>2. m = Side(ring[n], ring[1]) /\ l = Side(ring[1], ring[2])
    BY <1>4, <2>1, RingFacts
  <2>3. ring[n] # ring[1] /\ ring[1] # ring[2]
    BY <2>1, SimpleIs
  <2>4. Spike(ring[n], ring[1], ring[2])
    BY <1>1, <2>1, <2>2, <2>3, RingFacts, CornerHit DEF SidesHit
  <2> QED BY <2>1, <2>4, SimpleIs DEF SpikeAt
<1>5. CASE j = 1 /\ i = n
  <2>1. n \in 1 .. n /\ Suc(ring, n) = 1 /\ Suc(ring, 1) = 2 /\ 1 \in 1 .. n /\ 2 \in 1 .. n
    BY <1>7
  <2>2. l = Side(ring[n], ring[1]) /\ m = Side(ring[1], ring[2])
    BY <1>5, <2>1, RingFacts
  <2>3. ring[n] # ring[1] /\ ring[1] # ring[2]
    BY <2>1, SimpleIs
  <2>4. Spike(ring[n], ring[1], ring[2])
    BY <1>1, <2>1, <2>2, <2>3, RingFacts, CornerHit DEF SidesHit
  <2> QED BY <2>1, <2>4, SimpleIs DEF SpikeAt
<1>6. CASE ~(i = 1 /\ j = n) /\ ~(j = 1 /\ i = n)
  <2>1. Meet(l, m) /\ Meet(m, l)
    BY <1>1, <1>3, LeanMeets, MeetSymmetric DEF SidesHit
  <2>2. \/ i < j /\ ~SideNext(ring, i, j)
        \/ j < i /\ ~SideNext(ring, j, i)
    BY <1>1, <1>2, <1>6 DEF SidesHit, SideNext
  <2> QED BY <2>1, <2>2, SimpleIs
<1> QED BY <1>4, <1>5, <1>6

(* It objects to none; each pair is tested in one order only.              *)
Unhit(ring) == \A i, j \in 1 .. Len(ring) : i < j => ~SidesHit(ring, i, j) \/ ~SidesHit(ring, j, i)

(* The neighbours of a corner, in a ring of four vertices or more.         *)
LEMMA Around ==
  ASSUME NEW ring \in Seq(Points), Len(ring) >= 4, NEW i \in 1 .. Len(ring)
  PROVE  \E p, b, c \in 1 .. Len(ring) :
           /\ Suc(ring, p) = i /\ b = Suc(ring, i) /\ c = Suc(ring, b)
           /\ i # b /\ b # c /\ i # c
           /\ i > c + 1 \/ c > i + 1
           /\ b > p + 1 \/ p > b + 1
<1> DEFINE n == Len(ring)
           p == IF i = 1 THEN n ELSE i - 1
           b == IF i = n THEN 1 ELSE i + 1
           c == IF b = n THEN 1 ELSE b + 1
<1>1. n \in Nat /\ n >= 4
  OBVIOUS
<1> HIDE DEF n
<1>2. i \in 1 .. n
  BY DEF n
<1>3. /\ p \in 1 .. n /\ b \in 1 .. n /\ c \in 1 .. n
      /\ (IF p = n THEN 1 ELSE p + 1) = i
      /\ i # b /\ b # c /\ i # c
      /\ i > c + 1 \/ c > i + 1
      /\ b > p + 1 \/ p > b + 1
  BY <1>1, <1>2
<1>4. Suc(ring, p) = i /\ b = Suc(ring, i) /\ c = Suc(ring, b)
  BY <1>3 DEF Suc, n
<1> HIDE DEF p, b, c
<1> QED BY <1>3, <1>4 DEF n

(* With four distinct vertices and no pair found there is no spike: the    *)
(* sides before and after it would be found.                               *)
LEMMA NoSpikes ==
  ASSUME NEW ring \in Seq(Points), Len(ring) >= 4, Distinct(ring), Unhit(ring), NEW i \in 1 .. Len(ring)
  PROVE  ~SpikeAt(ring, i)
<1> DEFINE n == Len(ring)
<1>1. PICK p \in 1 .. n, b \in 1 .. n, c \in 1 .. n :
           /\ Suc(ring, p) = i /\ b = Suc(ring, i) /\ c = Suc(ring, b)
           /\ i # b /\ b # c /\ i # c
           /\ i > c + 1 \/ c > i + 1
           /\ b > p + 1 \/ p > b + 1
  BY Around
<1>2. n \in Nat
  OBVIOUS
<1>3. \A j, k \in 1 .. n : j > k + 1 \/ k > j + 1 => ~SidesHit(ring, j, k) \/ ~SidesHit(ring, k, j)
  BY <1>2 DEF Unhit
<1> HIDE DEF n
<1>4. /\ ring[i] \in Points /\ ring[b] \in Points /\ ring[c] \in Points
      /\ ring[i] # ring[b] /\ ring[b] # ring[c] /\ ring[i] # ring[c]
  BY <1>1, RingFacts DEF Distinct, n
<1>5. /\ EdgeOf(ring, i) = Side(ring[i], ring[b]) /\ EdgeOf(ring, b) = Side(ring[b], ring[c])
      /\ EdgeOf(ring, p).b = ring[i] /\ EdgeOf(ring, c).a = ring[c]
      /\ EdgeOf(ring, i) \in Lines /\ EdgeOf(ring, b) \in Lines
      /\ EdgeOf(ring, p) \in Lines /\ EdgeOf(ring, c) \in Lines
  BY <1>1, RingFacts DEF n
<1>6. ~StrictlyOn(ring[c], EdgeOf(ring, i))
  <2>1. ~SidesHit(ring, i, c) \/ ~SidesHit(ring, c, i)
    BY <1>1, <1>3 DEF n
  <2> QED BY <1>1, <1>5, <2>1, TouchHits DEF SidesHit
<1>7. ~StrictlyOn(ring[i], EdgeOf(ring, b))
  <2>1. ~SidesHit(ring, b, p) \/ ~SidesHit(ring, p, b)
    BY <1>1, <1>3
  <2> QED BY <1>1, <1>5, <2>1, TouchHits DEF SidesHit
<1> QED
  BY <1>1, <1>4, <1>5, <1>6, <1>7, SpikeEnds DEF SpikeAt

(* A ring of distinct vertices in which no pair is found is a simple       *)
(* closed curve, or three vertices on a line.                              *)
LEMMA UnhitIsSimple ==
  ASSUME NEW ring \in Seq(Points), Len(ring) >= 3, Distinct(ring), Unhit(ring)
  PROVE  Simple(ring) \/ (Len(ring) = 3 /\ Orient(ring[1], ring[2], ring[3]) = 0)
<1> DEFINE n == Len(ring)
<1>1. n \in Nat /\ n >= 3
  OBVIOUS
<1>2. ASSUME NEW i \in 1 .. n PROVE ring[i] # ring[Suc(ring, i)] /\ Suc(ring, i) \in 1 .. n
  <2>1. i # Suc(ring, i) /\ Suc(ring, i) \in 1 .. n
    <3> HIDE DEF n
    <3>1. i \in 1 .. n /\ i # (IF i = n THEN 1 ELSE i + 1) /\ (IF i = n THEN 1 ELSE i + 1) \in 1 .. n
      BY <1>1
    <3> QED BY <3>1 DEF Suc, n
  <2> QED BY <2>1 DEF Distinct
<1>3. ASSUME NEW i \in 1 .. n, NEW j \in 1 .. n, i < j, ~SideNext(ring, i, j)
      PROVE  ~Meet(EdgeOf(ring, i), EdgeOf(ring, j))
  <2> DEFINE l == EdgeOf(ring, i)
             m == EdgeOf(ring, j)
             i1 == Suc(ring, i)
             j1 == Suc(ring, j)
  <2>1. /\ i1 \in 1 .. n /\ j1 \in 1 .. n /\ j > i + 1
        /\ i # j /\ i # j1 /\ i1 # j /\ i1 # j1
    <3> HIDE DEF n
    <3>1. ~(j = i + 1 \/ (i = 1 /\ j = n))
      BY <1>3 DEF SideNext, n
    <3> DEFINE s == IF i = n THEN 1 ELSE i + 1
               t == IF j = n THEN 1 ELSE j + 1
    <3>2. /\ s \in 1 .. n /\ t \in 1 .. n /\ j > i + 1
          /\ i # j /\ i # t /\ s # j /\ s # t
      BY <1>1, <1>3, <3>1
    <3>3. s = i1 /\ t = j1
      BY DEF Suc, n
    <3> HIDE DEF s, t, i1, j1
    <3> QED BY <3>2, <3>3
  <2>2. /\ l \in Lines /\ m \in Lines
        /\ l.a = ring[i] /\ l.b = ring[i1] /\ m.a = ring[j] /\ m.b = ring[j1]
    BY RingFacts
  <2>3. /\ l.a # l.b /\ m.a # m.b
        /\ l.a # m.a /\ l.a # m.b /\ l.b # m.a /\ l.b # m.b
    BY <1>2, <2>1, <2>2 DEF Distinct
  <2>4. ~SidesHit(ring, i, j) \/ ~SidesHit(ring, j, i)
    BY <1>3 DEF Unhit
  <2> HIDE DEF l, m
  <2>5. SUFFICES ASSUME Meet(l, m) PROVE FALSE
    BY DEF l, m
  <2>6. Meet(m, l)
    BY <2>2, <2>5, MeetSymmetric
  <2>7. LeanPairIntersects(l, m) /\ LeanPairIntersects(m, l)
    BY <2>2, <2>3, <2>5, <2>6, MeetHits
  <2>8. ~Apart(Box(l), Box(m)) /\ ~Apart(Box(m), Box(l))
    BY <2>5, <2>6 DEF Meet
  <2> QED BY <2>1, <2>4, <2>7, <2>8 DEF SidesHit, l, m
<1>4. CASE n = 3
  <2>1. SUFFICES ASSUME Orient(ring[1], ring[2], ring[3]) # 0 PROVE Simple(ring)
    BY <1>4
  <2>2. ASSUME NEW i \in 1 .. n PROVE ~SpikeAt(ring, i)
    <3>1. ring[1] \in Points /\ ring[2] \in Points /\ ring[3] \in Points
      <4>1. 1 \in 1 .. n /\ 2 \in 1 .. n /\ 3 \in 1 .. n
        BY <1>4
      <4> QED BY <4>1, RingFacts
    <3>2. /\ Orient(ring[2], ring[3], ring[1]) # 0
          /\ Orient(ring[3], ring[1], ring[2]) # 0
      BY <2>1, <3>1, OrientIs
    <3>3. Suc(ring, 1) = 2 /\ Suc(ring, 2) = 3 /\ Suc(ring, 3) = 1
      BY <1>4 DEF Suc
    <3>4. i = 1 \/ i = 2 \/ i = 3
      BY <1>4
    <3> QED BY <2>1, <3>2, <3>3, <3>4 DEF SpikeAt, Spike
  <2> QED BY <1>1, <1>2, <1>3, <2>2, SimpleIs
<1>5. CASE n >= 4
  <2>1. \A i \in 1 .. n : ~SpikeAt(ring, i)
    BY <1>5, NoSpikes
  <2> QED BY <1>1, <1>2, <1>3, <2>1, SimpleIs
<1>6. n = 3 \/ n >= 4
  <2> HIDE DEF n
  <2> QED BY <1>1
<1> QED BY <1>4, <1>5, <1>6

(* A simple closed curve visits no vertex twice.                           *)
LEMMA SimpleDistinct ==
  ASSUME NEW ring \in Seq(Points), Simple(ring)
  PROVE  Distinct(ring)
<1> DEFINE n == Len(ring)
<1>1. n \in Nat /\ n >= 3
  BY SimpleIs
<1>2. ASSUME NEW i \in 1 .. n, NEW j \in 1 .. n, i < j, ring[i] = ring[j] PROVE FALSE
  <2> DEFINE l == EdgeOf(ring, i)
             m == EdgeOf(ring, j)
  <2>1. /\ l \in Lines /\ m \in Lines /\ l.a = ring[i] /\ m.a = ring[j]
        /\ ring[i] # ring[Suc(ring, i)] /\ ring[j] # ring[Suc(ring, j)]
    BY RingFacts, SimpleIs
  <2>2. ~SideNext(ring, i, j)
    <3>1. CASE j = i + 1
      <4>1. Suc(ring, i) = j
        <5> HIDE DEF n
        <5>1. i # n
          BY <1>1, <1>2, <3>1
        <5> QED BY <3>1, <5>1 DEF Suc, n
      <4> QED BY <1>2, <2>1, <4>1
    <3>2. CASE i = 1 /\ j = n
      BY <1>2, <2>1, <3>2 DEF Suc
    <3> QED BY <3>1, <3>2 DEF SideNext
  <2>3. Meet(l, m)
    <3>1. ~Apart(Box(l), Box(m))
      <4>1. l.a = m.a
        BY <1>2, <2>1
      <4> HIDE DEF l, m
      <4>2. /\ Box(l).lx <= l.a[1] /\ l.a[1] <= Box(l).hx /\ Box(m).lx <= l.a[1] /\ l.a[1] <= Box(m).hx
            /\ Box(l).ly <= l.a[2] /\ l.a[2] <= Box(l).hy /\ Box(m).ly <= l.a[2] /\ l.a[2] <= Box(m).hy
            /\ l.a[1] \in Int /\ l.a[2] \in Int
            /\ Box(l).lx \in Int /\ Box(l).hx \in Int /\ Box(l).ly \in Int /\ Box(l).hy \in Int
            /\ Box(m).lx \in Int /\ Box(m).hx \in Int /\ Box(m).ly \in Int /\ Box(m).hy \in Int
        BY <2>1, <4>1, BoxIs, SidesAre, Points2
      <4> QED BY <2>1, <4>2, ShareBoxes
    <3>2. Orient(l.a, l.b, m.a) = 0 /\ Orient(m.a, m.b, l.a) = 0
      <4>1. l.a \in Points /\ l.b \in Points /\ m.a \in Points /\ m.b \in Points /\ l.a = m.a
        BY <1>2, <2>1, SidesAre
      <4>2. ASSUME NEW a \in Points, NEW b \in Points PROVE Orient(a, b, a) = 0
        BY DEF Orient, Points
      <4> QED BY <4>1, <4>2
    <3>3. /\ Sides4(l, m)[1] = 0 /\ Sides4(l, m)[2] \in Int
          /\ Sides4(l, m)[3] = 0 /\ Sides4(l, m)[4] \in Int
      BY <2>1, <3>2, SidesAre
    <3> QED BY <3>1, <3>3 DEF Meet
  <2> QED BY <1>2, <2>2, <2>3, SimpleIs
<1>3. ASSUME NEW i \in 1 .. n, NEW j \in 1 .. n, i # j PROVE ring[i] # ring[j]
  <2>1. i < j \/ j < i
    <3> HIDE DEF n
    <3> QED BY <1>1, <1>3
  <2> QED BY <1>2, <2>1
<1> QED BY <1>3 DEF Distinct

(* A set of naturals with a member has a least one.                        *)
LEMMA LeastNatural ==
  ASSUME NEW T \in SUBSET Nat, T # {}
  PROVE  \E j \in T : \A k \in T : j <= k
<1>1. PICK j \in T : \A k \in T : ~(<<k, j>> \in OpToRel(<, Nat))
  BY WFMin, NatLessThanWellFounded
<1>2. \A k \in T : ~(k < j)
  BY <1>1 DEF OpToRel
<1> QED
  BY <1>2

(* A finite family of integers has a least member.                         *)
LEMMA LeastOf ==
  ASSUME NEW n \in Nat, n >= 1, NEW f \in [1 .. n -> Int]
  PROVE  \E i \in 1 .. n : \A j \in 1 .. n : f[i] <= f[j]
<1> DEFINE P(m) == \E i \in 1 .. m : \A j \in 1 .. m : f[i] <= f[j]
           T == {m \in 1 .. n : ~P(m)}
<1>1. SUFFICES ASSUME ~P(n) PROVE FALSE
  OBVIOUS
<1>2. T \in SUBSET Nat /\ n \in T
  BY <1>1
<1>3. PICK m \in T : \A k \in T : m <= k
  <2> HIDE DEF T
  <2> QED BY <1>2, LeastNatural
<1>4. m \in 1 .. n /\ ~P(m) /\ \A k \in T : ~(k < m)
  BY <1>3
<1>5. f[1] \in Int /\ f[m] \in Int
  BY <1>4
<1>6. m # 1
  <2>1. P(1)
    BY <1>5
  <2> QED BY <1>4, <2>1
<1>7. m - 1 \in 1 .. n /\ m - 1 < m
  BY <1>4, <1>6
<1>8. P(m - 1)
  BY <1>4, <1>7
<1>9. PICK i \in 1 .. (m - 1) : \A j \in 1 .. (m - 1) : f[i] <= f[j]
  BY <1>8
<1>10. f[i] \in Int /\ i \in 1 .. m /\ m \in 1 .. m
  BY <1>4, <1>9
<1>11. CASE f[i] <= f[m]
  <2>1. \A j \in 1 .. m : f[i] <= f[j]
    BY <1>4, <1>9, <1>11
  <2> QED BY <1>4, <1>10, <2>1
<1>12. CASE f[m] < f[i]
  <2>1. \A j \in 1 .. m : f[m] <= f[j]
    <3> SUFFICES ASSUME NEW j \in 1 .. m PROVE f[m] <= f[j]
      OBVIOUS
    <3>1. f[j] \in Int
      BY <1>4
    <3>2. CASE j = m
      BY <1>5, <3>2
    <3>3. CASE j # m
      <4>1. j \in 1 .. (m - 1)
        BY <1>4, <3>3
      <4> QED BY <1>5, <1>9, <1>10, <1>12, <3>1, <4>1
    <3> QED BY <3>2, <3>3
  <2> QED BY <1>4, <1>10, <2>1
<1> QED BY <1>5, <1>10, <1>11, <1>12

(* Products with zero.                                                     *)
LEMMA Zeros ==
  ASSUME NEW x \in Int, NEW y \in Int
  PROVE  0 * x - y * 0 = 0 /\ x * 0 - 0 * y = 0
OBVIOUS

(* A simple closed curve is not on one horizontal or vertical line.        *)
LEMMA SimpleNotFlat ==
  ASSUME NEW ring \in Seq(Points), Simple(ring), NEW c \in {1, 2}
  PROVE  ~\A i \in 1 .. Len(ring) : ring[i][c] = ring[1][c]
<1> DEFINE n == Len(ring)
           e == 3 - c
           f == [i \in 1 .. n |-> ring[i][e]]
<1>1. n \in Nat /\ n >= 3
  BY SimpleIs
<1>2. SUFFICES ASSUME \A i \in 1 .. n : ring[i][c] = ring[1][c] PROVE FALSE
  OBVIOUS
<1>3. \A i \in 1 .. n : ring[i][1] \in Int /\ ring[i][2] \in Int
  BY Points2
<1>4. f \in [1 .. n -> Int]
  BY <1>3
<1>5. PICK k \in 1 .. n : \A j \in 1 .. n : f[k] <= f[j]
  <2> HIDE DEF n, f
  <2>1. n >= 1
    BY <1>1
  <2> QED BY <1>1, <1>4, <2>1, LeastOf
<1>6. PICK i \in 1 .. n : Suc(ring, i) = k
  <2> DEFINE p == IF k = 1 THEN n ELSE k - 1
  <2>1. p \in 1 .. n /\ (IF p = n THEN 1 ELSE p + 1) = k
    <3> HIDE DEF n
    <3> QED BY <1>1
  <2> QED BY <2>1 DEF Suc
<1> DEFINE j == Suc(ring, k)
<1>7. j \in 1 .. n
  BY RingFacts
<1>8. /\ ring[i] # ring[k] /\ ring[k] # ring[j] /\ ~Spike(ring[i], ring[k], ring[j])
  BY <1>6, SimpleIs DEF SpikeAt
<1>9. /\ f[k] <= f[i] /\ f[k] <= f[j]
      /\ f[k] = ring[k][e] /\ f[i] = ring[i][e] /\ f[j] = ring[j][e]
  BY <1>5, <1>7
<1>10. /\ ring[i] \in Points /\ ring[k] \in Points /\ ring[j] \in Points
  BY <1>7, RingFacts
<1>11. /\ ring[i][c] = ring[k][c] /\ ring[j][c] = ring[k][c]
  BY <1>2, <1>7
<1> HIDE DEF f, n, j
<1>12. /\ ring[i][1] \in Int /\ ring[i][2] \in Int /\ ring[k][1] \in Int /\ ring[k][2] \in Int
       /\ ring[j][1] \in Int /\ ring[j][2] \in Int
       /\ ring[i][1] # ring[k][1] \/ ring[i][2] # ring[k][2]
       /\ ring[j][1] # ring[k][1] \/ ring[j][2] # ring[k][2]
  BY <1>8, <1>10, Points2
<1>13. ASSUME NEW x \in Int, NEW y \in Int, x > 0, y > 0
       PROVE  /\ 0 * 0 + x * y > 0 /\ x * y + 0 * 0 > 0
              /\ 0 * y = 0 /\ x * 0 = 0 /\ y * 0 = 0 /\ 0 * x = 0
  BY <1>13, SignOfProduct
<1>14. CASE c = 1
  <2> DEFINE x == ring[i][2] - ring[k][2]
             y == ring[j][2] - ring[k][2]
  <2>1. x \in Int /\ y \in Int /\ x > 0 /\ y > 0
    BY <1>9, <1>11, <1>12, <1>14
  <2>2. /\ ring[i][1] - ring[k][1] = 0 /\ ring[j][1] - ring[k][1] = 0
        /\ ring[k][1] - ring[i][1] = 0 /\ ring[j][1] - ring[i][1] = 0
    BY <1>11, <1>12, <1>14
  <2>3. Orient(ring[i], ring[k], ring[j]) = 0
    <3>1. /\ ring[j][2] - ring[i][2] \in Int /\ ring[k][2] - ring[i][2] \in Int
      BY <1>12
    <3> QED BY <2>2, <3>1, Zeros DEF Orient
  <2>4. (ring[i][1] - ring[k][1]) * (ring[j][1] - ring[k][1]) + x * y > 0
    <3> HIDE DEF x, y
    <3> QED BY <1>13, <2>1, <2>2
  <2> QED BY <1>8, <2>3, <2>4 DEF Spike
<1>15. CASE c = 2
  <2> DEFINE x == ring[i][1] - ring[k][1]
             y == ring[j][1] - ring[k][1]
  <2>1. x \in Int /\ y \in Int /\ x > 0 /\ y > 0
    BY <1>9, <1>11, <1>12, <1>15
  <2>2. /\ ring[i][2] - ring[k][2] = 0 /\ ring[j][2] - ring[k][2] = 0
        /\ ring[k][2] - ring[i][2] = 0 /\ ring[j][2] - ring[i][2] = 0
    BY <1>11, <1>12, <1>15
  <2>3. Orient(ring[i], ring[k], ring[j]) = 0
    <3>1. /\ ring[j][1] - ring[i][1] \in Int /\ ring[k][1] - ring[i][1] \in Int
      BY <1>12
    <3> QED BY <2>2, <3>1, Zeros DEF Orient
  <2>4. x * y + (ring[i][2] - ring[k][2]) * (ring[j][2] - ring[k][2]) > 0
    <3> HIDE DEF x, y
    <3> QED BY <1>13, <2>1, <2>2
  <2> QED BY <1>8, <2>3, <2>4 DEF Spike
<1> QED BY <1>14, <1>15

(***************************************************************************)
(* Lines that carry more than their ends, and lines that cross.            *)
(***************************************************************************)

(* The pair predicates look at nothing but the ends.                       *)
LEMMA SameEnds ==
  ASSUME NEW l, NEW m, NEW e, NEW f, l.a = e.a, l.b = e.b, m.a = f.a, m.b = f.b
  PROVE  /\ Box(l) = Box(e) /\ Box(m) = Box(f)
         /\ ProperlyCross(l, m) <=> ProperlyCross(e, f)
         /\ Ambiguous(l, m) <=> Ambiguous(e, f)
         /\ LeanPairIntersects(l, m) <=> LeanPairIntersects(e, f)
<1>1. Box(l) = Box(e) /\ Box(m) = Box(f)
  BY Zenon DEF Box
<1>2. Sides4(l, m) = Sides4(e, f)
  BY Zenon DEF Sides4
<1>3. ProperlyCross(l, m) <=> ProperlyCross(e, f)
  BY <1>2, Zenon DEF ProperlyCross
<1>4. Ambiguous(l, m) <=> Ambiguous(e, f)
  BY <1>1, <1>2, Zenon DEF Ambiguous
<1>5. Overlap(l, m) <=> Overlap(e, f)
  BY Zenon DEF Overlap
<1>6. /\ StrictlyOn(l.a, m) <=> StrictlyOn(e.a, f)
      /\ StrictlyOn(l.b, m) <=> StrictlyOn(e.b, f)
      /\ StrictlyOn(m.a, l) <=> StrictlyOn(f.a, e)
      /\ StrictlyOn(m.b, l) <=> StrictlyOn(f.b, e)
  BY <1>1, Zenon DEF StrictlyOn
<1>7. VertexOnEdge(l, m) <=> VertexOnEdge(e, f)
  BY <1>1, <1>6, Zenon DEF VertexOnEdge
<1>8. EdgesIntersect(l, m) <=> EdgesIntersect(e, f)
  BY <1>1, <1>3, <1>5, Zenon DEF EdgesIntersect
<1> QED BY <1>1, <1>3, <1>4, <1>7, <1>8, Zenon DEF LeanPairIntersects

(* Two means of numbers that lie apart are not equal.                      *)
LEMMA MeansApart ==
  ASSUME NEW w1 \in Nat, NEW w2 \in Nat, NEW v1 \in Nat, NEW v2 \in Nat,
         w1 + w2 = v1 + v2, v1 > 0, NEW h \in Int,
         NEW x1 \in Int, NEW x2 \in Int, NEW y1 \in Int, NEW y2 \in Int,
         x1 <= h, x2 <= h, h < y1, h < y2
  PROVE  w1 * x1 + w2 * x2 # v1 * y1 + v2 * y2
<1>1. w1 * (h - x1) >= 0 /\ w2 * (h - x2) >= 0 /\ v1 * (y1 - h) > 0 /\ v2 * (y2 - h) >= 0
  <2>1. h - x1 \in Int /\ h - x2 \in Int /\ y1 - h \in Int /\ y2 - h \in Int
    OBVIOUS
  <2> QED BY <2>1, SignOfProduct
<1>2. /\ w1 * (h - x1) = w1 * h - w1 * x1 /\ w2 * (h - x2) = w2 * h - w2 * x2
      /\ v1 * (y1 - h) = v1 * y1 - v1 * h /\ v2 * (y2 - h) = v2 * y2 - v2 * h
  OBVIOUS
<1>3. w1 * h + w2 * h = v1 * h + v2 * h
  <2>1. (w1 + w2) * h = w1 * h + w2 * h /\ (v1 + v2) * h = v1 * h + v2 * h
    OBVIOUS
  <2> QED BY <2>1
<1> DEFINE a == w1 * x1  b == w2 * x2  c == v1 * y1  d == v2 * y2
           p == w1 * h  q == w2 * h  r == v1 * h  s == v2 * h
<1>4. /\ a \in Int /\ b \in Int /\ c \in Int /\ d \in Int /\ p \in Int /\ q \in Int /\ r \in Int /\ s \in Int
  OBVIOUS
<1>5. p - a >= 0 /\ q - b >= 0 /\ c - r > 0 /\ d - s >= 0 /\ p + q = r + s
  BY <1>1, <1>2, <1>3
<1> HIDE DEF a, b, c, d, p, q, r, s
<1>6. a + b # c + d
  BY <1>4, <1>5
<1> QED BY <1>6 DEF a, b, c, d

(* The boxes of lines that cross have a point in common.                   *)
LEMMA CrossMeets ==
  ASSUME NEW l \in Lines, NEW m \in Lines, ProperlyCross(l, m)
  PROVE  ~Apart(Box(l), Box(m))
<1> DEFINE a1 == l.a[1]  a2 == l.a[2]  b1 == l.b[1]  b2 == l.b[2]
           p1 == m.a[1]  p2 == m.a[2]  q1 == m.b[1]  q2 == m.b[2]
           o1 == Orient(l.a, l.b, m.a)
           o2 == Orient(l.a, l.b, m.b)
           o3 == Orient(m.a, m.b, l.a)
           o4 == Orient(m.a, m.b, l.b)
<1>1. /\ o1 \in Int /\ o2 \in Int /\ o3 \in Int /\ o4 \in Int
      /\ o1 * o2 < 0 /\ o3 * o4 < 0
  BY SidesAre DEF ProperlyCross
<1>2. /\ a1 \in Int /\ a2 \in Int /\ b1 \in Int /\ b2 \in Int
      /\ p1 \in Int /\ p2 \in Int /\ q1 \in Int /\ q2 \in Int
  BY SidesAre, Points2
<1>3. /\ o1 = (b1 - a1) * (p2 - a2) - (b2 - a2) * (p1 - a1)
      /\ o2 = (b1 - a1) * (q2 - a2) - (b2 - a2) * (q1 - a1)
      /\ o3 = (q1 - p1) * (a2 - p2) - (q2 - p2) * (a1 - p1)
      /\ o4 = (q1 - p1) * (b2 - p2) - (q2 - p2) * (b1 - p1)
  BY DEF Orient
<1>4. /\ Box(l).lx = Lower(a1, b1) /\ Box(l).hx = Upper(a1, b1)
      /\ Box(l).ly = Lower(a2, b2) /\ Box(l).hy = Upper(a2, b2)
      /\ Box(m).lx = Lower(p1, q1) /\ Box(m).hx = Upper(p1, q1)
      /\ Box(m).ly = Lower(p2, q2) /\ Box(m).hy = Upper(p2, q2)
  BY DEF Box
<1> HIDE DEF a1, a2, b1, b2, p1, p2, q1, q2
<1>5. o3 - o4 = o2 - o1
  BY <1>2, <1>3
<1>6. o3 * b1 - o4 * a1 = o2 * p1 - o1 * q1
  BY <1>2, <1>3
<1>7. o3 * b2 - o4 * a2 = o2 * p2 - o1 * q2
  BY <1>2, <1>3
<1> HIDE DEF o1, o2, o3, o4
<1>8. (o3 > 0 /\ o4 < 0 /\ o2 > 0 /\ o1 < 0) \/ (o3 < 0 /\ o4 > 0 /\ o2 < 0 /\ o1 > 0)
  <2>1. (o3 > 0 /\ o4 < 0) \/ (o3 < 0 /\ o4 > 0)
    BY <1>1, SignOfProduct
  <2>2. (o1 > 0 /\ o2 < 0) \/ (o1 < 0 /\ o2 > 0)
    BY <1>1, SignOfProduct
  <2> QED BY <1>1, <1>5, <2>1, <2>2
<1>9. ASSUME NEW a \in Int, NEW b \in Int, NEW p \in Int, NEW q \in Int,
             o3 * b - o4 * a = o2 * p - o1 * q
      PROVE  ~(Upper(a, b) < Lower(p, q)) /\ ~(Upper(p, q) < Lower(a, b))
  <2> DEFINE w1 == IF o3 > 0 THEN o3 ELSE -o3
             w2 == IF o3 > 0 THEN -o4 ELSE o4
             v1 == IF o3 > 0 THEN o2 ELSE -o2
             v2 == IF o3 > 0 THEN -o1 ELSE o1
  <2>1. w1 \in Nat /\ w2 \in Nat /\ v1 \in Nat /\ v2 \in Nat /\ w1 > 0 /\ v1 > 0 /\ w1 + w2 = v1 + v2
    BY <1>1, <1>5, <1>8
  <2>2. w1 * b + w2 * a = v1 * p + v2 * q
    <3> DEFINE x == o3 * b  y == o4 * a  z == o2 * p  w == o1 * q
    <3>1. x \in Int /\ y \in Int /\ z \in Int /\ w \in Int /\ x - y = z - w
      BY <1>1, <1>9
    <3>2. /\ (-o3) * b = -x /\ (-o4) * a = -y /\ (-o2) * p = -z /\ (-o1) * q = -w
      BY <1>1
    <3>3. CASE o3 > 0
      <4>1. w1 * b = x /\ w2 * a = -y /\ v1 * p = z /\ v2 * q = -w
        BY <3>2, <3>3
      <4> HIDE DEF x, y, z, w, w1, w2, v1, v2
      <4> QED BY <3>1, <4>1
    <3>4. CASE ~(o3 > 0)
      <4>1. w1 * b = -x /\ w2 * a = y /\ v1 * p = -z /\ v2 * q = w
        BY <3>2, <3>4
      <4> HIDE DEF x, y, z, w, w1, w2, v1, v2
      <4> QED BY <3>1, <4>1
    <3> QED BY <3>3, <3>4
  <2> HIDE DEF w1, w2, v1, v2
  <2>3. ASSUME Upper(a, b) < Lower(p, q) PROVE FALSE
    <3> DEFINE h == Upper(a, b)
    <3>1. h \in Int /\ b <= h /\ a <= h /\ h < p /\ h < q
      BY <2>3 DEF Upper, Lower
    <3> HIDE DEF h
    <3> QED BY <2>1, <2>2, <3>1, MeansApart
  <2>4. ASSUME Upper(p, q) < Lower(a, b) PROVE FALSE
    <3> DEFINE h == Upper(p, q)
    <3>1. h \in Int /\ p <= h /\ q <= h /\ h < a /\ h < b
      BY <2>4 DEF Upper, Lower
    <3> HIDE DEF h
    <3> QED BY <2>1, <2>2, <3>1, MeansApart
  <2> QED BY <2>3, <2>4
<1>10. /\ ~(Upper(a1, b1) < Lower(p1, q1)) /\ ~(Upper(p1, q1) < Lower(a1, b1))
       /\ ~(Upper(a2, b2) < Lower(p2, q2)) /\ ~(Upper(p2, q2) < Lower(a2, b2))
  BY <1>2, <1>6, <1>7, <1>9
<1> QED BY <1>4, <1>10 DEF Apart

(***************************************************************************)
(* Lines with an inner point in common.                                    *)
(***************************************************************************)

(* Vectors to the two sides of a point point apart.                        *)
LEMMA PointApart ==
  ASSUME NEW u1 \in Int, NEW u2 \in Int, NEW v1 \in Int, NEW v2 \in Int,
         u1 * v2 = u2 * v1, u1 * v1 < 0 \/ u2 * v2 < 0
  PROVE  u1 * v1 + u2 * v2 < 0
<1>1. u1 * v1 \in Int /\ u2 * v2 \in Int
  OBVIOUS
<1>2. CASE u1 * v1 < 0
  BY <1>1, <1>2, OppositeParts
<1>3. CASE u2 * v2 < 0
  <2>1. u2 * v1 = u1 * v2
    OBVIOUS
  <2>2. u1 * v1 <= 0
    BY <1>3, <2>1, OppositeParts
  <2> QED BY <1>1, <1>3, <2>2
<1> QED BY <1>2, <1>3

(* The ends of a line from an inner point of it.                           *)
LEMMA FromInside ==
  ASSUME NEW l \in Lines, NEW p \in Points, StrictlyOn(p, l)
  PROVE  /\ l.a[1] - p[1] \in Int /\ l.a[2] - p[2] \in Int /\ l.b[1] - p[1] \in Int /\ l.b[2] - p[2] \in Int
         /\ (l.a[1] - p[1]) * (l.b[2] - p[2]) = (l.a[2] - p[2]) * (l.b[1] - p[1])
         /\ (l.a[1] - p[1]) * (l.b[1] - p[1]) < 0 \/ (l.a[2] - p[2]) * (l.b[2] - p[2]) < 0
<1>1. l.a \in Points /\ l.b \in Points
  BY DEF Lines
<1> DEFINE x == (l.a[1] - p[1]) * (l.b[2] - p[2])
           y == (l.a[2] - p[2]) * (l.b[1] - p[1])
<1>2. /\ l.a[1] - p[1] \in Int /\ l.a[2] - p[2] \in Int /\ l.b[1] - p[1] \in Int /\ l.b[2] - p[2] \in Int
  BY <1>1, Points2
<1>3. Orient(l.a, l.b, p) = x - y /\ Orient(l.a, l.b, p) = 0
  BY <1>1, CrossFrom, StrictlyOnIs
<1>4. x \in Int /\ y \in Int
  BY <1>2
<1> HIDE DEF x, y
<1>5. x = y
  BY <1>3, <1>4
<1> QED BY <1>2, <1>5, StrictlyOnIs DEF x, y

(* The product of two projections on d, both parallel to it.               *)
LEMMA Projections ==
  ASSUME NEW u1 \in Int, NEW u2 \in Int, NEW v1 \in Int, NEW v2 \in Int, NEW d1 \in Int, NEW d2 \in Int,
         d1 * u2 - d2 * u1 = 0
  PROVE  (u1 * d1 + u2 * d2) * (v1 * d1 + v2 * d2) = (u1 * v1 + u2 * v2) * (d1 * d1 + d2 * d2)
<1>1. (u1 * d1 + u2 * d2) * (v1 * d1 + v2 * d2)
        = (u1 * v1 + u2 * v2) * (d1 * d1 + d2 * d2) - (d1 * u2 - d2 * u1) * (d1 * v2 - d2 * v1)
  OBVIOUS
<1>2. (d1 * u2 - d2 * u1) * (d1 * v2 - d2 * v1) = 0
  <2>1. d1 * v2 - d2 * v1 \in Int
    OBVIOUS
  <2>2. \A k \in Int : 0 * k = 0
    OBVIOUS
  <2> QED BY <2>1, <2>2
<1>3. (u1 * v1 + u2 * v2) * (d1 * d1 + d2 * d2) \in Int
  OBVIOUS
<1> QED BY <1>1, <1>2, <1>3

(* How an orientation about a line looks from a point of it.               *)
LEMMA OrientFrom ==
  ASSUME NEW l \in Lines, NEW p \in Points, NEW q \in Points, Orient(l.a, l.b, p) = 0
  PROVE  Orient(l.a, l.b, q) = (l.b[1] - l.a[1]) * (q[2] - p[2]) - (l.b[2] - l.a[2]) * (q[1] - p[1])
<1>1. /\ l.a[1] \in Int /\ l.a[2] \in Int /\ l.b[1] \in Int /\ l.b[2] \in Int
      /\ p[1] \in Int /\ p[2] \in Int /\ q[1] \in Int /\ q[2] \in Int
  BY Points2 DEF Lines
<1>2. ASSUME NEW a1 \in Int, NEW a2 \in Int, NEW b1 \in Int, NEW b2 \in Int, NEW p1 \in Int, NEW p2 \in Int,
             NEW q1 \in Int, NEW q2 \in Int, (b1 - a1) * (p2 - a2) - (b2 - a2) * (p1 - a1) = 0
      PROVE  (b1 - a1) * (q2 - a2) - (b2 - a2) * (q1 - a1) = (b1 - a1) * (q2 - p2) - (b2 - a2) * (q1 - p1)
  <2>1. (b1 - a1) * (q2 - a2) - (b2 - a2) * (q1 - a1)
          = ((b1 - a1) * (q2 - p2) - (b2 - a2) * (q1 - p1))
            + ((b1 - a1) * (p2 - a2) - (b2 - a2) * (p1 - a1))
    OBVIOUS
  <2>2. (b1 - a1) * (q2 - p2) - (b2 - a2) * (q1 - p1) \in Int
    OBVIOUS
  <2> QED BY <1>2, <2>1, <2>2
<1> QED BY <1>1, <1>2 DEF Orient

(* Through an inner point of l and m: if one end of m is on the line of l, *)
(* so is the other one.                                                    *)
LEMMA BothOnLine ==
  ASSUME NEW l \in Lines, NEW m \in Lines, NEW p \in Points, StrictlyOn(p, l), StrictlyOn(p, m)
  PROVE  /\ Orient(l.a, l.b, m.a) * Orient(l.a, l.b, m.b) <= 0
         /\ Orient(l.a, l.b, m.a) = 0 <=> Orient(l.a, l.b, m.b) = 0
<1> DEFINE d1 == l.b[1] - l.a[1]
           d2 == l.b[2] - l.a[2]
           u1 == m.a[1] - p[1]
           u2 == m.a[2] - p[2]
           v1 == m.b[1] - p[1]
           v2 == m.b[2] - p[2]
           o == d1 * u2 - d2 * u1
           q == d1 * v2 - d2 * v1
<1>1. l.a \in Points /\ l.b \in Points /\ m.a \in Points /\ m.b \in Points
  BY DEF Lines
<1>2. d1 \in Int /\ d2 \in Int
  BY <1>1, Points2
<1>3. /\ u1 \in Int /\ u2 \in Int /\ v1 \in Int /\ v2 \in Int
      /\ u1 * v2 = u2 * v1 /\ (u1 * v1 < 0 \/ u2 * v2 < 0)
  BY FromInside
<1>4. Orient(l.a, l.b, m.a) = o /\ Orient(l.a, l.b, m.b) = q
  BY <1>1, OrientFrom, StrictlyOnIs
<1> HIDE DEF d1, d2, u1, u2, v1, v2
<1>5. o * q <= 0
  BY <1>2, <1>3, OppositeSides
<1>6. /\ u1 * q = v1 * o /\ u2 * q = v2 * o
  BY <1>2, <1>3, TurnScaled
<1>7. o \in Int /\ q \in Int
  BY <1>2, <1>3
<1>8. (u1 # 0 /\ v1 # 0) \/ (u2 # 0 /\ v2 # 0)
  BY <1>3, SignOfProduct
<1> HIDE DEF o, q
<1>9. \A k \in Int : k * 0 = 0
  OBVIOUS
<1>10. o = 0 <=> q = 0
  BY <1>3, <1>6, <1>7, <1>8, <1>9, SignOfProduct
<1> QED BY <1>4, <1>5, <1>10

(* Lines on one line with a common inner point overlap.                    *)
LEMMA InsideOverlap ==
  ASSUME NEW l \in Lines, NEW m \in Lines, NEW p \in Points, StrictlyOn(p, l), StrictlyOn(p, m),
         Orient(l.a, l.b, m.a) = 0, Orient(l.a, l.b, m.b) = 0
  PROVE  Overlap(l, m)
<1> DEFINE d1 == l.b[1] - l.a[1]
           d2 == l.b[2] - l.a[2]
           u1 == l.a[1] - p[1]
           u2 == l.a[2] - p[2]
           v1 == l.b[1] - p[1]
           v2 == l.b[2] - p[2]
           w1 == m.a[1] - p[1]
           w2 == m.a[2] - p[2]
           x1 == m.b[1] - p[1]
           x2 == m.b[2] - p[2]
           Along(r) == (r[1] - l.a[1]) * d1 + (r[2] - l.a[2]) * d2
<1>1. l.a \in Points /\ l.b \in Points /\ m.a \in Points /\ m.b \in Points
  BY DEF Lines
<1>2. /\ u1 \in Int /\ u2 \in Int /\ v1 \in Int /\ v2 \in Int /\ u1 * v1 + u2 * v2 < 0
      /\ u1 * v2 = u2 * v1 /\ (u1 * v1 < 0 \/ u2 * v2 < 0)
  <2>1. /\ u1 \in Int /\ u2 \in Int /\ v1 \in Int /\ v2 \in Int
        /\ u1 * v2 = u2 * v1 /\ (u1 * v1 < 0 \/ u2 * v2 < 0)
    BY FromInside
  <2> HIDE DEF u1, u2, v1, v2
  <2> QED BY <2>1, PointApart
<1>3. /\ w1 \in Int /\ w2 \in Int /\ x1 \in Int /\ x2 \in Int /\ w1 * x1 + w2 * x2 < 0
  <2>1. /\ w1 \in Int /\ w2 \in Int /\ x1 \in Int /\ x2 \in Int
        /\ w1 * x2 = w2 * x1 /\ (w1 * x1 < 0 \/ w2 * x2 < 0)
    BY FromInside
  <2> HIDE DEF w1, w2, x1, x2
  <2> QED BY <2>1, PointApart
<1>4. d1 * w2 - d2 * w1 = 0 /\ d1 * x2 - d2 * x1 = 0
  BY <1>1, OrientFrom, StrictlyOnIs
<1>5. /\ d1 = v1 - u1 /\ d2 = v2 - u2
      /\ \A r \in Points : Along(r) = ((r[1] - p[1]) - u1) * d1 + ((r[2] - p[2]) - u2) * d2
  <2>1. /\ l.a[1] \in Int /\ l.a[2] \in Int /\ l.b[1] \in Int /\ l.b[2] \in Int
        /\ p[1] \in Int /\ p[2] \in Int
    BY <1>1, Points2
  <2>2. d1 = v1 - u1 /\ d2 = v2 - u2
    BY <2>1
  <2>3. \A r \in Points : r[1] - l.a[1] = (r[1] - p[1]) - u1 /\ r[2] - l.a[2] = (r[2] - p[2]) - u2
    BY <2>1, Points2
  <2> QED BY <2>2, <2>3
<1>6. /\ Along(p) = (0 - u1) * d1 + (0 - u2) * d2
      /\ Along(l.b) = (v1 - u1) * d1 + (v2 - u2) * d2
      /\ Along(m.a) = (w1 - u1) * d1 + (w2 - u2) * d2
      /\ Along(m.b) = (x1 - u1) * d1 + (x2 - u2) * d2
  <2>1. p[1] - p[1] = 0 /\ p[2] - p[2] = 0
    BY Points2
  <2> HIDE DEF Along
  <2> QED BY <1>1, <1>5, <2>1
<1>7. Overlap(l, m) <=> Upper(0, Lower(Along(m.a), Along(m.b))) < Lower(Along(l.b), Upper(Along(m.a), Along(m.b)))
  BY DEF Overlap
<1> DEFINE t == Along(p)
           b == Along(l.b)
           s == Along(m.a)
           e == Along(m.b)
<1>8. d1 \in Int /\ d2 \in Int
  BY <1>2, <1>5
<1> HIDE DEF Along, d1, d2, u1, u2, v1, v2, w1, w2, x1, x2
<1>9. t \in Int /\ b \in Int /\ s \in Int /\ e \in Int
  BY <1>2, <1>3, <1>6, <1>8
<1>10. 0 < t /\ t < b
  <2>1. /\ t = (u1 * u1 + u2 * u2) - (u1 * v1 + u2 * v2)
        /\ b - t = (v1 * v1 + v2 * v2) - (u1 * v1 + u2 * v2)
    BY <1>2, <1>5, <1>6
  <2>2. u1 * u1 >= 0 /\ u2 * u2 >= 0 /\ v1 * v1 >= 0 /\ v2 * v2 >= 0
    BY <1>2, SignOfProduct
  <2>3. /\ u1 * u1 \in Int /\ u2 * u2 \in Int /\ v1 * v1 \in Int /\ v2 * v2 \in Int
        /\ u1 * v1 + u2 * v2 \in Int
    BY <1>2
  <2>4. \A i, j, k \in Int : i >= 0 /\ j >= 0 /\ k < 0 => (i + j) - k > 0
    OBVIOUS
  <2> HIDE DEF t, b
  <2> QED BY <1>2, <1>9, <2>1, <2>2, <2>3, <2>4
<1>11. (s - t) * (e - t) < 0
  <2>1. s - t = w1 * d1 + w2 * d2 /\ e - t = x1 * d1 + x2 * d2
    BY <1>2, <1>3, <1>6, <1>8
  <2>2. (s - t) * (e - t) = (w1 * x1 + w2 * x2) * (d1 * d1 + d2 * d2)
    <3>1. (w1 * d1 + w2 * d2) * (x1 * d1 + x2 * d2) = (w1 * x1 + w2 * x2) * (d1 * d1 + d2 * d2)
      BY <1>3, <1>4, <1>8, Projections
    <3> HIDE DEF s, e, t
    <3> QED BY <2>1, <3>1, Zenon
  <2>3. d1 # 0 \/ d2 # 0
    <3>1. CASE u1 * v1 < 0
      BY <1>2, <1>5, <3>1, SignOfProduct
    <3>2. CASE u2 * v2 < 0
      BY <1>2, <1>5, <3>2, SignOfProduct
    <3> QED BY <1>2, <3>1, <3>2
  <2>4. d1 * d1 + d2 * d2 > 0 /\ d1 * d1 + d2 * d2 \in Int
    BY <1>8, <2>3, Squares
  <2>5. w1 * x1 + w2 * x2 \in Int
    BY <1>3
  <2>6. (w1 * x1 + w2 * x2) * (d1 * d1 + d2 * d2) < 0
    BY <1>3, <2>4, <2>5, SignOfProduct
  <2> QED BY <2>2, <2>6
<1> HIDE DEF t, b, s, e
<1>12. Lower(s, e) < t /\ t < Upper(s, e)
  BY <1>9, <1>11, InsideIs
<1>13. Upper(0, Lower(s, e)) < Lower(b, Upper(s, e))
  BY <1>9, <1>10, <1>12 DEF Upper, Lower
<1> QED BY <1>7, <1>13 DEF t, b, s, e

(* Lines with an inner point in common cross or overlap.                   *)
LEMMA InsideBoth ==
  ASSUME NEW l \in Lines, NEW m \in Lines, NEW p \in Points, StrictlyOn(p, l), StrictlyOn(p, m)
  PROVE  EdgesIntersect(l, m)
<1> DEFINE o1 == Orient(l.a, l.b, m.a)
           o2 == Orient(l.a, l.b, m.b)
           o3 == Orient(m.a, m.b, l.a)
           o4 == Orient(m.a, m.b, l.b)
<1>1. ~Apart(Box(l), Box(m))
  BY OnIsWithin, ShareBoxes, Points2
<1>2. /\ o1 \in Int /\ o2 \in Int /\ o3 \in Int /\ o4 \in Int
      /\ ProperlyCross(l, m) <=> o1 * o2 < 0 /\ o3 * o4 < 0
  BY SidesAre DEF ProperlyCross
<1>3. /\ o1 * o2 <= 0 /\ (o1 = 0 <=> o2 = 0)
      /\ o3 * o4 <= 0 /\ (o3 = 0 <=> o4 = 0)
  BY BothOnLine
<1>4. CASE o1 = 0
  BY <1>1, <1>3, <1>4, InsideOverlap DEF EdgesIntersect
<1>5. CASE o1 # 0
  <2>1. o3 # 0
    <3>1. m.a # m.b
      <4>1. m.a \in Points /\ m.b \in Points
        BY DEF Lines
      <4>2. m.a = m.b => /\ (m.a[1] - p[1]) * (m.b[1] - p[1]) >= 0
                         /\ (m.a[2] - p[2]) * (m.b[2] - p[2]) >= 0
        BY <4>1, FromInside, SignOfProduct
      <4>3. /\ (m.a[1] - p[1]) * (m.b[1] - p[1]) \in Int /\ (m.a[2] - p[2]) * (m.b[2] - p[2]) \in Int
        BY FromInside, SignOfProduct
      <4>4. \/ (m.a[1] - p[1]) * (m.b[1] - p[1]) < 0
            \/ (m.a[2] - p[2]) * (m.b[2] - p[2]) < 0
        BY FromInside
      <4>5. \A i \in Int : ~(i >= 0 /\ i < 0)
        OBVIOUS
      <4> QED BY <4>2, <4>3, <4>4, <4>5
    <3> QED BY <1>3, <1>5, <3>1, Collinear
  <2> HIDE DEF o1, o2, o3, o4
  <2>2. o1 * o2 < 0 /\ o3 * o4 < 0
    <3>1. o2 # 0 /\ o4 # 0
      BY <1>3, <1>5, <2>1
    <3>2. o1 * o2 # 0 /\ o3 * o4 # 0 /\ o1 * o2 \in Int /\ o3 * o4 \in Int
      BY <1>2, <1>5, <2>1, <3>1, SignOfProduct
    <3> QED BY <1>3, <3>2
  <2> QED BY <1>1, <1>2, <2>2 DEF EdgesIntersect
<1> QED BY <1>4, <1>5
=============================================================================
