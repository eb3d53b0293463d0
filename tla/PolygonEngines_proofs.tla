------------------------ MODULE PolygonEngines_proofs ------------------------
(***************************************************************************)
(* Proofs about the two engines on one polygon, for every polygon of       *)
(* lattice points with sides parallel to the axes: the triangulation's     *)
(* labels against the crossings of a ray, and the rim that is traced       *)
(* around what they select.                                                *)
(***************************************************************************)
EXTENDS PolygonEngines, FiniteSetTheorems, FunctionTheorems, WellFoundedInduction, TLAPS

(* Odd many, and what two sets do not share.                               *)
Odd(S) == Cardinality(S) % 2 = 1

Differ(S, T) == (S \ T) \cup (T \ S)

(* The lattice.                                                            *)
Points == Int \X Int

(* Sides of rings from their smaller end to their greater one.             *)
AxisLines == {l \in Points \X Points : \/ l[1][1] = l[2][1] /\ l[1][2] <= l[2][2]
                                       \/ l[1][2] = l[2][2] /\ l[1][1] <= l[2][1]}

(* Unit sides of the grid, named by their smaller end, and their two       *)
(* half-edges.                                                             *)
Units == [x : Int, y : Int, up : BOOLEAN]

Unit(x, y, up) == [x |-> x, y |-> y, up |-> up]

(* The greater end of a unit side, and its half-edges both ways.           *)
Far(s) == IF s.up THEN <<s.x, s.y + 1>> ELSE <<s.x + 1, s.y>>

Half(s) == {<<<<s.x, s.y>>, Far(s)>>, <<Far(s), <<s.x, s.y>>>>}

(* A side of a ring covers a unit side.                                    *)
Along(l, s) ==
  IF s.up THEN l[1][1] = s.x /\ l[2][1] = s.x /\ l[1][2] <= s.y /\ s.y < l[2][2]
          ELSE l[1][2] = s.y /\ l[2][2] = s.y /\ l[1][1] <= s.x /\ s.x < l[2][1]

(* The lines along a unit side, and those a ray from a cell crosses.       *)
Through(lines, s) == {k \in DOMAIN lines : Along(lines[k], s)}

(* An upright side lies right of the cell and beside it.                   *)
Crossed(l, x, y) == l[1][1] = l[2][1] /\ l[1][1] > x /\ l[1][2] <= y /\ y < l[2][2]

RayMeets(lines, x, y) == {k \in DOMAIN lines : Crossed(lines[k], x, y)}

(* Linework that starts as often as it ends at every point.                *)
EndsAt(lines, i, v) == {k \in DOMAIN lines : lines[k][i] = v}

Closes(lines) == \A v \in Points : Odd(EndsAt(lines, 1, v)) <=> Odd(EndsAt(lines, 2, v))

(***************************************************************************)
(* Parity.                                                                 *)
(***************************************************************************)
(* What two finite sets do not share is odd when one of them is.           *)
LEMMA OddDiffer ==
  ASSUME NEW S, NEW T, IsFiniteSet(S), IsFiniteSet(T)
  PROVE  /\ IsFiniteSet(Differ(S, T))
         /\ Odd(Differ(S, T)) <=> ~(Odd(S) <=> Odd(T))
<1> DEFINE s == Cardinality(S)
           t == Cardinality(T)
           b == Cardinality(S \cap T)
<1>1. IsFiniteSet(S \cap T) /\ IsFiniteSet(S \ T) /\ IsFiniteSet(T \ S)
  BY FS_Intersection, FS_Difference
<1>2. s \in Nat /\ t \in Nat /\ b \in Nat
  BY <1>1, FS_CardinalityType
<1>3. Cardinality(S \ T) = s - b /\ Cardinality(T \ S) = t - b
  <2>1. T \cap S = S \cap T
    OBVIOUS
  <2> QED BY <2>1, FS_Difference
<1>4. /\ Cardinality((S \ T) \cup (T \ S)) = (s - b) + (t - b)
      /\ IsFiniteSet((S \ T) \cup (T \ S))
  <2>1. (S \ T) \cap (T \ S) = {}
    OBVIOUS
  <2>2. Cardinality((S \ T) \cap (T \ S)) = 0
    BY <2>1, FS_EmptySet
  <2>3. /\ Cardinality((S \ T) \cup (T \ S))
             = Cardinality(S \ T) + Cardinality(T \ S) - Cardinality((S \ T) \cap (T \ S))
        /\ IsFiniteSet((S \ T) \cup (T \ S))
    BY <1>1, FS_Union
  <2> HIDE DEF s, t, b
  <2> QED BY <1>2, <1>3, <2>2, <2>3
<1>5. (s - b) + (t - b) = (s + t) - 2 * b
  BY <1>2
<1> HIDE DEF s, t, b
<1>6. ((s + t) - 2 * b) % 2 = 1 <=> ~(s % 2 = 1 <=> t % 2 = 1)
  BY <1>2
<1> QED BY <1>4, <1>5, <1>6 DEF Odd, Differ, s, t

(* Nothing is even in number, one thing is odd.                            *)
LEMMA OddFew == ~Odd({}) /\ \A x : Odd({x})
<1>1. Cardinality({}) = 0 /\ \A x : Cardinality({x}) = 1
  BY FS_EmptySet, FS_Singleton
<1>2. ~(0 % 2 = 1) /\ 1 % 2 = 1
  OBVIOUS
<1> QED BY <1>1, <1>2 DEF Odd

(* A set of naturals with a member has a least one.                        *)
LEMMA LeastNatural ==
  ASSUME NEW T \in SUBSET Nat, T # {}
  PROVE  \E j \in T : \A k \in T : j <= k
<1>1. PICK j \in T : \A k \in T : ~(<<k, j>> \in OpToRel(<, Nat))
  BY WFMin, NatLessThanWellFounded
<1>2. \A k \in T : ~(k < j)
  BY <1>1 DEF OpToRel
<1> QED
  BY <1>2

(* A family of finite sets with a member has a smallest one.               *)
LEMMA SmallestSet ==
  ASSUME NEW F, F # {}, \A S \in F : IsFiniteSet(S)
  PROVE  \E S \in F : \A R \in F : Cardinality(S) <= Cardinality(R)
<1> DEFINE T == {Cardinality(S) : S \in F}
<1>1. T \in SUBSET Nat /\ T # {}
  BY FS_CardinalityType
<1>2. PICK n \in T : \A m \in T : n <= m
  <2> HIDE DEF T
  <2> QED BY <1>1, LeastNatural
<1> QED BY <1>2

(* The values of a function on a finite set.                               *)
LEMMA ValuesFinite ==
  ASSUME NEW S, IsFiniteSet(S), NEW f, f = [x \in S |-> f[x]]
  PROVE  IsFiniteSet({f[x] : x \in S})
<1> DEFINE T == {f[x] : x \in S}
<1>1. f \in Surjection(S, T)
  BY DEF Surjection
<1> QED BY <1>1, FS_Surjection

(* Values taken an odd number of times are odd in number when what takes   *)
(* them is.                                                                *)
LEMMA OddFibres ==
  ASSUME NEW D, IsFiniteSet(D), NEW f, DOMAIN f = D, NEW M, IsFiniteSet(M)
  PROVE  Odd({k \in D : f[k] \in M}) <=> Odd({l \in M : Odd({k \in D : f[k] = l})})
<1> DEFINE Over(R) == {k \in D : f[k] \in R}
           Often(R) == {l \in R : Odd({k \in D : f[k] = l})}
           F == {R \in SUBSET M : ~(Odd(Over(R)) <=> Odd(Often(R)))}
<1>1. SUFFICES F = {}
  BY DEF F
<1>2. SUFFICES ASSUME F # {} PROVE FALSE
  OBVIOUS
<1>3. \A R \in SUBSET M : IsFiniteSet(R)
  BY FS_Subset
<1>4. PICK R \in F : \A S \in F : Cardinality(R) <= Cardinality(S)
  <2>1. \A S \in F : IsFiniteSet(S)
    BY <1>3
  <2> HIDE DEF F
  <2> QED BY <1>2, <2>1, SmallestSet
<1>5. PICK l \in R : TRUE
  <2>1. Over({}) = {} /\ Often({}) = {}
    OBVIOUS
  <2>2. R # {}
    <3> HIDE DEF Over, Often
    <3> QED BY <2>1
  <2> QED BY <2>2
<1> DEFINE S == R \ {l}
           K == {k \in D : f[k] = l}
<1>6. S \in SUBSET M /\ Cardinality(S) < Cardinality(R)
  <2>1. IsFiniteSet(R) /\ R \subseteq M
    BY <1>3
  <2>2. Cardinality(S) = Cardinality(R) - 1
    BY <2>1, <1>5, FS_RemoveElement
  <2> QED BY <2>1, <2>2, FS_CardinalityType
<1>7. Odd(Over(S)) <=> Odd(Often(S))
  <2>1. S \notin F
    <3>1. IsFiniteSet(S) /\ IsFiniteSet(R)
      BY <1>3, <1>6
    <3>2. Cardinality(S) \in Nat /\ Cardinality(R) \in Nat
      BY <3>1, FS_CardinalityType
    <3> HIDE DEF S, F
    <3> QED BY <1>4, <1>6, <3>2
  <2> QED BY <1>6, <2>1
<1>8. IsFiniteSet(Over(S)) /\ IsFiniteSet(K) /\ IsFiniteSet(Often(S)) /\ IsFiniteSet({l})
  <2>1. Over(S) \subseteq D /\ K \subseteq D /\ Often(S) \subseteq M
    OBVIOUS
  <2> HIDE DEF S, K, Over, Often
  <2> QED BY <2>1, FS_Subset, FS_Singleton
<1>9. Over(R) = Differ(Over(S), K)
  BY <1>5 DEF Differ
<1>10. Odd(Over(R)) <=> ~(Odd(Over(S)) <=> Odd(K))
  <2> HIDE DEF Over, K, S
  <2> QED BY <1>8, <1>9, OddDiffer
<1>11. Often(R) = IF Odd(K) THEN Differ(Often(S), {l}) ELSE Often(S)
  BY <1>5 DEF Differ
<1>12. Odd(Often(R)) <=> ~(Odd(Often(S)) <=> Odd(K))
  <2> HIDE DEF Often, K, S
  <2>1. Odd({l})
    BY OddFew
  <2> QED BY <1>8, <1>11, <2>1, OddDiffer
<1> HIDE DEF Over, Often, K, S
<1> QED BY <1>4, <1>7, <1>10, <1>12

(***************************************************************************)
(* A ray and the lines it crosses.                                         *)
(***************************************************************************)
(* A step to the left meets the lines along the side in between.           *)
LEMMA StepLeft ==
  ASSUME NEW lines, lines \in [DOMAIN lines -> AxisLines], NEW x \in Int, NEW y \in Int
  PROVE  RayMeets(lines, x - 1, y) = Differ(RayMeets(lines, x, y), Through(lines, Unit(x, y, TRUE)))
<1>1. ASSUME NEW k \in DOMAIN lines
      PROVE  Crossed(lines[k], x - 1, y)
               <=> ~(Crossed(lines[k], x, y) <=> Along(lines[k], Unit(x, y, TRUE)))
  <2>1. lines[k] \in Points \X Points
    BY DEF AxisLines
  <2> QED BY <2>1 DEF Crossed, Along, Unit, Points
<1> QED BY <1>1 DEF RayMeets, Through, Differ

(* At every point, the lines along an odd number of the sides around it    *)
(* start or end there, and not both.                                       *)
LEMMA AroundPoint ==
  ASSUME NEW lines, lines \in [DOMAIN lines -> AxisLines], NEW x \in Int, NEW y \in Int
  PROVE  Differ(Differ(Through(lines, Unit(x, y, TRUE)), Through(lines, Unit(x, y - 1, TRUE))),
                Differ(Through(lines, Unit(x, y, FALSE)), Through(lines, Unit(x - 1, y, FALSE))))
           = Differ(EndsAt(lines, 1, <<x, y>>), EndsAt(lines, 2, <<x, y>>))
<1>1. ASSUME NEW k \in DOMAIN lines
      PROVE  ~(~(Along(lines[k], Unit(x, y, TRUE)) <=> Along(lines[k], Unit(x, y - 1, TRUE)))
               <=> ~(Along(lines[k], Unit(x, y, FALSE)) <=> Along(lines[k], Unit(x - 1, y, FALSE))))
             <=> ~(lines[k][1] = <<x, y>> <=> lines[k][2] = <<x, y>>)
  <2>1. PICK a \in Int, b \in Int, c \in Int, d \in Int :
          /\ lines[k] = <<<<a, b>>, <<c, d>>>>
          /\ (a = c /\ b <= d) \/ (b = d /\ a <= c)
    <3>1. lines[k] \in Points \X Points
      BY DEF AxisLines
    <3>2. lines[k] = <<<<lines[k][1][1], lines[k][1][2]>>, <<lines[k][2][1], lines[k][2][2]>>>>
          /\ lines[k][1][1] \in Int /\ lines[k][1][2] \in Int
          /\ lines[k][2][1] \in Int /\ lines[k][2][2] \in Int
      BY <3>1 DEF Points
    <3> QED BY <3>2 DEF AxisLines
  <2>2. /\ lines[k][1] = <<x, y>> <=> a = x /\ b = y
        /\ lines[k][2] = <<x, y>> <=> c = x /\ d = y
    BY <2>1
  <2>3. /\ Along(lines[k], Unit(x, y, TRUE)) <=> a = x /\ c = x /\ b <= y /\ y < d
        /\ Along(lines[k], Unit(x, y - 1, TRUE)) <=> a = x /\ c = x /\ b <= y - 1 /\ y - 1 < d
        /\ Along(lines[k], Unit(x, y, FALSE)) <=> b = y /\ d = y /\ a <= x /\ x < c
        /\ Along(lines[k], Unit(x - 1, y, FALSE)) <=> b = y /\ d = y /\ a <= x - 1 /\ x - 1 < c
    BY <2>1 DEF Along, Unit
  <2>4. ~(~(a = x /\ c = x /\ b <= y /\ y < d <=> a = x /\ c = x /\ b <= y - 1 /\ y - 1 < d)
          <=> ~(b = y /\ d = y /\ a <= x /\ x < c <=> b = y /\ d = y /\ a <= x - 1 /\ x - 1 < c))
        <=> ~(a = x /\ b = y <=> c = x /\ d = y)
    BY <2>1
  <2> QED BY <2>2, <2>3, <2>4, Zenon
<1> QED BY <1>1 DEF Through, Differ, EndsAt

(* A finite set of integers with a member has a least and a greatest one.  *)
LEMMA Extremes ==
  ASSUME NEW S \in SUBSET Int, IsFiniteSet(S), S # {}
  PROVE  /\ Min(S) \in S /\ \A n \in S : Min(S) <= n
         /\ Max(S) \in S /\ \A n \in S : n <= Max(S)
<1> DEFINE Low(R) == \E m \in R : \A n \in R : m <= n
           High(R) == \E m \in R : \A n \in R : n <= m
           F == {R \in SUBSET S : R # {} /\ ~(Low(R) /\ High(R))}
<1>1. F = {}
  <2>1. SUFFICES ASSUME F # {} PROVE FALSE
    OBVIOUS
  <2>2. PICK R \in F : \A T \in F : Cardinality(R) <= Cardinality(T)
    <3>1. \A T \in F : IsFiniteSet(T)
      BY FS_Subset
    <3> HIDE DEF F
    <3> QED BY <2>1, <3>1, SmallestSet
  <2>3. PICK r \in R : TRUE
    OBVIOUS
  <2> DEFINE T == R \ {r}
  <2>4. IsFiniteSet(R) /\ IsFiniteSet(T) /\ Cardinality(T) = Cardinality(R) - 1
    BY <2>3, FS_Subset, FS_RemoveElement
  <2>5. T \notin F
    <3>1. Cardinality(R) \in Nat /\ Cardinality(T) \in Nat
      BY <2>4, FS_CardinalityType
    <3> HIDE DEF T, F
    <3> QED BY <2>2, <2>4, <3>1
  <2>6. CASE T = {}
    <3>1. R = {r} /\ r <= r
      BY <2>3, <2>6
    <3> QED BY <3>1
  <2>7. CASE T # {}
    <3>1. T \in SUBSET S
      OBVIOUS
    <3>2. Low(T) /\ High(T)
      <4> HIDE DEF T, Low, High
      <4> QED BY <2>5, <2>7, <3>1
    <3>3. PICK m \in T : \A n \in T : m <= n
      BY <3>2
    <3>4. PICK h \in T : \A n \in T : n <= h
      BY <3>2
    <3>5. r \in Int /\ m \in Int /\ h \in Int /\ \A n \in T : n \in Int
      BY <2>3
    <3>6. \A n \in R : n = r \/ n \in T
      OBVIOUS
    <3>7. Low(R)
      <4>1. CASE r <= m
        <5>1. \A n \in R : r <= n
          <6> HIDE DEF T
          <6> QED BY <3>3, <3>5, <3>6, <4>1
        <5> QED BY <5>1
      <4>2. CASE m <= r
        BY <3>3, <3>6, <4>2
      <4> QED BY <3>5, <4>1, <4>2
    <3>8. High(R)
      <4>1. CASE r >= h
        <5>1. \A n \in R : n <= r
          <6> HIDE DEF T
          <6> QED BY <3>4, <3>5, <3>6, <4>1
        <5> QED BY <5>1
      <4>2. CASE r <= h
        BY <3>4, <3>6, <4>2
      <4> QED BY <3>5, <4>1, <4>2
    <3> QED BY <3>7, <3>8
  <2> QED BY <2>6, <2>7
<1>2. Low(S) /\ High(S)
  <2>1. S \in SUBSET S
    OBVIOUS
  <2> HIDE DEF Low, High
  <2> QED BY <1>1, <2>1
<1>3. Min(S) \in S /\ \A n \in S : Min(S) <= n
  BY <1>2 DEF Min
<1>4. \E m \in S : \A n \in S : m >= n
  BY <1>2
<1>5. Max(S) \in S /\ \A n \in S : Max(S) >= n
  BY <1>4 DEF Max
<1> QED BY <1>3, <1>5

(* Closed linework of finitely many lines.                                 *)
Closed(lines) ==
  lines \in [DOMAIN lines -> AxisLines] /\ IsFiniteSet(DOMAIN lines) /\ Closes(lines)

(* Finitely many lines lie in a box.                                       *)
LEMMA LinesWithin ==
  ASSUME NEW lines, Closed(lines)
  PROVE  \E low, far \in Int : \A k \in DOMAIN lines : \A i, c \in {1, 2} :
           lines[k][i][c] \in Int /\ low <= lines[k][i][c] /\ lines[k][i][c] <= far
<1> DEFINE D == DOMAIN lines
           X(i, c) == {lines[k][i][c] : k \in D}
           N == X(1, 1) \cup X(1, 2) \cup X(2, 1) \cup X(2, 2) \cup {0}
<1>1. \A k \in D : \A i, c \in {1, 2} : lines[k][i][c] \in Int
  BY DEF Closed, AxisLines, Points
<1>2. \A i, c \in {1, 2} : IsFiniteSet(X(i, c))
  <2> TAKE i \in {1, 2}, c \in {1, 2}
  <2> DEFINE f == [k \in D |-> lines[k][i][c]]
  <2>1. IsFiniteSet({f[k] : k \in D})
    <3>1. f = [k \in D |-> f[k]] /\ IsFiniteSet(D)
      BY DEF Closed
    <3> HIDE DEF f, D
    <3> QED BY <3>1, ValuesFinite
  <2>2. {f[k] : k \in D} = X(i, c)
    OBVIOUS
  <2> QED BY <2>1, <2>2
<1>3. IsFiniteSet(N) /\ N \in SUBSET Int /\ N # {}
  <2>1. N \in SUBSET Int
    BY <1>1
  <2> HIDE DEF X
  <2> QED BY <1>2, <2>1, FS_Union, FS_Singleton
<1>4. Min(N) \in Int /\ Max(N) \in Int /\ \A n \in N : Min(N) <= n /\ n <= Max(N)
  <2> HIDE DEF N
  <2> QED BY <1>3, Extremes
<1>5. \A k \in D : \A i, c \in {1, 2} : lines[k][i][c] \in N
  OBVIOUS
<1> HIDE DEF N
<1> QED BY <1>1, <1>4, <1>5

(* What a ray and a side meet is finite, and far out it is nothing.        *)
LEMMA LinesBounded ==
  ASSUME NEW lines, Closed(lines)
  PROVE  /\ \A s : IsFiniteSet(Through(lines, s))
         /\ \A x, y : IsFiniteSet(RayMeets(lines, x, y))
         /\ \E far \in Int : \A n \in Int : n >= far =>
              \A m \in Int : /\ RayMeets(lines, n, m) = {} /\ RayMeets(lines, m, n) = {}
                             /\ Through(lines, Unit(n, m, FALSE)) = {}
<1>1. /\ \A s : Through(lines, s) \subseteq DOMAIN lines
      /\ \A x, y : RayMeets(lines, x, y) \subseteq DOMAIN lines
  BY DEF Through, RayMeets
<1>2. IsFiniteSet(DOMAIN lines)
  BY DEF Closed
<1>3. PICK far \in Int : \A k \in DOMAIN lines : \A i, c \in {1, 2} :
        lines[k][i][c] \in Int /\ lines[k][i][c] <= far
  BY LinesWithin
<1>4. ASSUME NEW n \in Int, n >= far, NEW m \in Int
      PROVE  /\ RayMeets(lines, n, m) = {} /\ RayMeets(lines, m, n) = {}
             /\ Through(lines, Unit(n, m, FALSE)) = {}
  <2>1. \A k \in DOMAIN lines : /\ lines[k][1][1] \in Int /\ lines[k][1][1] <= far
                                /\ lines[k][2][1] \in Int /\ lines[k][2][1] <= far
                                /\ lines[k][1][2] \in Int /\ lines[k][1][2] <= far
                                /\ lines[k][2][2] \in Int /\ lines[k][2][2] <= far
    BY <1>3
  <2>2. \A k \in DOMAIN lines : /\ ~Crossed(lines[k], n, m) /\ ~Crossed(lines[k], m, n)
                                /\ ~Along(lines[k], Unit(n, m, FALSE))
    BY <1>4, <2>1 DEF Crossed, Along, Unit
  <2> QED BY <2>2 DEF RayMeets, Through
<1>5. \E z \in Int : \A n \in Int : n >= z =>
        \A m \in Int : /\ RayMeets(lines, n, m) = {} /\ RayMeets(lines, m, n) = {}
                       /\ Through(lines, Unit(n, m, FALSE)) = {}
  BY <1>4
<1> QED BY <1>1, <1>2, <1>5, FS_Subset

(* Two cells beside each other differ when the side between them is one an *)
(* odd number of lines run along: the right and the left one.              *)
LEMMA PastUpright ==
  ASSUME NEW lines, Closed(lines), NEW x \in Int, NEW y \in Int
  PROVE  Odd(Through(lines, Unit(x, y, TRUE)))
           <=> ~(Odd(RayMeets(lines, x - 1, y)) <=> Odd(RayMeets(lines, x, y)))
<1>1. RayMeets(lines, x - 1, y) = Differ(RayMeets(lines, x, y), Through(lines, Unit(x, y, TRUE)))
  BY StepLeft DEF Closed
<1>2. IsFiniteSet(RayMeets(lines, x, y)) /\ IsFiniteSet(Through(lines, Unit(x, y, TRUE)))
  BY LinesBounded
<1> QED BY <1>1, <1>2, OddDiffer

(* An even number of the sides around a point have oddly many lines.       *)
LEMMA EvenAround ==
  ASSUME NEW lines, Closed(lines), NEW x \in Int, NEW y \in Int
  PROVE  (Odd(Through(lines, Unit(x, y, TRUE))) <=> Odd(Through(lines, Unit(x, y - 1, TRUE))))
         <=> (Odd(Through(lines, Unit(x, y, FALSE))) <=> Odd(Through(lines, Unit(x - 1, y, FALSE))))
<1> DEFINE N == Through(lines, Unit(x, y, TRUE))
           S == Through(lines, Unit(x, y - 1, TRUE))
           E == Through(lines, Unit(x, y, FALSE))
           W == Through(lines, Unit(x - 1, y, FALSE))
           From == EndsAt(lines, 1, <<x, y>>)
           To == EndsAt(lines, 2, <<x, y>>)
<1>1. Differ(Differ(N, S), Differ(E, W)) = Differ(From, To)
  <2>1. lines \in [DOMAIN lines -> AxisLines]
    BY DEF Closed
  <2> QED BY <2>1, AroundPoint, Zenon
<1>2. IsFiniteSet(N) /\ IsFiniteSet(S) /\ IsFiniteSet(E) /\ IsFiniteSet(W)
  BY LinesBounded
<1>3. IsFiniteSet(From) /\ IsFiniteSet(To)
  <2>1. From \subseteq DOMAIN lines /\ To \subseteq DOMAIN lines
    BY DEF EndsAt
  <2> HIDE DEF From, To
  <2> QED BY <2>1, FS_Subset DEF Closed
<1>4. Odd(From) <=> Odd(To)
  BY DEF Closed, Closes, Points
<1> HIDE DEF N, S, E, W, From, To
<1>5. /\ IsFiniteSet(Differ(N, S)) /\ (Odd(Differ(N, S)) <=> ~(Odd(N) <=> Odd(S)))
      /\ IsFiniteSet(Differ(E, W)) /\ (Odd(Differ(E, W)) <=> ~(Odd(E) <=> Odd(W)))
      /\ ~Odd(Differ(From, To))
  BY <1>2, <1>3, <1>4, OddDiffer
<1>6. Odd(Differ(N, S)) <=> Odd(Differ(E, W))
  BY <1>1, <1>5, OddDiffer
<1> QED BY <1>5, <1>6 DEF N, S, E, W

(* The upper and the lower one.                                            *)
LEMMA PastLevel ==
  ASSUME NEW lines, Closed(lines), NEW x \in Int, NEW y \in Int
  PROVE  Odd(Through(lines, Unit(x, y, FALSE)))
           <=> ~(Odd(RayMeets(lines, x, y - 1)) <=> Odd(RayMeets(lines, x, y)))
<1> DEFINE Right(n) == Odd(Through(lines, Unit(n, y, FALSE)))
                         <=> ~(Odd(RayMeets(lines, n, y - 1)) <=> Odd(RayMeets(lines, n, y)))
<1>1. PICK far \in Int : \A n \in Int : n >= far =>
         \A m \in Int : RayMeets(lines, n, m) = {} /\ Through(lines, Unit(n, m, FALSE)) = {}
  BY LinesBounded
<1>2. \A n \in Int : n >= far => Right(n)
  <2> TAKE n \in Int
  <2> HAVE n >= far
  <2>1. \A m \in Int : RayMeets(lines, n, m) = {} /\ Through(lines, Unit(n, m, FALSE)) = {}
    BY <1>1
  <2>2. /\ RayMeets(lines, n, y - 1) = {} /\ RayMeets(lines, n, y) = {}
        /\ Through(lines, Unit(n, y, FALSE)) = {}
    <3>1. y - 1 \in Int
      OBVIOUS
    <3> QED BY <2>1, <3>1, Zenon
  <2> QED BY <2>2, OddFew
<1>3. \A n \in Int : Right(n) => Right(n - 1)
  <2> TAKE n \in Int
  <2> HAVE Right(n)
  <2>1. /\ Odd(Through(lines, Unit(n, y, TRUE)))
             <=> ~(Odd(RayMeets(lines, n - 1, y)) <=> Odd(RayMeets(lines, n, y)))
        /\ Odd(Through(lines, Unit(n, y - 1, TRUE)))
             <=> ~(Odd(RayMeets(lines, n - 1, y - 1)) <=> Odd(RayMeets(lines, n, y - 1)))
    <3>1. y - 1 \in Int
      OBVIOUS
    <3> QED BY <3>1, PastUpright, Zenon
  <2>2. (Odd(Through(lines, Unit(n, y, TRUE))) <=> Odd(Through(lines, Unit(n, y - 1, TRUE))))
         <=> (Odd(Through(lines, Unit(n, y, FALSE))) <=> Odd(Through(lines, Unit(n - 1, y, FALSE))))
    BY EvenAround
  <2> QED BY <2>1, <2>2
<1> HIDE DEF Right
<1> DEFINE T == {n \in Nat : ~Right(far - n)}
<1>4. T = {}
  <2>1. SUFFICES ASSUME T # {} PROVE FALSE
    OBVIOUS
  <2>2. PICK n \in T : \A m \in T : n <= m
    <3>1. T \in SUBSET Nat
      OBVIOUS
    <3> HIDE DEF T
    <3> QED BY <2>1, <3>1, LeastNatural
  <2>3. n \in Nat /\ ~Right(far - n)
    OBVIOUS
  <2>4. n # 0
    BY <1>1, <1>2, <2>3
  <2>5. n - 1 \in Nat /\ ~(n <= n - 1)
    BY <2>3, <2>4
  <2>6. Right(far - (n - 1))
    BY <2>2, <2>5
  <2>7. far - (n - 1) \in Int /\ (far - (n - 1)) - 1 = far - n
    BY <1>1, <2>3
  <2> QED BY <1>3, <2>3, <2>6, <2>7
<1>5. Right(x)
  <2>1. CASE x >= far
    BY <1>2, <2>1
  <2>2. CASE ~(x >= far)
    <3>1. far - x \in Nat /\ far - (far - x) = x
      BY <1>1, <2>2
    <3> QED BY <1>4, <3>1
  <2> QED BY <2>1, <2>2
<1> QED BY <1>5 DEF Right

(* Where no side ahead is odd a ray crosses an even number of lines: to    *)
(* the right, and upwards.                                                 *)
LEMMA ClearAhead ==
  ASSUME NEW lines, Closed(lines), NEW x \in Int, NEW y \in Int,
         \/ \A n \in Int : n > x => ~Odd(Through(lines, Unit(n, y, TRUE)))
         \/ \A n \in Int : n > y => ~Odd(Through(lines, Unit(x, n, FALSE)))
  PROVE  ~Odd(RayMeets(lines, x, y))
<1>1. PICK far \in Int : \A n \in Int : n >= far =>
         \A m \in Int : RayMeets(lines, n, m) = {} /\ RayMeets(lines, m, n) = {}
  BY LinesBounded
<1>2. CASE \A n \in Int : n > x => ~Odd(Through(lines, Unit(n, y, TRUE)))
  <2> DEFINE U == {n \in Nat : ~Odd(RayMeets(lines, x + n, y))}
  <2>1. U # {}
    <3>1. PICK n \in Nat : x + n >= far
      <4>1. CASE x >= far
        <5>1. 0 \in Nat /\ x + 0 >= far
          BY <4>1
        <5> QED BY <5>1
      <4>2. CASE ~(x >= far)
        <5>1. far - x \in Nat /\ x + (far - x) >= far
          BY <1>1, <4>2
        <5> QED BY <5>1
      <4> QED BY <4>1, <4>2
    <3>2. RayMeets(lines, x + n, y) = {}
      BY <1>1, <3>1
    <3> QED BY <3>1, <3>2, OddFew
  <2>2. PICK n \in U : \A m \in U : n <= m
    <3>1. U \in SUBSET Nat
      OBVIOUS
    <3> HIDE DEF U
    <3> QED BY <2>1, <3>1, LeastNatural
  <2>3. CASE n = 0
    BY <2>2, <2>3
  <2>4. CASE n # 0
    <3>1. n \in Nat /\ n - 1 \in Nat /\ ~(n <= n - 1) /\ x + n > x /\ (x + n) - 1 = x + (n - 1)
      BY <2>2, <2>4
    <3>2. x + n \in Int /\ ~Odd(Through(lines, Unit(x + n, y, TRUE)))
      <4>1. x + n \in Int
        BY <3>1
      <4> QED BY <1>2, <3>1, <4>1, Zenon
    <3>3. ~Odd(RayMeets(lines, (x + n) - 1, y))
      BY <2>2, <3>2, PastUpright, Zenon
    <3>4. ~Odd(RayMeets(lines, x + (n - 1), y))
      BY <3>1, <3>3
    <3> QED BY <2>2, <3>1, <3>4
  <2> QED BY <2>3, <2>4
<1>3. CASE \A n \in Int : n > y => ~Odd(Through(lines, Unit(x, n, FALSE)))
  <2> DEFINE U == {n \in Nat : ~Odd(RayMeets(lines, x, y + n))}
  <2>1. U # {}
    <3>1. PICK n \in Nat : y + n >= far
      <4>1. CASE y >= far
        <5>1. 0 \in Nat /\ y + 0 >= far
          BY <4>1
        <5> QED BY <5>1
      <4>2. CASE ~(y >= far)
        <5>1. far - y \in Nat /\ y + (far - y) >= far
          BY <1>1, <4>2
        <5> QED BY <5>1
      <4> QED BY <4>1, <4>2
    <3>2. RayMeets(lines, x, y + n) = {}
      BY <1>1, <3>1
    <3> QED BY <3>1, <3>2, OddFew
  <2>2. PICK n \in U : \A m \in U : n <= m
    <3>1. U \in SUBSET Nat
      OBVIOUS
    <3> HIDE DEF U
    <3> QED BY <2>1, <3>1, LeastNatural
  <2>3. CASE n = 0
    BY <2>2, <2>3
  <2>4. CASE n # 0
    <3>1. n \in Nat /\ n - 1 \in Nat /\ ~(n <= n - 1) /\ y + n > y /\ (y + n) - 1 = y + (n - 1)
      BY <2>2, <2>4
    <3>2. y + n \in Int /\ ~Odd(Through(lines, Unit(x, y + n, FALSE)))
      <4>1. y + n \in Int
        BY <3>1
      <4> QED BY <1>3, <3>1, <4>1, Zenon
    <3>3. ~Odd(RayMeets(lines, x, (y + n) - 1))
      BY <2>2, <3>2, PastLevel, Zenon
    <3>4. ~Odd(RayMeets(lines, x, y + (n - 1)))
      BY <3>1, <3>3
    <3> QED BY <2>2, <3>1, <3>4
  <2> QED BY <2>3, <2>4
<1> QED BY <1>2, <1>3

(***************************************************************************)
(* The sides of a polygon's rings are closed linework.                     *)
(***************************************************************************)
Suc(ring, i) == IF i = Len(ring) THEN 1 ELSE i + 1

(* What ArrangeRepair has from PlanarFaces is what StructureRepair has.    *)
LEMMA SamePlane ==
  /\ \A S : A!Cardinality(S) = Cardinality(S)
  /\ \A f : A!Range(f) = Range(f)
  /\ \A S : A!Min(S) = Min(S) /\ A!Max(S) = Max(S)
  /\ \A r, i : A!After(r, i) = After(r, i)
  /\ \A u, v : A!Steps(u, v) = Steps(u, v)
  /\ \A c : A!Sides(c) = Sides(c) /\ A!Beside(c) = Beside(c)
  /\ \A edges : A!Vertices(edges) = Vertices(edges)
<1>1. \A S : A!Cardinality(S) = Cardinality(S)
  BY DEF A!Cardinality, Cardinality
<1> QED BY <1>1 DEF A!After, After, A!Steps, Steps, A!Sign, Sign, A!Sides, Sides, A!Beside, Beside,
                    A!Vertices, Vertices, A!Range, Range, A!Min, Min, A!Max, Max

(* The rings of a polygon, and the vertices of each in turn.               *)
LEMMA RingsOfPolygon ==
  ASSUME poly \in Polygons, NEW r \in 0 .. Len(poly.holes)
  PROVE  /\ Len(poly.holes) \in Nat
         /\ A!RingAt(r) \in Seq(Points) /\ Len(A!RingAt(r)) \in Nat \ {0}
         /\ DOMAIN A!RingAt(r) = 1 .. Len(A!RingAt(r))
         /\ \A i \in 1 .. Len(A!RingAt(r)) :
              /\ Suc(A!RingAt(r), i) \in 1 .. Len(A!RingAt(r))
              /\ After(A!RingAt(r), i) = A!RingAt(r)[Suc(A!RingAt(r), i)]
              /\ \/ A!RingAt(r)[i][1] = After(A!RingAt(r), i)[1]
                 \/ A!RingAt(r)[i][2] = After(A!RingAt(r), i)[2]
<1> DEFINE ring == A!RingAt(r)
           n == Len(ring)
<1>1. poly.holes \in Seq(Range(poly.holes)) /\ IsRing(poly.shell)
      /\ \A k \in DOMAIN poly.holes : IsRing(poly.holes[k])
  BY PolygonsAssumption
<1>2. Len(poly.holes) \in Nat /\ DOMAIN poly.holes = 1 .. Len(poly.holes)
  BY <1>1
<1>3. IsRing(ring)
  <2>1. CASE r = 0
    BY <1>1, <2>1 DEF A!RingAt
  <2>2. CASE r # 0
    BY <1>1, <1>2, <2>2 DEF A!RingAt
  <2> QED BY <2>1, <2>2
<1> HIDE DEF ring
<1>4. ring \in Seq(Points) /\ ring # <<>>
  BY <1>3 DEF IsRing, Points
<1>5. n \in Nat \ {0} /\ DOMAIN ring = 1 .. n
  BY <1>4
<1>6. ASSUME NEW i \in 1 .. n
      PROVE  /\ Suc(ring, i) \in 1 .. n
             /\ After(ring, i) = ring[Suc(ring, i)]
             /\ ring[i][1] = After(ring, i)[1] \/ ring[i][2] = After(ring, i)[2]
  <2>0. Suc(ring, i) = IF i = n THEN 1 ELSE i + 1
    BY DEF Suc
  <2>1. (i % n) + 1 = Suc(ring, i)
    <3> HIDE DEF n
    <3>1. CASE i = n
      <4>1. i % i = 0
        BY <1>5
      <4> QED BY <2>0, <3>1, <4>1
    <3>2. CASE i < n
      <4>1. i % n = i
        BY <1>5, <3>2
      <4> QED BY <1>5, <2>0, <3>2, <4>1
    <3> QED BY <1>5, <3>1, <3>2
  <2>2. After(ring, i) = ring[Suc(ring, i)]
    BY <2>1 DEF After
  <2>3. \E d \in 1 .. 2 : ring[i][d] = After(ring, i)[d]
    BY <1>3, <1>5 DEF IsRing
  <2>4. ring[i][1] = After(ring, i)[1] \/ ring[i][2] = After(ring, i)[2]
    <3>1. \A d \in 1 .. 2 : d = 1 \/ d = 2
      OBVIOUS
    <3> QED BY <2>3, <3>1
  <2>5. Suc(ring, i) \in 1 .. n
    <3> HIDE DEF n
    <3> QED BY <1>5, <2>0
  <2> QED BY <2>2, <2>4, <2>5
<1> QED BY <1>2, <1>4, <1>5, <1>6 DEF ring

(* The places of the sides.                                                *)
Places == UNION {{r} \X (1 .. Len(A!RingAt(r))) : r \in 0 .. Len(poly.holes)}

(* Where the side at a place starts and ends, and the places after and     *)
(* before it in its ring.                                                  *)
From(k) == A!RingAt(k[1])[k[2]]

To(k) == After(A!RingAt(k[1]), k[2])

Onward(k) == <<k[1], Suc(A!RingAt(k[1]), k[2])>>

Back(k) == <<k[1], IF k[2] = 1 THEN Len(A!RingAt(k[1])) ELSE k[2] - 1>>

(* A side ends where the next one starts.                                  *)
LEMMA PlacesAre ==
  ASSUME poly \in Polygons
  PROVE  /\ DOMAIN A!Lines = Places /\ IsFiniteSet(Places)
         /\ \A k \in Places :
              /\ A!Lines[k] \in AxisLines
              /\ A!Lines[k] = <<From(k), To(k)>> \/ A!Lines[k] = <<To(k), From(k)>>
              /\ Onward(k) \in Places /\ From(Onward(k)) = To(k)
              /\ Back(k) \in Places /\ Onward(Back(k)) = k /\ Back(Onward(k)) = k
<1>1. /\ Len(poly.holes) \in Nat
      /\ \A r \in 0 .. Len(poly.holes) :
           /\ A!RingAt(r) \in Seq(Points) /\ Len(A!RingAt(r)) \in Nat \ {0}
           /\ DOMAIN A!RingAt(r) = 1 .. Len(A!RingAt(r))
  BY RingsOfPolygon, PolygonsAssumption
<1>2. DOMAIN A!Lines = Places
  BY <1>1 DEF A!Lines, Places
<1>3. IsFiniteSet(Places)
  <2> DEFINE R == 0 .. Len(poly.holes)
             f == [r \in R |-> {r} \X (1 .. Len(A!RingAt(r)))]
             F == {f[r] : r \in R}
  <2>1. \A r \in R : IsFiniteSet(f[r])
    <3> TAKE r \in R
    <3>1. IsFiniteSet({r}) /\ IsFiniteSet(1 .. Len(A!RingAt(r)))
      <4>1. 1 \in Int /\ Len(A!RingAt(r)) \in Int
        BY <1>1
      <4> QED BY <4>1, FS_Singleton, FS_Interval
    <3>2. IsFiniteSet({r} \X (1 .. Len(A!RingAt(r))))
      BY <3>1, FS_Product
    <3> QED BY <3>2
  <2>2. IsFiniteSet(F)
    <3>1. IsFiniteSet(R) /\ f = [r \in R |-> f[r]]
      <4>1. 0 \in Int /\ Len(poly.holes) \in Int
        BY <1>1
      <4> QED BY <4>1, FS_Interval
    <3> HIDE DEF f, R
    <3> QED BY <3>1, ValuesFinite
  <2>3. IsFiniteSet(UNION F)
    <3> HIDE DEF f, R
    <3>1. \A T \in F : IsFiniteSet(T)
      BY <2>1
    <3> HIDE DEF F
    <3> QED BY <2>2, <3>1, FS_UNION
  <2>4. Places = UNION F
    BY DEF Places
  <2> QED BY <2>3, <2>4
<1>4. ASSUME NEW k \in Places
      PROVE  /\ A!Lines[k] \in AxisLines
             /\ A!Lines[k] = <<From(k), To(k)>> \/ A!Lines[k] = <<To(k), From(k)>>
             /\ Onward(k) \in Places /\ From(Onward(k)) = To(k)
             /\ Back(k) \in Places /\ Onward(Back(k)) = k /\ Back(Onward(k)) = k
  <2>1. PICK r \in 0 .. Len(poly.holes) : k \in {r} \X (1 .. Len(A!RingAt(r)))
    BY DEF Places
  <2> DEFINE ring == A!RingAt(r)
             n == Len(ring)
  <2>2. k[1] = r /\ k[2] \in 1 .. n /\ k = <<r, k[2]>>
    BY <2>1
  <2>3. /\ ring \in Seq(Points) /\ n \in Nat \ {0} /\ DOMAIN ring = 1 .. n
        /\ Suc(ring, k[2]) \in 1 .. n
        /\ To(k) = ring[Suc(ring, k[2])] /\ From(k) = ring[k[2]]
        /\ From(k)[1] = To(k)[1] \/ From(k)[2] = To(k)[2]
    BY <1>1, <2>2, RingsOfPolygon DEF To, From
  <2>4. From(k) \in Points /\ To(k) \in Points
    <3> HIDE DEF ring
    <3> QED BY <2>2, <2>3
  <2>5. A!Lines[k] = A!SidesOf(ring)[k[2]]
    BY <1>2, <2>2 DEF A!Lines
  <2>6. A!Lines[k] = IF From(k)[1] < To(k)[1] \/ (From(k)[1] = To(k)[1] /\ From(k)[2] < To(k)[2])
                     THEN <<From(k), To(k)>> ELSE <<To(k), From(k)>>
    <3>1. A!After(ring, k[2]) = To(k) /\ ring[k[2]] = From(k)
      BY <2>2, SamePlane DEF To, From
    <3> HIDE DEF ring
    <3> QED BY <2>2, <2>3, <2>5, <3>1 DEF A!SidesOf
  <2>7. A!Lines[k] \in AxisLines
    BY <2>3, <2>4, <2>6 DEF AxisLines, Points
  <2>8. /\ Onward(k) = <<r, Suc(ring, k[2])>> /\ Onward(k) \in Places
        /\ From(Onward(k)) = To(k)
    <3>1. Onward(k) = <<r, Suc(ring, k[2])>>
      BY <2>2 DEF Onward
    <3>2. Onward(k) \in {r} \X (1 .. n)
      BY <2>3, <3>1
    <3>3. Onward(k) \in Places
      BY <3>2 DEF Places
    <3> QED BY <2>3, <3>1, <3>3 DEF From
  <2>9. Back(k) = <<r, IF k[2] = 1 THEN n ELSE k[2] - 1>> /\ Back(k) \in Places
    <3>1. Back(k) = <<r, IF k[2] = 1 THEN n ELSE k[2] - 1>>
      BY <2>2 DEF Back
    <3>2. Back(k) \in {r} \X (1 .. n)
      <4> HIDE DEF n
      <4> QED BY <2>2, <2>3, <3>1
    <3> QED BY <3>1, <3>2 DEF Places
  <2>10. Onward(Back(k)) = k /\ Back(Onward(k)) = k
    <3>1. Onward(Back(k)) = <<r, IF Back(k)[2] = n THEN 1 ELSE Back(k)[2] + 1>>
      BY <2>9 DEF Onward, Suc
    <3>2. Back(Onward(k)) = <<r, IF Onward(k)[2] = 1 THEN n ELSE Onward(k)[2] - 1>>
      BY <2>8 DEF Back
    <3>3. Onward(k)[2] = IF k[2] = n THEN 1 ELSE k[2] + 1
      BY <2>8 DEF Suc
    <3>4. Back(k)[2] = IF k[2] = 1 THEN n ELSE k[2] - 1
      BY <2>9
    <3> HIDE DEF n
    <3> QED BY <2>2, <2>3, <3>1, <3>2, <3>3, <3>4
  <2> QED BY <2>6, <2>7, <2>8, <2>9, <2>10
<1> QED BY <1>2, <1>3, <1>4

(* Rings close.                                                            *)
LEMMA LinesClose ==
  ASSUME poly \in Polygons
  PROVE  Closed(A!Lines)
<1> DEFINE L == A!Lines
<1>1. DOMAIN L = Places /\ IsFiniteSet(Places) /\ L \in [DOMAIN L -> AxisLines]
  <2>1. L = [k \in DOMAIN L |-> L[k]]
    BY DEF A!Lines
  <2> QED BY <2>1, PlacesAre
<1>2. ASSUME NEW v \in Points
      PROVE  Odd(EndsAt(L, 1, v)) <=> Odd(EndsAt(L, 2, v))
  <2> DEFINE S == {k \in Places : From(k) = v}
             T == {k \in Places : To(k) = v}
             f == [k \in T |-> Onward(k)]
  <2>1. IsFiniteSet(S) /\ IsFiniteSet(T)
    <3>1. S \subseteq Places /\ T \subseteq Places
      OBVIOUS
    <3> HIDE DEF S, T
    <3> QED BY <1>1, <3>1, FS_Subset
  <2>2. f \in Bijection(T, S)
    <3>1. f \in [T -> S]
      BY PlacesAre
    <3>2. \A a, b \in T : f[a] = f[b] => a = b
      BY PlacesAre
    <3>3. \A b \in S : \E a \in T : f[a] = b
      <4> TAKE b \in S
      <4>1. Back(b) \in Places /\ Onward(Back(b)) = b /\ From(Onward(Back(b))) = To(Back(b))
        BY PlacesAre
      <4>2. Back(b) \in T /\ f[Back(b)] = b
        BY <4>1
      <4> QED BY <4>2
    <3> HIDE DEF S, T, f
    <3> QED BY <3>1, <3>2, <3>3 DEF Bijection, Injection, IsInjective, Surjection
  <2>3. Cardinality(S) = Cardinality(T)
    <3>1. ExistsBijection(T, S)
      <4> HIDE DEF f, S, T
      <4> QED BY <2>2 DEF ExistsBijection
    <3> HIDE DEF S, T
    <3> QED BY <2>1, <3>1, FS_Bijection
  <2>4. Differ(EndsAt(L, 1, v), EndsAt(L, 2, v)) = Differ(S, T)
    <3>1. \A k \in Places : (L[k][1] = v /\ L[k][2] = v <=> From(k) = v /\ To(k) = v)
                            /\ (L[k][1] = v \/ L[k][2] = v <=> From(k) = v \/ To(k) = v)
      <4> TAKE k \in Places
      <4>1. L[k] = <<From(k), To(k)>> \/ L[k] = <<To(k), From(k)>>
        BY PlacesAre
      <4> HIDE DEF L
      <4> QED BY <4>1
    <3> HIDE DEF L
    <3> QED BY <1>1, <3>1 DEF Differ, EndsAt
  <2>5. IsFiniteSet(EndsAt(L, 1, v)) /\ IsFiniteSet(EndsAt(L, 2, v))
    <3>1. EndsAt(L, 1, v) \subseteq Places /\ EndsAt(L, 2, v) \subseteq Places
      BY <1>1 DEF EndsAt
    <3> QED BY <1>1, <3>1, FS_Subset
  <2>6. Odd(S) <=> Odd(T)
    BY <2>3 DEF Odd
  <2> HIDE DEF L, S, T
  <2>7. ~Odd(Differ(S, T))
    BY <2>1, <2>6, OddDiffer
  <2> QED BY <2>4, <2>5, <2>7, OddDiffer
<1> HIDE DEF L
<1> QED BY <1>1, <1>2 DEF Closed, Closes, L

(***************************************************************************)
(* The constraints: unit sides with an odd number of lines along them.     *)
(***************************************************************************)
(* A half-edge belongs to one unit side.                                   *)
LEMMA HalvesApart ==
  ASSUME NEW s \in Units, NEW t \in Units, NEW e \in Half(s), e \in Half(t)
  PROVE  s = t
<1>1. PICK x \in Int, y \in Int, a \in BOOLEAN : s = [x |-> x, y |-> y, up |-> a]
  BY DEF Units
<1>2. PICK u \in Int, v \in Int, b \in BOOLEAN : t = [x |-> u, y |-> v, up |-> b]
  BY DEF Units
<1>3. Far(s) = (IF a THEN <<x, y + 1>> ELSE <<x + 1, y>>)
      /\ Far(t) = (IF b THEN <<u, v + 1>> ELSE <<u + 1, v>>)
  BY <1>1, <1>2 DEF Far
<1>4. e \in {<<<<x, y>>, Far(s)>>, <<Far(s), <<x, y>>>>}
      /\ e \in {<<<<u, v>>, Far(t)>>, <<Far(t), <<u, v>>>>}
  BY <1>1, <1>2 DEF Half
<1>5. /\ (e[1] = <<x, y>> /\ e[2] = Far(s)) \/ (e[1] = Far(s) /\ e[2] = <<x, y>>)
      /\ (e[1] = <<u, v>> /\ e[2] = Far(t)) \/ (e[1] = Far(t) /\ e[2] = <<u, v>>)
  BY <1>4
<1>6. x = u /\ y = v /\ a = b
  <2>1. CASE a /\ b
    <3>1. Far(s) = <<x, y + 1>> /\ Far(t) = <<u, v + 1>>
      BY <1>3, <2>1
    <3> QED BY <1>5, <2>1, <3>1
  <2>2. CASE a /\ ~b
    <3>1. Far(s) = <<x, y + 1>> /\ Far(t) = <<u + 1, v>>
      BY <1>3, <2>2
    <3> QED BY <1>5, <3>1
  <2>3. CASE ~a /\ b
    <3>1. Far(s) = <<x + 1, y>> /\ Far(t) = <<u, v + 1>>
      BY <1>3, <2>3
    <3> QED BY <1>5, <3>1
  <2>4. CASE ~a /\ ~b
    <3>1. Far(s) = <<x + 1, y>> /\ Far(t) = <<u + 1, v>>
      BY <1>3, <2>4
    <3> QED BY <1>5, <2>4, <3>1
  <2> QED BY <2>1, <2>2, <2>3, <2>4
<1> QED BY <1>1, <1>2, <1>6

(* The half-edges of a line are those of the unit sides along it.          *)
LEMMA StepsAre ==
  ASSUME NEW l \in AxisLines
  PROVE  /\ \A e \in Steps(l[1], l[2]) : \E s \in Units : Along(l, s) /\ e \in Half(s)
         /\ \A s \in Units : Along(l, s) => Half(s) \subseteq Steps(l[1], l[2])
<1>1. PICK a \in Int, b \in Int, c \in Int, d \in Int :
        /\ l = <<<<a, b>>, <<c, d>>>>
        /\ (a = c /\ b <= d) \/ (b = d /\ a <= c)
  <2>1. l \in Points \X Points
    BY DEF AxisLines
  <2>2. l = <<<<l[1][1], l[1][2]>>, <<l[2][1], l[2][2]>>>>
        /\ l[1][1] \in Int /\ l[1][2] \in Int /\ l[2][1] \in Int /\ l[2][2] \in Int
    BY <2>1 DEF Points
  <2> QED BY <2>2 DEF AxisLines
<1> DEFINE dx == Sign(c - a)
           dy == Sign(d - b)
           n == (c - a) * dx + (d - b) * dy
           P(k) == <<a + k * dx, b + k * dy>>
<1>2. Steps(l[1], l[2]) = UNION {{<<P(k), P(k + 1)>>, <<P(k + 1), P(k)>>} : k \in 0 .. (n - 1)}
  BY <1>1 DEF Steps
<1>3. CASE a = c /\ b = d
  <2>1. n = 0
    BY <1>3 DEF Sign
  <2>2. Steps(l[1], l[2]) = {}
    <3>1. 0 .. (n - 1) = {}
      <4> HIDE DEF n
      <4> QED BY <2>1
    <3> HIDE DEF n, P
    <3> QED BY <1>2, <3>1
  <2>3. \A s \in Units : ~Along(l, s)
    BY <1>1, <1>3 DEF Along, Units
  <2> QED BY <2>2, <2>3
<1>4. CASE a = c /\ b < d
  <2>1. dx = 0 /\ dy = 1
    BY <1>4 DEF Sign
  <2>2. n = d - b /\ \A k \in Int : P(k) = <<a, b + k>>
    <3> HIDE DEF dx, dy
    <3> QED BY <1>4, <2>1
  <2> HIDE DEF n, P, dx, dy
  <2>3. ASSUME NEW s \in Units
        PROVE  Along(l, s) <=> s.x = a /\ s.up /\ b <= s.y /\ s.y < d
    BY <1>1, <1>4 DEF Along, Units
  <2>4. ASSUME NEW e \in Steps(l[1], l[2])
        PROVE  \E s \in Units : Along(l, s) /\ e \in Half(s)
    <3>1. PICK k \in 0 .. (n - 1) : e \in {<<P(k), P(k + 1)>>, <<P(k + 1), P(k)>>}
      BY <1>2
    <3>2. P(k) = <<a, b + k>> /\ P(k + 1) = <<a, b + k + 1>> /\ b <= b + k /\ b + k < d
      BY <2>2
    <3> DEFINE s == Unit(a, b + k, TRUE)
    <3>3. s \in Units /\ s.x = a /\ s.y = b + k /\ s.up
      BY DEF Unit, Units
    <3>4. e \in Half(s)
      BY <3>1, <3>2, <3>3 DEF Half, Far
    <3> HIDE DEF s
    <3> QED BY <2>3, <3>2, <3>3, <3>4
  <2>5. ASSUME NEW s \in Units, Along(l, s)
        PROVE  Half(s) \subseteq Steps(l[1], l[2])
    <3> DEFINE k == s.y - b
    <3>1. s.x = a /\ s.up /\ k \in 0 .. (n - 1) /\ s.y = b + k
      BY <2>2, <2>3, <2>5 DEF Units
    <3>2. P(k) = <<a, s.y>> /\ P(k + 1) = <<a, s.y + 1>>
      <4> HIDE DEF k
      <4>1. k + 1 \in Int /\ b + (k + 1) = s.y + 1
        BY <3>1
      <4> QED BY <2>2, <3>1, <4>1
    <3>3. Half(s) = {<<P(k), P(k + 1)>>, <<P(k + 1), P(k)>>}
      BY <3>1, <3>2 DEF Half, Far
    <3> HIDE DEF k
    <3> QED BY <1>2, <3>1, <3>3
  <2> QED BY <2>4, <2>5
<1>5. CASE b = d /\ a < c
  <2>1. dx = 1 /\ dy = 0
    BY <1>5 DEF Sign
  <2>2. n = c - a /\ \A k \in Int : P(k) = <<a + k, b>>
    <3> HIDE DEF dx, dy
    <3> QED BY <1>5, <2>1
  <2> HIDE DEF n, P, dx, dy
  <2>3. ASSUME NEW s \in Units
        PROVE  Along(l, s) <=> s.y = b /\ ~s.up /\ a <= s.x /\ s.x < c
    BY <1>1, <1>5 DEF Along, Units
  <2>4. ASSUME NEW e \in Steps(l[1], l[2])
        PROVE  \E s \in Units : Along(l, s) /\ e \in Half(s)
    <3>1. PICK k \in 0 .. (n - 1) : e \in {<<P(k), P(k + 1)>>, <<P(k + 1), P(k)>>}
      BY <1>2
    <3>2. P(k) = <<a + k, b>> /\ P(k + 1) = <<a + k + 1, b>> /\ a <= a + k /\ a + k < c
      BY <2>2
    <3> DEFINE s == Unit(a + k, b, FALSE)
    <3>3. s \in Units /\ s.x = a + k /\ s.y = b /\ ~s.up
      BY DEF Unit, Units
    <3>4. e \in Half(s)
      BY <3>1, <3>2, <3>3 DEF Half, Far
    <3> HIDE DEF s
    <3> QED BY <2>3, <3>2, <3>3, <3>4
  <2>5. ASSUME NEW s \in Units, Along(l, s)
        PROVE  Half(s) \subseteq Steps(l[1], l[2])
    <3> DEFINE k == s.x - a
    <3>1. s.y = b /\ ~s.up /\ k \in 0 .. (n - 1) /\ s.x = a + k
      BY <2>2, <2>3, <2>5 DEF Units
    <3>2. P(k) = <<s.x, b>> /\ P(k + 1) = <<s.x + 1, b>>
      <4> HIDE DEF k
      <4>1. k + 1 \in Int /\ a + (k + 1) = s.x + 1
        BY <3>1
      <4> QED BY <2>2, <3>1, <4>1
    <3>3. Half(s) = {<<P(k), P(k + 1)>>, <<P(k + 1), P(k)>>}
      BY <3>1, <3>2 DEF Half, Far
    <3> HIDE DEF k
    <3> QED BY <1>2, <3>1, <3>3
  <2> QED BY <2>4, <2>5
<1>6. (a = c /\ b = d) \/ (a = c /\ b < d) \/ (b = d /\ a < c)
  BY <1>1
<1> QED BY <1>3, <1>4, <1>5, <1>6

(* A half-edge of a unit side is one of a line's when the line runs along. *)
LEMMA StepsAlong ==
  ASSUME NEW l \in AxisLines, NEW s \in Units, NEW e \in Half(s)
  PROVE  e \in Steps(l[1], l[2]) <=> Along(l, s)
<1>1. ASSUME e \in Steps(l[1], l[2]) PROVE Along(l, s)
  <2>1. PICK t \in Units : Along(l, t) /\ e \in Half(t)
    BY <1>1, StepsAre
  <2>2. s = t
    BY <2>1, HalvesApart
  <2> QED BY <2>1, <2>2
<1>2. ASSUME Along(l, s) PROVE e \in Steps(l[1], l[2])
  BY <1>2, StepsAre
<1> QED BY <1>1, <1>2

(* The constraints consist of unit sides, and a unit side is one, with     *)
(* both its half-edges, when an odd number of lines runs along it: whole   *)
(* lines cancel first and pieces of lines after.                           *)
LEMMA ConstraintsAre ==
  ASSUME poly \in Polygons
  PROVE  /\ \A e \in A!Constraints : \E s \in Units : e \in Half(s) /\ Odd(Through(A!Lines, s))
         /\ \A s \in Units : Odd(Through(A!Lines, s)) => Half(s) \subseteq A!Constraints
         /\ \A s \in Units : ~Odd(Through(A!Lines, s)) => Half(s) \cap A!Constraints = {}
<1> DEFINE L == A!Lines
           D == DOMAIN L
           Fibre(l) == {k \in D : L[k] = l}
           V == {L[k] : k \in D}
           O == A!OddLines
           Has(s) == {l \in V : Along(l, s)}
           Over(e) == {l \in O : e \in A!Steps(l[1], l[2])}
<1>1. Closed(L) /\ IsFiniteSet(D) /\ L \in [D -> AxisLines]
  BY LinesClose DEF Closed
<1>2. V \subseteq AxisLines /\ IsFiniteSet(V)
  <2>1. L = [k \in D |-> L[k]]
    BY <1>1
  <2> HIDE DEF L, D
  <2>2. IsFiniteSet({L[k] : k \in D})
    BY <1>1, <2>1, ValuesFinite
  <2> QED BY <1>1, <2>2
<1>3. O = {l \in V : l[1] # l[2] /\ Odd(Fibre(l))}
  BY SamePlane DEF A!OddLines, Range, Odd
<1> HIDE DEF L, D, V, O
<1>4. ASSUME NEW s \in Units, NEW e \in Half(s)
      PROVE  Over(e) = {l \in Has(s) : Odd(Fibre(l))}
  <2>1. ASSUME NEW l \in V
        PROVE  l \in O /\ e \in A!Steps(l[1], l[2]) <=> Along(l, s) /\ Odd(Fibre(l))
    <3>1. l \in AxisLines /\ (e \in A!Steps(l[1], l[2]) <=> Along(l, s))
      BY <1>2, SamePlane, StepsAlong
    <3>2. Along(l, s) => l[1] # l[2]
      <4>1. l[1] = l[2] => l[1][1] = l[2][1] /\ l[1][2] = l[2][2]
        OBVIOUS
      <4>2. l[1][1] \in Int /\ l[1][2] \in Int /\ s.x \in Int /\ s.y \in Int
        BY <3>1 DEF AxisLines, Points, Units
      <4> QED BY <4>1, <4>2 DEF Along
    <3> HIDE DEF Fibre
    <3> QED BY <1>3, <3>1, <3>2
  <2>2. O \subseteq V
    BY <1>3
  <2> HIDE DEF Fibre
  <2> QED BY <2>1, <2>2
<1>5. ASSUME NEW s \in Units, NEW e \in Half(s)
      PROVE  Odd(Over(e)) <=> Odd(Through(L, s))
  <2>1. Through(L, s) = {k \in D : L[k] \in Has(s)}
    BY DEF Through, D, V
  <2>2. IsFiniteSet(Has(s))
    BY <1>2, FS_Subset
  <2>3. Odd({k \in D : L[k] \in Has(s)}) <=> Odd({l \in Has(s) : Odd({k \in D : L[k] = l})})
    <3> HIDE DEF Has
    <3>1. DOMAIN L = D
      BY DEF D
    <3> QED BY <1>1, <2>2, <3>1, OddFibres
  <2> QED BY <1>4, <2>1, <2>3
<1>6. A!Constraints = {e \in UNION {A!Steps(l[1], l[2]) : l \in O} : Odd(Over(e))}
  BY SamePlane DEF A!Constraints, Odd, O
<1>7. ASSUME NEW e \in A!Constraints
      PROVE  \E s \in Units : e \in Half(s) /\ Odd(Through(L, s))
  <2>1. PICK l \in O : e \in A!Steps(l[1], l[2])
    BY <1>6
  <2>2. l \in AxisLines
    BY <1>2, <1>3
  <2>3. PICK s \in Units : e \in Half(s)
    BY <2>1, <2>2, SamePlane, StepsAre
  <2> HIDE DEF Over
  <2> QED BY <1>5, <1>6, <2>3
<1>8. ASSUME NEW s \in Units, NEW e \in Half(s)
      PROVE  e \in A!Constraints <=> Odd(Through(L, s))
  <2>1. e \in A!Constraints <=> e \in UNION {A!Steps(l[1], l[2]) : l \in O} /\ Odd(Over(e))
    BY <1>6
  <2>2. Odd(Over(e)) => e \in UNION {A!Steps(l[1], l[2]) : l \in O}
    <3>1. Odd(Over(e)) => Over(e) # {}
      <4> HIDE DEF Over
      <4> QED BY OddFew
    <3> QED BY <3>1
  <2> HIDE DEF Over
  <2> QED BY <1>5, <2>1, <2>2
<1> QED BY <1>7, <1>8 DEF L

(***************************************************************************)
(* Cells and the constraints between them.                                 *)
(***************************************************************************)
(* A ray to the right crosses an odd number of sides.                      *)
In(c) == Odd(RayMeets(A!Lines, c[1], c[2]))

(* The way back.                                                           *)
Opposite == [right |-> "left", left |-> "right", up |-> "down", down |-> "up"]

(* The sides of a cell are unit sides, each shared with the cell beyond.   *)
LEMMA SidesAre ==
  ASSUME NEW x \in Int, NEW y \in Int
  PROVE  LET c == <<x, y>>
         IN  /\ DOMAIN A!Beside(c) = {"right", "left", "up", "down"}
             /\ A!Sides(c)["right"] = Half(Unit(x + 1, y, TRUE)) /\ A!Beside(c)["right"] = <<x + 1, y>>
             /\ A!Sides(c)["left"] = Half(Unit(x, y, TRUE)) /\ A!Beside(c)["left"] = <<x - 1, y>>
             /\ A!Sides(c)["up"] = Half(Unit(x, y + 1, FALSE)) /\ A!Beside(c)["up"] = <<x, y + 1>>
             /\ A!Sides(c)["down"] = Half(Unit(x, y, FALSE)) /\ A!Beside(c)["down"] = <<x, y - 1>>
<1> DEFINE c == <<x, y>>
<1>1. c[1] = x /\ c[2] = y
  OBVIOUS
<1> DEFINE R == {<<<<x + 1, y>>, <<x + 1, y + 1>>>>, <<<<x + 1, y + 1>>, <<x + 1, y>>>>}
           L == {<<<<x, y>>, <<x, y + 1>>>>, <<<<x, y + 1>>, <<x, y>>>>}
           U == {<<<<x + 1, y + 1>>, <<x, y + 1>>>>, <<<<x, y + 1>>, <<x + 1, y + 1>>>>}
           D == {<<<<x, y>>, <<x + 1, y>>>>, <<<<x + 1, y>>, <<x, y>>>>}
<1>2. A!Sides(c) = [right |-> R, left |-> L, up |-> U, down |-> D]
  BY <1>1 DEF A!Sides
<1>3. A!Beside(c) = [right |-> <<x + 1, y>>, left |-> <<x - 1, y>>,
                     up |-> <<x, y + 1>>, down |-> <<x, y - 1>>]
  BY <1>1 DEF A!Beside
<1>4. ASSUME NEW a \in Int, NEW b \in Int
      PROVE  /\ Half(Unit(a, b, TRUE)) = {<<<<a, b>>, <<a, b + 1>>>>, <<<<a, b + 1>>, <<a, b>>>>}
             /\ Half(Unit(a, b, FALSE)) = {<<<<a, b>>, <<a + 1, b>>>>, <<<<a + 1, b>>, <<a, b>>>>}
  <2>1. Far(Unit(a, b, TRUE)) = <<a, b + 1>> /\ Far(Unit(a, b, FALSE)) = <<a + 1, b>>
    BY DEF Far, Unit
  <2>2. /\ Unit(a, b, TRUE).x = a /\ Unit(a, b, TRUE).y = b
        /\ Unit(a, b, FALSE).x = a /\ Unit(a, b, FALSE).y = b
    BY DEF Unit
  <2> QED BY <2>1, <2>2 DEF Half
<1>5. x + 1 \in Int /\ y + 1 \in Int
  OBVIOUS
<1>6. Half(Unit(x + 1, y, TRUE)) = R
  BY <1>4, <1>5, Zenon
<1>7. Half(Unit(x, y, TRUE)) = L
  BY <1>4, Zenon
<1>8. Half(Unit(x, y, FALSE)) = D
  BY <1>4, Zenon
<1>9. Half(Unit(x, y + 1, FALSE)) = U
  <2>1. Half(Unit(x, y + 1, FALSE))
          = {<<<<x, y + 1>>, <<x + 1, y + 1>>>>, <<<<x + 1, y + 1>>, <<x, y + 1>>>>}
    BY <1>4, <1>5, Zenon
  <2>2. \A p, q : {p, q} = {q, p}
    OBVIOUS
  <2> QED BY <2>1, <2>2, Zenon
<1>10. /\ A!Sides(c)["right"] = Half(Unit(x + 1, y, TRUE)) /\ A!Sides(c)["left"] = Half(Unit(x, y, TRUE))
       /\ A!Sides(c)["down"] = Half(Unit(x, y, FALSE)) /\ A!Sides(c)["up"] = Half(Unit(x, y + 1, FALSE))
  <2> HIDE DEF c, R, L, U, D
  <2>1. /\ A!Sides(c)["right"] = R /\ A!Sides(c)["left"] = L
        /\ A!Sides(c)["down"] = D /\ A!Sides(c)["up"] = U
    BY <1>2
  <2> QED BY <1>6, <1>7, <1>8, <1>9, <2>1, Zenon
<1>11. /\ DOMAIN A!Beside(c) = {"right", "left", "up", "down"}
       /\ A!Beside(c)["right"] = <<x + 1, y>> /\ A!Beside(c)["left"] = <<x - 1, y>>
       /\ A!Beside(c)["up"] = <<x, y + 1>> /\ A!Beside(c)["down"] = <<x, y - 1>>
  BY <1>3
<1> QED BY <1>10, <1>11

(* A constraint between two cells, and nothing else, tells them apart.     *)
LEMMA ConstraintsTell ==
  ASSUME poly \in Polygons, walls = A!Constraints,
         NEW c \in Points, NEW d \in DOMAIN A!Beside(c)
  PROVE  /\ A!Beside(c)[d] \in Points
         /\ A!Sides(c)[d] # {}
         /\ A!Open(c, d) => (In(A!Beside(c)[d]) <=> In(c))
         /\ ~A!Open(c, d) => (In(A!Beside(c)[d]) <=> ~In(c)) /\ A!Sides(c)[d] \subseteq walls
         /\ Opposite[d] \in DOMAIN A!Beside(A!Beside(c)[d])
         /\ A!Beside(A!Beside(c)[d])[Opposite[d]] = c
         /\ A!Sides(A!Beside(c)[d])[Opposite[d]] = A!Sides(c)[d]
<1>1. PICK x \in Int, y \in Int : c = <<x, y>>
  BY DEF Points
<1>2. /\ DOMAIN A!Beside(c) = {"right", "left", "up", "down"}
      /\ A!Sides(c)["right"] = Half(Unit(x + 1, y, TRUE)) /\ A!Beside(c)["right"] = <<x + 1, y>>
      /\ A!Sides(c)["left"] = Half(Unit(x, y, TRUE)) /\ A!Beside(c)["left"] = <<x - 1, y>>
      /\ A!Sides(c)["up"] = Half(Unit(x, y + 1, FALSE)) /\ A!Beside(c)["up"] = <<x, y + 1>>
      /\ A!Sides(c)["down"] = Half(Unit(x, y, FALSE)) /\ A!Beside(c)["down"] = <<x, y - 1>>
  BY <1>1, SidesAre
<1>3. Closed(A!Lines)
  BY LinesClose
<1>4. ASSUME NEW s \in Units, A!Sides(c)[d] = Half(s),
             Odd(Through(A!Lines, s)) <=> ~(In(A!Beside(c)[d]) <=> In(c))
      PROVE  /\ A!Sides(c)[d] # {}
             /\ A!Open(c, d) => (In(A!Beside(c)[d]) <=> In(c))
             /\ ~A!Open(c, d) => (In(A!Beside(c)[d]) <=> ~In(c)) /\ A!Sides(c)[d] \subseteq walls
  <2>1. /\ Odd(Through(A!Lines, s)) => Half(s) \subseteq walls
        /\ ~Odd(Through(A!Lines, s)) => Half(s) \cap walls = {}
    BY ConstraintsAre
  <2>2. Half(s) # {}
    BY DEF Half
  <2> QED BY <1>4, <2>1, <2>2 DEF A!Open
<1>5. CASE d = "right"
  <2> DEFINE s == Unit(x + 1, y, TRUE)
  <2>1. Odd(Through(A!Lines, s)) <=> ~(Odd(RayMeets(A!Lines, (x + 1) - 1, y)) <=> Odd(RayMeets(A!Lines, x + 1, y)))
    <3>1. x + 1 \in Int
      OBVIOUS
    <3> QED BY <1>3, <3>1, PastUpright, Zenon
  <2>2. In(c) = Odd(RayMeets(A!Lines, (x + 1) - 1, y)) /\ In(A!Beside(c)[d]) = Odd(RayMeets(A!Lines, x + 1, y))
    <3>1. (x + 1) - 1 = x
      OBVIOUS
    <3> QED BY <1>1, <1>2, <1>5, <3>1 DEF In
  <2>3. s \in Units
    BY DEF Units, Unit
  <2>4. Odd(Through(A!Lines, s)) <=> ~(In(A!Beside(c)[d]) <=> In(c))
    BY <2>1, <2>2, Zenon
  <2>5. A!Sides(c)[d] = Half(s) /\ A!Beside(c)[d] = <<x + 1, y>> /\ Opposite[d] = "left"
    BY <1>2, <1>5 DEF Opposite
  <2>6. /\ DOMAIN A!Beside(<<x + 1, y>>) = {"right", "left", "up", "down"}
        /\ A!Sides(<<x + 1, y>>)["left"] = Half(s)
        /\ A!Beside(<<x + 1, y>>)["left"] = <<(x + 1) - 1, y>>
    <3>1. x + 1 \in Int
      OBVIOUS
    <3> QED BY <3>1, SidesAre, Zenon
  <2>7. <<(x + 1) - 1, y>> = c /\ <<x + 1, y>> \in Points
    BY <1>1 DEF Points
  <2> HIDE DEF s
  <2> QED BY <1>4, <2>3, <2>4, <2>5, <2>6, <2>7
<1>6. CASE d = "left"
  <2> DEFINE s == Unit(x, y, TRUE)
  <2>1. Odd(Through(A!Lines, s)) <=> ~(Odd(RayMeets(A!Lines, x, y)) <=> Odd(RayMeets(A!Lines, x - 1, y)))
    BY <1>3, PastUpright, Zenon
  <2>2. In(c) = Odd(RayMeets(A!Lines, x, y)) /\ In(A!Beside(c)[d]) = Odd(RayMeets(A!Lines, x - 1, y))
    BY <1>1, <1>2, <1>6 DEF In
  <2>3. s \in Units
    BY DEF Units, Unit
  <2>4. Odd(Through(A!Lines, s)) <=> ~(In(A!Beside(c)[d]) <=> In(c))
    BY <2>1, <2>2, Zenon
  <2>5. A!Sides(c)[d] = Half(s) /\ A!Beside(c)[d] = <<x - 1, y>> /\ Opposite[d] = "right"
    BY <1>2, <1>6 DEF Opposite
  <2>6. /\ DOMAIN A!Beside(<<x - 1, y>>) = {"right", "left", "up", "down"}
        /\ A!Sides(<<x - 1, y>>)["right"] = Half(s)
        /\ A!Beside(<<x - 1, y>>)["right"] = <<(x - 1) + 1, y>>
    <3>1. x - 1 \in Int /\ (x - 1) + 1 = x
      OBVIOUS
    <3>2. /\ DOMAIN A!Beside(<<x - 1, y>>) = {"right", "left", "up", "down"}
          /\ A!Sides(<<x - 1, y>>)["right"] = Half(Unit((x - 1) + 1, y, TRUE))
          /\ A!Beside(<<x - 1, y>>)["right"] = <<(x - 1) + 1, y>>
      BY <3>1, SidesAre, Zenon
    <3> QED BY <3>1, <3>2
  <2>7. <<(x - 1) + 1, y>> = c /\ <<x - 1, y>> \in Points
    BY <1>1 DEF Points
  <2> HIDE DEF s
  <2> QED BY <1>4, <2>3, <2>4, <2>5, <2>6, <2>7
<1>7. CASE d = "up"
  <2> DEFINE s == Unit(x, y + 1, FALSE)
  <2>1. Odd(Through(A!Lines, s)) <=> ~(Odd(RayMeets(A!Lines, x, (y + 1) - 1)) <=> Odd(RayMeets(A!Lines, x, y + 1)))
    <3>1. y + 1 \in Int
      OBVIOUS
    <3> QED BY <1>3, <3>1, PastLevel, Zenon
  <2>2. In(c) = Odd(RayMeets(A!Lines, x, (y + 1) - 1)) /\ In(A!Beside(c)[d]) = Odd(RayMeets(A!Lines, x, y + 1))
    <3>1. (y + 1) - 1 = y
      OBVIOUS
    <3> QED BY <1>1, <1>2, <1>7, <3>1 DEF In
  <2>3. s \in Units
    BY DEF Units, Unit
  <2>4. Odd(Through(A!Lines, s)) <=> ~(In(A!Beside(c)[d]) <=> In(c))
    BY <2>1, <2>2, Zenon
  <2>5. A!Sides(c)[d] = Half(s) /\ A!Beside(c)[d] = <<x, y + 1>> /\ Opposite[d] = "down"
    BY <1>2, <1>7 DEF Opposite
  <2>6. /\ DOMAIN A!Beside(<<x, y + 1>>) = {"right", "left", "up", "down"}
        /\ A!Sides(<<x, y + 1>>)["down"] = Half(s)
        /\ A!Beside(<<x, y + 1>>)["down"] = <<x, (y + 1) - 1>>
    <3>1. y + 1 \in Int
      OBVIOUS
    <3> QED BY <3>1, SidesAre, Zenon
  <2>7. <<x, (y + 1) - 1>> = c /\ <<x, y + 1>> \in Points
    BY <1>1 DEF Points
  <2> HIDE DEF s
  <2> QED BY <1>4, <2>3, <2>4, <2>5, <2>6, <2>7
<1>8. CASE d = "down"
  <2> DEFINE s == Unit(x, y, FALSE)
  <2>1. Odd(Through(A!Lines, s)) <=> ~(Odd(RayMeets(A!Lines, x, y)) <=> Odd(RayMeets(A!Lines, x, y - 1)))
    BY <1>3, PastLevel, Zenon
  <2>2. In(c) = Odd(RayMeets(A!Lines, x, y)) /\ In(A!Beside(c)[d]) = Odd(RayMeets(A!Lines, x, y - 1))
    BY <1>1, <1>2, <1>8 DEF In
  <2>3. s \in Units
    BY DEF Units, Unit
  <2>4. Odd(Through(A!Lines, s)) <=> ~(In(A!Beside(c)[d]) <=> In(c))
    BY <2>1, <2>2, Zenon
  <2>5. A!Sides(c)[d] = Half(s) /\ A!Beside(c)[d] = <<x, y - 1>> /\ Opposite[d] = "up"
    BY <1>2, <1>8 DEF Opposite
  <2>6. /\ DOMAIN A!Beside(<<x, y - 1>>) = {"right", "left", "up", "down"}
        /\ A!Sides(<<x, y - 1>>)["up"] = Half(s)
        /\ A!Beside(<<x, y - 1>>)["up"] = <<x, (y - 1) + 1>>
    <3>1. y - 1 \in Int /\ (y - 1) + 1 = y
      OBVIOUS
    <3>2. /\ DOMAIN A!Beside(<<x, y - 1>>) = {"right", "left", "up", "down"}
          /\ A!Sides(<<x, y - 1>>)["up"] = Half(Unit(x, (y - 1) + 1, FALSE))
          /\ A!Beside(<<x, y - 1>>)["up"] = <<x, (y - 1) + 1>>
      BY <3>1, SidesAre, Zenon
    <3> QED BY <3>1, <3>2
  <2>7. <<x, (y - 1) + 1>> = c /\ <<x, y - 1>> \in Points
    BY <1>1 DEF Points
  <2> HIDE DEF s
  <2> QED BY <1>4, <2>3, <2>4, <2>5, <2>6, <2>7
<1> QED BY <1>2, <1>5, <1>6, <1>7, <1>8

(* The hull is the box of the constraints.                                 *)
LEMMA HullIs ==
  ASSUME poly \in Polygons, walls = A!Constraints, walls # {}
  PROVE  \E xlo, xhi, ylo, yhi \in Int :
           /\ A!Hull = (xlo .. xhi - 1) \X (ylo .. yhi - 1)
           /\ \A s \in Units : Odd(Through(A!Lines, s)) =>
                /\ xlo <= s.x /\ s.x <= xhi /\ ylo <= s.y /\ s.y <= yhi
                /\ s.up => s.y < yhi
                /\ ~s.up => s.x < xhi
<1> DEFINE V == Vertices(walls)
           C(i) == {v[i] : v \in V}
<1>1. Closed(A!Lines)
  BY LinesClose
<1>2. PICK low \in Int, far \in Int : \A k \in DOMAIN A!Lines : \A i, c \in {1, 2} :
        A!Lines[k][i][c] \in Int /\ low <= A!Lines[k][i][c] /\ A!Lines[k][i][c] <= far
  BY <1>1, LinesWithin
<1>3. ASSUME NEW s \in Units, Odd(Through(A!Lines, s))
      PROVE  /\ s.x \in Int /\ low <= s.x /\ s.x <= far
             /\ s.y \in Int /\ low <= s.y /\ s.y <= far
  <2>1. PICK k \in DOMAIN A!Lines : Along(A!Lines[k], s)
    BY <1>3, OddFew DEF Through
  <2>2. /\ A!Lines[k][1][1] \in Int /\ low <= A!Lines[k][1][1] /\ A!Lines[k][1][1] <= far
        /\ A!Lines[k][2][1] \in Int /\ low <= A!Lines[k][2][1] /\ A!Lines[k][2][1] <= far
        /\ A!Lines[k][1][2] \in Int /\ low <= A!Lines[k][1][2] /\ A!Lines[k][1][2] <= far
        /\ A!Lines[k][2][2] \in Int /\ low <= A!Lines[k][2][2] /\ A!Lines[k][2][2] <= far
    BY <1>2
  <2>3. s.x \in Int /\ s.y \in Int
    BY DEF Units
  <2> QED BY <1>2, <2>1, <2>2, <2>3 DEF Along
<1>4. \A v \in V : v \in (low .. far + 1) \X (low .. far + 1)
  <2> TAKE v \in V
  <2>1. PICK e \in walls : v = e[1]
    BY DEF Vertices
  <2>2. PICK s \in Units : e \in Half(s) /\ Odd(Through(A!Lines, s))
    BY <2>1, ConstraintsAre
  <2>3. v = <<s.x, s.y>> \/ v = <<s.x, s.y + 1>> \/ v = <<s.x + 1, s.y>>
    BY <2>1, <2>2 DEF Half, Far
  <2>4. /\ s.x \in low .. far + 1 /\ s.x + 1 \in low .. far + 1
        /\ s.y \in low .. far + 1 /\ s.y + 1 \in low .. far + 1
    BY <1>2, <1>3, <2>2
  <2> QED BY <2>3, <2>4
<1>5. ASSUME NEW i \in {1, 2}
      PROVE  /\ Min(C(i)) \in Int /\ Max(C(i)) \in Int
             /\ \A v \in V : Min(C(i)) <= v[i] /\ v[i] <= Max(C(i))
  <2>1. C(i) \in SUBSET (low .. far + 1)
    BY <1>4
  <2>2. V # {}
    BY DEF Vertices
  <2>3. C(i) # {} /\ IsFiniteSet(C(i)) /\ C(i) \in SUBSET Int
    <3>1. IsFiniteSet(low .. far + 1)
      <4>1. far + 1 \in Int
        BY <1>2
      <4> QED BY <1>2, <4>1, FS_Interval
    <3>2. C(i) # {}
      BY <2>2
    <3>3. low .. far + 1 \in SUBSET Int
      OBVIOUS
    <3> HIDE DEF C
    <3> QED BY <2>1, <3>1, <3>2, <3>3, FS_Subset
  <2>4. /\ Min(C(i)) \in C(i) /\ \A n \in C(i) : Min(C(i)) <= n
        /\ Max(C(i)) \in C(i) /\ \A n \in C(i) : n <= Max(C(i))
    <3> HIDE DEF C
    <3> QED BY <2>3, Extremes
  <2>5. \A v \in V : v[i] \in C(i)
    OBVIOUS
  <2> HIDE DEF C
  <2> QED BY <2>3, <2>4, <2>5
<1>6. A!Hull = (Min(C(1)) .. Max(C(1)) - 1) \X (Min(C(2)) .. Max(C(2)) - 1)
  BY SamePlane DEF A!Hull
<1> DEFINE xlo == Min(C(1))
           xhi == Max(C(1))
           ylo == Min(C(2))
           yhi == Max(C(2))
<1>7. /\ xlo \in Int /\ xhi \in Int /\ ylo \in Int /\ yhi \in Int
      /\ \A v \in V : xlo <= v[1] /\ v[1] <= xhi /\ ylo <= v[2] /\ v[2] <= yhi
  BY <1>5
<1>8. A!Hull = (xlo .. xhi - 1) \X (ylo .. yhi - 1)
  BY <1>6
<1> HIDE DEF xlo, xhi, ylo, yhi, V
<1>9. ASSUME NEW s \in Units, Odd(Through(A!Lines, s))
      PROVE  /\ xlo <= s.x /\ s.x <= xhi /\ ylo <= s.y /\ s.y <= yhi
             /\ s.up => s.y < yhi
             /\ ~s.up => s.x < xhi
  <2>1. Half(s) \subseteq walls
    BY <1>9, ConstraintsAre
  <2>2. <<s.x, s.y>> \in V /\ Far(s) \in V
    <3>1. <<<<s.x, s.y>>, Far(s)>> \in walls /\ <<Far(s), <<s.x, s.y>>>> \in walls
      BY <2>1 DEF Half
    <3>2. <<<<s.x, s.y>>, Far(s)>>[1] = <<s.x, s.y>> /\ <<Far(s), <<s.x, s.y>>>>[1] = Far(s)
      OBVIOUS
    <3>3. \A e \in walls : e[1] \in V
      BY DEF V, Vertices
    <3> QED BY <3>1, <3>2, <3>3, Zenon
  <2>3. /\ Far(s)[1] = IF s.up THEN s.x ELSE s.x + 1
        /\ Far(s)[2] = IF s.up THEN s.y + 1 ELSE s.y
    BY DEF Far
  <2>4. s.x \in Int /\ s.y \in Int
    BY DEF Units
  <2>5. /\ xlo <= s.x /\ s.x <= xhi /\ ylo <= s.y /\ s.y <= yhi
        /\ Far(s)[1] <= xhi /\ Far(s)[2] <= yhi
    BY <1>7, <2>2
  <2> QED BY <1>7, <2>3, <2>4, <2>5
<1> QED BY <1>7, <1>8, <1>9

(* Outside it a ray crosses an even number of lines.                       *)
LEMMA OutsideHull ==
  ASSUME poly \in Polygons, walls = A!Constraints, walls # {}, NEW c \in Points, c \notin A!Hull
  PROVE  ~In(c)
<1>1. PICK xlo \in Int, xhi \in Int, ylo \in Int, yhi \in Int :
        /\ A!Hull = (xlo .. xhi - 1) \X (ylo .. yhi - 1)
        /\ \A s \in Units : Odd(Through(A!Lines, s)) =>
             /\ xlo <= s.x /\ s.x <= xhi /\ ylo <= s.y /\ s.y <= yhi
             /\ s.up => s.y < yhi
             /\ ~s.up => s.x < xhi
  BY HullIs
<1>2. PICK x \in Int, y \in Int : c = <<x, y>>
  BY DEF Points
<1>3. Closed(A!Lines)
  BY LinesClose
<1>4. x >= xhi \/ x < xlo \/ y < ylo \/ y >= yhi
  BY <1>1, <1>2
<1>5. \A n, m \in Int : \A b \in BOOLEAN :
        /\ Unit(n, m, b) \in Units
        /\ Unit(n, m, b).x = n /\ Unit(n, m, b).y = m /\ Unit(n, m, b).up = b
  BY DEF Unit, Units
<1>6. CASE x >= xhi \/ y < ylo \/ y >= yhi
  <2>1. \A n \in Int : n > x => ~Odd(Through(A!Lines, Unit(n, y, TRUE)))
    <3> TAKE n \in Int
    <3> HAVE n > x
    <3> DEFINE s == Unit(n, y, TRUE)
    <3>1. s \in Units /\ s.x = n /\ s.y = y /\ s.up = TRUE
      BY <1>5
    <3> HIDE DEF s
    <3>2. Odd(Through(A!Lines, s)) => s.x <= xhi /\ ylo <= s.y /\ s.y < yhi
      BY <1>1, <3>1, Zenon
    <3>3. ~Odd(Through(A!Lines, s))
      BY <1>6, <3>1, <3>2
    <3> QED BY <3>3 DEF s
  <2> QED BY <1>2, <1>3, <2>1, ClearAhead DEF In
<1>7. CASE x < xlo
  <2>1. \A n \in Int : n > y => ~Odd(Through(A!Lines, Unit(x, n, FALSE)))
    <3> TAKE n \in Int
    <3> DEFINE s == Unit(x, n, FALSE)
    <3>1. s \in Units /\ s.x = x
      BY <1>5
    <3> HIDE DEF s
    <3>2. Odd(Through(A!Lines, s)) => xlo <= s.x
      BY <1>1, <3>1, Zenon
    <3>3. ~Odd(Through(A!Lines, s))
      BY <1>7, <3>1, <3>2
    <3> QED BY <3>3 DEF s
  <2> QED BY <1>2, <1>3, <2>1, ClearAhead DEF In
<1> QED BY <1>4, <1>6, <1>7

(* The even-odd region has all cells with an odd number of sides to their  *)
(* right: its box leaves none out.                                         *)
LEMMA OddCellsOf ==
  ASSUME NEW lines, Closed(lines)
  PROVE  /\ A!OddCells(lines) \subseteq Points
         /\ \A c \in Points : c \in A!OddCells(lines) <=> Odd(RayMeets(lines, c[1], c[2]))
<1> DEFINE U == {k \in DOMAIN lines : lines[k][1][1] = lines[k][2][1]}
           xs == {lines[k][1][1] : k \in U}
           ys == UNION {{lines[k][1][2], lines[k][2][2]} : k \in U}
           Spans(k, p) == lines[k][1][1] > p[1] /\ lines[k][1][2] <= p[2] /\ p[2] < lines[k][2][2]
           Box2 == (Min(xs) .. Max(xs)) \X (Min(ys) .. Max(ys))
<1>1. A!OddCells(lines) = {p \in Box2 : Odd({k \in U : Spans(k, p)})}
  BY SamePlane DEF A!OddCells, Odd
<1>2. \A p : {k \in U : Spans(k, p)} = RayMeets(lines, p[1], p[2])
  BY DEF RayMeets, Crossed
<1>3. PICK low \in Int, far \in Int : \A k \in DOMAIN lines : \A i, j \in {1, 2} :
          lines[k][i][j] \in Int /\ low <= lines[k][i][j] /\ lines[k][i][j] <= far
  BY LinesWithin
<1>4. ASSUME NEW k \in U
      PROVE  /\ Min(xs) \in Int /\ Max(xs) \in Int /\ Min(ys) \in Int /\ Max(ys) \in Int
             /\ \A n \in xs : n \in Int /\ Min(xs) <= n /\ n <= Max(xs)
             /\ \A n \in ys : n \in Int /\ Min(ys) <= n /\ n <= Max(ys)
  <2>1. /\ xs \in SUBSET (low .. far) /\ ys \in SUBSET (low .. far)
        /\ lines[k][1][1] \in xs /\ lines[k][1][2] \in ys
    BY <1>3
  <2>2. IsFiniteSet(low .. far) /\ low .. far \in SUBSET Int
    BY FS_Interval
  <2> HIDE DEF xs, ys
  <2>3. /\ IsFiniteSet(xs) /\ IsFiniteSet(ys) /\ xs \in SUBSET Int /\ ys \in SUBSET Int
        /\ xs # {} /\ ys # {}
    BY <2>1, <2>2, FS_Subset
  <2> QED BY <2>3, Extremes
<1>5. ASSUME NEW p, Odd(RayMeets(lines, p[1], p[2]))
      PROVE  \E k \in U : Spans(k, p)
  <2>1. RayMeets(lines, p[1], p[2]) # {}
    BY <1>5, OddFew
  <2>2. {k \in U : Spans(k, p)} # {}
    <3> HIDE DEF U, Spans
    <3> QED BY <1>2, <2>1
  <2> QED BY <2>2
<1>6. ASSUME NEW c \in A!OddCells(lines) PROVE c \in Points
  <2>1. c \in Box2 /\ Odd(RayMeets(lines, c[1], c[2]))
    <3> HIDE DEF Box2, U, Spans
    <3> QED BY <1>1, <1>2
  <2>2. PICK k \in U : Spans(k, c)
    BY <1>5, <2>1
  <2>3. Min(xs) \in Int /\ Max(xs) \in Int /\ Min(ys) \in Int /\ Max(ys) \in Int
    BY <1>4, <2>2
  <2> HIDE DEF xs, ys
  <2> QED BY <2>1, <2>3 DEF Points
<1>7. ASSUME NEW c \in Points, Odd(RayMeets(lines, c[1], c[2]))
      PROVE  c \in Box2
  <2>1. PICK x \in Int, y \in Int : c = <<x, y>>
    BY DEF Points
  <2>2. PICK k \in U : Spans(k, c)
    BY <1>5, <1>7
  <2>3. /\ lines[k][1][1] \in xs /\ lines[k][1][2] \in ys /\ lines[k][2][2] \in ys
        /\ lines[k][1][1] > x /\ lines[k][1][2] <= y /\ y < lines[k][2][2]
    BY <2>1, <2>2
  <2>4. /\ Min(xs) \in Int /\ Max(xs) \in Int /\ Min(ys) \in Int /\ Max(ys) \in Int
        /\ \A n \in xs : n \in Int /\ Min(xs) <= n /\ n <= Max(xs)
        /\ \A n \in ys : n \in Int /\ Min(ys) <= n /\ n <= Max(ys)
    BY <1>4, <2>2
  <2>5. x >= Min(xs)
    <3>1. SUFFICES ASSUME x < Min(xs) PROVE FALSE
      <4> HIDE DEF xs
      <4> QED BY <2>4
    <3>2. PICK n \in Int : n <= x /\ n < low
      <4>1. CASE x < low
        BY <4>1
      <4>2. CASE ~(x < low)
        <5>1. low - 1 \in Int /\ low - 1 <= x /\ low - 1 < low
          BY <4>2
        <5> QED BY <5>1
      <4> QED BY <4>1, <4>2
    <3>3. \A m \in Int : ~Odd(Through(lines, Unit(n, m, FALSE)))
      <4> TAKE m \in Int
      <4>1. \A j \in DOMAIN lines : ~Along(lines[j], Unit(n, m, FALSE))
        <5> TAKE j \in DOMAIN lines
        <5>1. lines[j][1][1] \in Int /\ low <= lines[j][1][1]
          BY <1>3
        <5> QED BY <3>2, <5>1 DEF Along, Unit
      <4>2. Through(lines, Unit(n, m, FALSE)) = {}
        BY <4>1 DEF Through
      <4> QED BY <4>2, OddFew
    <3>4. ~Odd(RayMeets(lines, n, y))
      BY <3>3, ClearAhead
    <3>5. RayMeets(lines, n, y) = RayMeets(lines, x, y)
      <4>1. \A j \in DOMAIN lines : Crossed(lines[j], n, y) <=> Crossed(lines[j], x, y)
        <5> TAKE j \in DOMAIN lines
        <5>1. CASE j \in U
          <6>1. lines[j][1][1] \in xs
            BY <5>1
          <6>2. lines[j][1][1] > x /\ lines[j][1][1] > n
            <7> HIDE DEF xs
            <7> QED BY <2>4, <3>1, <3>2, <6>1
          <6> QED BY <6>2 DEF Crossed
        <5>2. CASE j \notin U
          BY <5>2 DEF Crossed
        <5> QED BY <5>1, <5>2
      <4> QED BY <4>1 DEF RayMeets
    <3> QED BY <1>7, <2>1, <3>4, <3>5
  <2> HIDE DEF xs, ys
  <2> QED BY <2>1, <2>3, <2>4, <2>5
<1> HIDE DEF Box2, U, Spans
<1> QED BY <1>1, <1>2, <1>6, <1>7

(* The even-odd region of the rings is what their rays tell.               *)
LEMMA OddCellsAre ==
  ASSUME poly \in Polygons
  PROVE  /\ A!OddCells(A!Lines) \subseteq Points
         /\ \A c \in Points : c \in A!OddCells(A!Lines) <=> In(c)
BY LinesClose, OddCellsOf DEF In

(***************************************************************************)
(* Faces.                                                                  *)
(***************************************************************************)
(* A set of cells with their open neighbours: one round of a flood fill.   *)
Grown(hull, s) == s \cup UNION {A!Past(c, hull) : c \in s}

(* The least set around s that no open side leads out of.                  *)
Reached(hull, s) ==
  {c \in hull : \A t \in SUBSET hull : s \subseteq t /\ Grown(hull, t) = t => c \in t}

(* Growing is monotone, and what is reached is its least fixed point.      *)
LEMMA GrownIs ==
  ASSUME NEW hull, NEW s \in SUBSET hull
  PROVE  /\ Grown(hull, s) \in SUBSET hull /\ s \subseteq Grown(hull, s)
         /\ \A t \in SUBSET hull : s \subseteq t => Grown(hull, s) \subseteq Grown(hull, t)
         /\ s \subseteq Reached(hull, s) /\ Reached(hull, s) \in SUBSET hull
         /\ Grown(hull, Reached(hull, s)) = Reached(hull, s)
         /\ \A t \in SUBSET hull : s \subseteq t /\ Grown(hull, t) = t => Reached(hull, s) \subseteq t
         /\ Grown(hull, s) = s => Reached(hull, s) = s
         /\ Reached(hull, Grown(hull, s)) = Reached(hull, s)
<1>1. \A c : A!Past(c, hull) \subseteq hull
  BY DEF A!Past
<1>2. \A t \in SUBSET hull : Grown(hull, t) \in SUBSET hull /\ t \subseteq Grown(hull, t)
  BY <1>1 DEF Grown
<1>3. \A t, u \in SUBSET hull : t \subseteq u => Grown(hull, t) \subseteq Grown(hull, u)
  BY DEF Grown
<1>4. s \subseteq Reached(hull, s) /\ Reached(hull, s) \in SUBSET hull
  BY DEF Reached
<1>5. \A t \in SUBSET hull : s \subseteq t /\ Grown(hull, t) = t => Reached(hull, s) \subseteq t
  BY DEF Reached
<1>6. Grown(hull, Reached(hull, s)) = Reached(hull, s)
  <2>1. ASSUME NEW c \in Grown(hull, Reached(hull, s)) PROVE c \in Reached(hull, s)
    <3>1. c \in hull
      BY <1>2, <1>4
    <3>2. ASSUME NEW t \in SUBSET hull, s \subseteq t, Grown(hull, t) = t PROVE c \in t
      <4>1. Reached(hull, s) \subseteq t
        BY <1>5, <3>2
      <4>2. Grown(hull, Reached(hull, s)) \subseteq Grown(hull, t)
        BY <1>3, <1>4, <4>1
      <4> QED BY <2>1, <3>2, <4>2
    <3> QED BY <3>1, <3>2 DEF Reached
  <2> QED BY <1>2, <1>4, <2>1
<1>7. ASSUME Grown(hull, s) = s PROVE Reached(hull, s) = s
  BY <1>4, <1>5, <1>7
<1>8. Reached(hull, Grown(hull, s)) = Reached(hull, s)
  <2>1. ASSUME NEW t \in SUBSET hull, Grown(hull, t) = t
        PROVE  s \subseteq t <=> Grown(hull, s) \subseteq t
    BY <1>2, <1>3, <2>1
  <2> QED BY <2>1 DEF Reached
<1> QED BY <1>2, <1>3, <1>4, <1>5, <1>6, <1>7, <1>8

(* Filling reaches that set: a function that satisfies the recursion       *)
(* exists, and two of them cannot differ first where least is left to      *)
(* fill.                                                                   *)
LEMMA FloodReaches ==
  ASSUME NEW hull, IsFiniteSet(hull), NEW s \in SUBSET hull
  PROVE  A!Flood(hull)[s] = Reached(hull, s)
<1> DEFINE Fills(F) == F = [r \in SUBSET hull |->
                              LET t == r \cup UNION {A!Past(c, hull) : c \in r}
                              IN  IF t = r THEN r ELSE F[t]]
           R == [r \in SUBSET hull |-> Reached(hull, r)]
           F == A!Flood(hull)
<1>1. Fills(R)
  <2>1. ASSUME NEW r \in SUBSET hull
        PROVE  R[r] = LET t == r \cup UNION {A!Past(c, hull) : c \in r}
                      IN  IF t = r THEN r ELSE R[t]
    <3>1. /\ Grown(hull, r) \in SUBSET hull
          /\ Grown(hull, r) = r => Reached(hull, r) = r
          /\ Reached(hull, Grown(hull, r)) = Reached(hull, r)
      BY GrownIs
    <3>2. R[r] = IF Grown(hull, r) = r THEN r ELSE R[Grown(hull, r)]
      BY <3>1
    <3> QED BY <3>2 DEF Grown
  <2> QED BY <2>1
<1>2. F = CHOOSE G : Fills(G)
  BY DEF A!Flood
<1>3. Fills(F)
  <2> HIDE DEF Fills, R, F
  <2> QED BY <1>1, <1>2
<1>4. \A r \in SUBSET hull : F[r] = IF Grown(hull, r) = r THEN r ELSE F[Grown(hull, r)]
  <2> HIDE DEF F
  <2> QED BY <1>3 DEF Grown
<1> HIDE DEF F, Fills
<1> DEFINE Bad == {r \in SUBSET hull : F[r] # Reached(hull, r)}
           Left == {hull \ r : r \in Bad}
<1>5. Bad = {}
  <2>1. SUFFICES ASSUME Bad # {} PROVE FALSE
    OBVIOUS
  <2>2. \A r \in SUBSET hull : IsFiniteSet(hull \ r)
    BY FS_Difference
  <2>3. PICK U \in Left : \A V \in Left : Cardinality(U) <= Cardinality(V)
    <3>1. Left # {} /\ \A V \in Left : IsFiniteSet(V)
      BY <2>1, <2>2
    <3> HIDE DEF Left
    <3> QED BY <3>1, SmallestSet
  <2>4. PICK r \in Bad : U = hull \ r
    OBVIOUS
  <2> DEFINE t == Grown(hull, r)
  <2>5. r \in SUBSET hull /\ F[r] # Reached(hull, r)
    BY <2>4
  <2>6. /\ t \in SUBSET hull /\ r \subseteq t
        /\ t = r => Reached(hull, r) = r
        /\ Reached(hull, t) = Reached(hull, r)
    BY <2>5, GrownIs
  <2>7. t # r /\ F[r] = F[t]
    BY <1>4, <2>5, <2>6
  <2>8. t \in Bad
    BY <2>5, <2>6, <2>7
  <2>9. hull \ t \in Left
    BY <2>8
  <2>10. PICK c \in t : c \notin r
    BY <2>6, <2>7
  <2>11. Cardinality(hull \ t) < Cardinality(hull \ r)
    <3>1. hull \ t \subseteq (hull \ r) \ {c} /\ c \in hull \ r
      BY <2>6, <2>10
    <3>2. IsFiniteSet(hull \ r) /\ IsFiniteSet((hull \ r) \ {c})
          /\ Cardinality((hull \ r) \ {c}) = Cardinality(hull \ r) - 1
      BY <2>2, <2>5, <3>1, FS_RemoveElement
    <3>3. Cardinality(hull \ t) <= Cardinality((hull \ r) \ {c}) /\ IsFiniteSet(hull \ t)
      BY <3>1, <3>2, FS_Subset
    <3>4. Cardinality(hull \ t) \in Nat /\ Cardinality(hull \ r) \in Nat
      BY <3>2, <3>3, FS_CardinalityType
    <3> QED BY <3>2, <3>3, <3>4
  <2>12. IsFiniteSet(hull \ t) /\ IsFiniteSet(hull \ r)
    BY <2>2, <2>5, <2>6
  <2>13. Cardinality(hull \ t) \in Nat /\ Cardinality(hull \ r) \in Nat
    BY <2>12, FS_CardinalityType
  <2> HIDE DEF t, Left
  <2> QED BY <2>3, <2>4, <2>9, <2>11, <2>13
<1> QED BY <1>5 DEF F

(* The hull of constraints is a finite set of cells.                       *)
LEMMA HullFinite ==
  ASSUME poly \in Polygons, walls = A!Constraints, walls # {}
  PROVE  A!Hull \in SUBSET Points /\ IsFiniteSet(A!Hull)
<1>1. PICK xlo \in Int, xhi \in Int, ylo \in Int, yhi \in Int :
        A!Hull = (xlo .. xhi - 1) \X (ylo .. yhi - 1)
  BY HullIs
<1>2. IsFiniteSet(xlo .. xhi - 1) /\ IsFiniteSet(ylo .. yhi - 1)
  <2>1. xhi - 1 \in Int /\ yhi - 1 \in Int
    OBVIOUS
  <2> QED BY <2>1, FS_Interval
<1>3. IsFiniteSet(A!Hull)
  BY <1>1, <1>2, FS_Product
<1> QED BY <1>1, <1>3 DEF Points

(* The faces share the hull out between them, no open side leads out of    *)
(* one, and the rays from the cells of one agree.                          *)
LEMMA FacesAre ==
  ASSUME poly \in Polygons, walls = A!Constraints, walls # {}
  PROVE  /\ UNION A!FacesOf(A!Hull) = A!Hull
         /\ \A f \in A!FacesOf(A!Hull) :
              /\ f \in SUBSET A!Hull
              /\ \A c \in f : \A d \in DOMAIN A!Beside(c) :
                   A!Open(c, d) /\ A!Beside(c)[d] \in A!Hull => A!Beside(c)[d] \in f
              /\ \A b, c \in f : In(b) <=> In(c)
              /\ \A g \in A!FacesOf(A!Hull) : f \cap g # {} => f = g
<1> DEFINE H == A!Hull
           Of(c) == Reached(H, {c})
<1>1. H \in SUBSET Points /\ IsFiniteSet(H)
  BY HullFinite
<1>2. A!FacesOf(H) = {Of(c) : c \in H}
  <2>1. \A c \in H : A!Flood(H)[{c}] = Of(c)
    BY <1>1, FloodReaches
  <2> QED BY <2>1 DEF A!FacesOf
<1> HIDE DEF H
<1>3. ASSUME NEW c \in H
      PROVE  /\ c \in Of(c) /\ Of(c) \in SUBSET H /\ Grown(H, Of(c)) = Of(c)
             /\ \A t \in SUBSET H : c \in t /\ Grown(H, t) = t => Of(c) \subseteq t
  <2>1. {c} \in SUBSET H
    OBVIOUS
  <2>2. /\ {c} \subseteq Of(c) /\ Of(c) \in SUBSET H /\ Grown(H, Of(c)) = Of(c)
        /\ \A t \in SUBSET H : {c} \subseteq t /\ Grown(H, t) = t => Of(c) \subseteq t
    BY <2>1, GrownIs
  <2> QED BY <2>2
<1>4. \A c, b \in H : b \in A!Past(c, H) => c \in A!Past(b, H) /\ (In(b) <=> In(c))
  <2> TAKE c \in H, b \in H
  <2> HAVE b \in A!Past(c, H)
  <2>1. PICK d \in DOMAIN A!Beside(c) : A!Open(c, d) /\ b = A!Beside(c)[d]
    BY DEF A!Past
  <2>2. /\ In(b) <=> In(c)
        /\ Opposite[d] \in DOMAIN A!Beside(b) /\ A!Beside(b)[Opposite[d]] = c
        /\ A!Sides(b)[Opposite[d]] = A!Sides(c)[d]
    BY <1>1, <2>1, ConstraintsTell
  <2>3. A!Open(b, Opposite[d])
    BY <2>1, <2>2 DEF A!Open
  <2> QED BY <2>2, <2>3 DEF A!Past
<1>5. ASSUME NEW t \in SUBSET H,
             \A c \in t, b \in H : b \in A!Past(c, H) => b \in t
      PROVE  Grown(H, t) = t
  <2>1. \A c : A!Past(c, H) \subseteq H
    BY DEF A!Past
  <2> QED BY <1>5, <2>1 DEF Grown
<1>6. \A t \in SUBSET H : Grown(H, t) = t => \A c \in t : A!Past(c, H) \subseteq t
  BY DEF Grown
<1>7. ASSUME NEW c \in H, NEW b \in Of(c)
      PROVE  Of(b) = Of(c) /\ (In(b) <=> In(c))
  <2>1. b \in H
    BY <1>3, <1>7
  <2>2. Of(b) \subseteq Of(c)
    BY <1>3, <2>1
  <2>3. c \in Of(b)
    <3>1. SUFFICES ASSUME c \notin Of(b) PROVE FALSE
      OBVIOUS
    <3> DEFINE t == Of(c) \ Of(b)
    <3>2. t \in SUBSET H /\ c \in t
      BY <1>3, <3>1
    <3>3. ASSUME NEW p \in t, NEW q \in H, q \in A!Past(p, H)
          PROVE  q \in t
      <4>1. q \in Of(c)
        BY <1>3, <1>6, <3>3
      <4>2. p \in A!Past(q, H)
        BY <1>4, <3>2, <3>3
      <4>3. q \in Of(b) => p \in Of(b)
        BY <1>3, <1>6, <2>1, <4>2
      <4> QED BY <3>3, <4>1, <4>3
    <3>4. Of(c) \subseteq t
      <4>1. Grown(H, t) = t
        <5> HIDE DEF t
        <5> QED BY <1>5, <3>2, <3>3
      <4> HIDE DEF t
      <4> QED BY <1>3, <3>2, <4>1
    <3>5. b \in Of(b)
      BY <1>3, <2>1
    <3> QED BY <1>7, <3>4, <3>5
  <2>4. Of(c) \subseteq Of(b)
    BY <1>3, <2>1, <2>3
  <2>5. In(b) <=> In(c)
    <3> DEFINE t == {p \in H : In(p) <=> In(c)}
    <3>1. t \in SUBSET H /\ c \in t
      OBVIOUS
    <3>2. Grown(H, t) = t
      <4>1. \A p \in t, q \in H : q \in A!Past(p, H) => q \in t
        BY <1>4
      <4> HIDE DEF t
      <4> QED BY <1>5, <3>1, <4>1
    <3>3. Of(c) \subseteq t
      <4> HIDE DEF t
      <4> QED BY <1>3, <3>1, <3>2
    <3> QED BY <1>7, <3>3
  <2> QED BY <2>2, <2>4, <2>5
<1>8. UNION A!FacesOf(H) = H
  <2>1. \A c \in H : c \in Of(c) /\ Of(c) \in SUBSET H
    BY <1>3
  <2> HIDE DEF Of
  <2> QED BY <1>2, <2>1
<1>9. ASSUME NEW f \in A!FacesOf(H)
      PROVE  /\ f \in SUBSET H
             /\ \A c \in f : \A d \in DOMAIN A!Beside(c) :
                  A!Open(c, d) /\ A!Beside(c)[d] \in H => A!Beside(c)[d] \in f
             /\ \A b, c \in f : In(b) <=> In(c)
             /\ \A g \in A!FacesOf(H) : f \cap g # {} => f = g
  <2>1. PICK a \in H : f = Of(a)
    BY <1>2
  <2>2. f \in SUBSET H /\ \A c \in f : A!Past(c, H) \subseteq f
    BY <1>3, <1>6, <2>1
  <2>3. \A c \in f : \A d \in DOMAIN A!Beside(c) :
          A!Open(c, d) /\ A!Beside(c)[d] \in H => A!Beside(c)[d] \in f
    BY <2>2 DEF A!Past
  <2>4. \A c \in f : In(c) <=> In(a)
    BY <1>7, <2>1
  <2>5. ASSUME NEW g \in A!FacesOf(H), f \cap g # {} PROVE f = g
    <3>1. PICK b \in H : g = Of(b)
      BY <1>2
    <3>2. PICK c \in f : c \in g
      BY <2>5
    <3>3. Of(c) = Of(a) /\ Of(c) = Of(b)
      BY <1>7, <2>1, <3>1, <3>2
    <3> QED BY <2>1, <3>1, <3>3
  <2> QED BY <2>2, <2>3, <2>4, <2>5
<1> QED BY <1>8, <1>9 DEF H

(***************************************************************************)
(* Labels.                                                                 *)
(***************************************************************************)
(* A side of a face on the hull is a constraint when the face is inside.   *)
LEMMA HullSideTells ==
  ASSUME poly \in Polygons, walls = A!Constraints, walls # {},
         UNION DOMAIN labels = A!Hull,
         NEW f \in A!FacesOf(A!Hull), NEW side \in A!HullSides(f), NEW c \in f
  PROVE  In(c) <=> side \subseteq walls
<1>1. A!Hull \in SUBSET Points /\ f \in SUBSET A!Hull /\ \A b \in f : In(b) <=> In(c)
  BY HullFinite, FacesAre
<1>2. PICK b \in f : \E d \in DOMAIN A!Beside(b) : A!Beside(b)[d] \notin A!Hull /\ side = A!Sides(b)[d]
  BY DEF A!HullSides
<1>3. PICK d \in DOMAIN A!Beside(b) : A!Beside(b)[d] \notin A!Hull /\ side = A!Sides(b)[d]
  BY <1>2
<1>4. /\ A!Beside(b)[d] \in Points
      /\ A!Sides(b)[d] # {}
      /\ A!Open(b, d) => (In(A!Beside(b)[d]) <=> In(b))
      /\ ~A!Open(b, d) => (In(A!Beside(b)[d]) <=> ~In(b)) /\ A!Sides(b)[d] \subseteq walls
  <2>1. b \in Points
    BY <1>1
  <2> QED BY <2>1, ConstraintsTell
<1>5. ~In(A!Beside(b)[d])
  BY <1>3, <1>4, OutsideHull
<1>6. CASE A!Open(b, d)
  <2>1. ~(side \subseteq walls)
    BY <1>3, <1>4, <1>6 DEF A!Open
  <2> QED BY <1>1, <1>4, <1>5, <1>6, <2>1
<1>7. CASE ~A!Open(b, d)
  BY <1>1, <1>3, <1>4, <1>5, <1>7
<1> QED BY <1>6, <1>7

(* Faces beside each other lie on different sides of a constraint.         *)
LEMMA NeighbourTells ==
  ASSUME poly \in Polygons, walls = A!Constraints, walls # {},
         NEW f \in A!FacesOf(A!Hull), NEW g \in A!FacesOf(A!Hull), f # g,
         A!CellsAround(g) \cap f # {}, NEW b \in g, NEW c \in f
  PROVE  In(c) <=> ~In(b)
<1>1. A!Hull \in SUBSET Points /\ f \in SUBSET A!Hull /\ g \in SUBSET A!Hull
  BY HullFinite, FacesAre
<1>2. PICK p \in g : \E d \in DOMAIN A!Beside(p) : A!Beside(p)[d] \in f
  <2>1. PICK p \in g : A!Range(A!Beside(p)) \cap f # {}
    BY DEF A!CellsAround
  <2> QED BY <2>1, SamePlane DEF Range
<1>3. PICK d \in DOMAIN A!Beside(p) : A!Beside(p)[d] \in f
  BY <1>2
<1>4. ~A!Open(p, d)
  <2>1. A!Open(p, d) => A!Beside(p)[d] \in g
    BY <1>1, <1>3, FacesAre
  <2>2. f \cap g = {}
    BY FacesAre
  <2> QED BY <1>3, <2>1, <2>2
<1>5. In(A!Beside(p)[d]) <=> ~In(p)
  <2>1. p \in Points
    BY <1>1
  <2> QED BY <1>4, <2>1, ConstraintsTell
<1>6. In(p) <=> In(b)
  BY FacesAre
<1>7. In(A!Beside(p)[d]) <=> In(c)
  BY <1>3, FacesAre
<1> QED BY <1>5, <1>6, <1>7

(* The inductive invariant: constraints and faces are those of the         *)
(* polygon, and every label given tells what a ray from the face tells.    *)
LabelInv ==
  /\ poly \in Polygons
  /\ stage \in {"triangulate", "label"} => walls = A!Constraints /\ walls # {}
  /\ stage = "label" =>
       /\ labels \in [A!FacesOf(A!Hull) -> {"in", "out", "unseen"}]
       /\ \A f \in A!FacesOf(A!Hull) : \A c \in f :
            /\ labels[f] = "in" => In(c)
            /\ labels[f] = "out" => ~In(c)

(* Constraints and rays change with the polygon only, faces with the       *)
(* constraints.                                                            *)
LEMMA PolygonKeeps ==
  ASSUME poly' = poly
  PROVE  A!Constraints' = A!Constraints /\ \A c : In(c)' = In(c)
BY DEF A!Constraints, A!OddLines, A!Lines, A!RingAt, In

(* Faces change with the constraints only.                                 *)
LEMMA WallsKeep ==
  ASSUME walls' = walls
  PROVE  (A!FacesOf(A!Hull))' = A!FacesOf(A!Hull)
BY DEF A!FacesOf, A!Flood, A!Past, A!Open, A!Hull

(* The structure engine has the polygon and nothing of the other engine.   *)
LEMMA StructureKeeps ==
  ASSUME Structure \/ ArrangeChain \/ HandOver
  PROVE  UNCHANGED <<poly, stage, walls, labels>>
<1>1. CASE Structure
  <2>1. poly' = poly
    BY <1>1 DEF Structure, Next, Assemble, BuildAreaRound, LoopEnd, Gate, RepairRings, ProcessShell, Merge
  <2> QED BY <1>1, <2>1 DEF Structure, arrangeVars
<1>2. CASE ArrangeChain
  BY <1>2 DEF ArrangeChain, arrangeVars
<1>3. CASE HandOver
  BY <1>3 DEF HandOver
<1> QED BY <1>1, <1>2, <1>3

(* The invariant is about the polygon, the stage, the walls and the        *)
(* labels.                                                                 *)
LEMMA LabelInvKept ==
  ASSUME LabelInv, UNCHANGED <<poly, stage, walls, labels>>
  PROVE  LabelInv'
<1>1. A!Constraints' = A!Constraints /\ (A!FacesOf(A!Hull))' = A!FacesOf(A!Hull)
      /\ \A c : In(c)' = In(c)
  BY PolygonKeeps, WallsKeep
<1> QED BY <1>1 DEF LabelInv

(* Every step of the triangulation engine keeps the invariant.             *)
LEMMA LabelStep ==
  ASSUME LabelInv, A!Next
  PROVE  LabelInv'
<1> USE DEF LabelInv
<1>0. poly' = poly /\ poly \in Polygons
  BY DEF A!Next, A!Prepare, A!Triangulate, A!SeeFromHull, A!SeeNeighbour, A!Trace, A!AssignHole,
         A!Judge, A!Difference
<1>1. A!Constraints' = A!Constraints /\ \A c : In(c)' = In(c)
  BY <1>0, PolygonKeeps
<1>2. CASE A!Prepare
  <2>1. walls' = A!Constraints /\ stage' = IF walls' = {} THEN "difference" ELSE "triangulate"
    BY <1>2 DEF A!Prepare
  <2> QED BY <1>0, <1>1, <2>1
<1>3. CASE A!Triangulate
  <2>1. /\ stage = "triangulate" /\ stage' = "label" /\ walls' = walls
        /\ labels' = [f \in A!FacesOf(A!Hull) |-> "unseen"]
    BY <1>3 DEF A!Triangulate
  <2>2. (A!FacesOf(A!Hull))' = A!FacesOf(A!Hull)
    BY <2>1, WallsKeep
  <2>3. /\ labels' \in [A!FacesOf(A!Hull) -> {"in", "out", "unseen"}]
        /\ \A f \in A!FacesOf(A!Hull) : labels'[f] = "unseen"
    BY <2>1
  <2> QED BY <1>0, <1>1, <2>1, <2>2, <2>3
<1>4. ASSUME stage = "label", stage' = "label", walls' = walls,
             NEW f \in A!FacesOf(A!Hull), NEW l \in {"in", "out"},
             labels' = [labels EXCEPT ![f] = l],
             \A c \in f : In(c) <=> l = "in"
      PROVE  LabelInv'
  <2>1. (A!FacesOf(A!Hull))' = A!FacesOf(A!Hull)
    BY <1>4, WallsKeep
  <2>2. labels' \in [A!FacesOf(A!Hull) -> {"in", "out", "unseen"}]
    BY <1>4
  <2>3. \A g \in A!FacesOf(A!Hull) : \A c \in g :
          /\ labels'[g] = "in" => In(c)
          /\ labels'[g] = "out" => ~In(c)
    <3> TAKE g \in A!FacesOf(A!Hull)
    <3> TAKE c \in g
    <3>1. CASE g = f
      <4>1. labels'[g] = l /\ (In(c) <=> l = "in")
        BY <1>4, <3>1
      <4> QED BY <1>4, <4>1
    <3>2. CASE g # f
      <4>1. labels'[g] = labels[g]
        BY <1>4, <3>2
      <4> QED BY <1>4, <4>1
    <3> QED BY <3>1, <3>2
  <2> QED BY <1>0, <1>1, <1>4, <2>1, <2>2, <2>3
<1>5. CASE A!SeeFromHull
  <2>1. stage = "label" /\ stage' = stage /\ walls' = walls
    BY <1>5 DEF A!SeeFromHull
  <2>2. PICK f \in A!Unseen : \E side \in A!HullSides(f) :
               labels' = [labels EXCEPT ![f] = IF side \subseteq walls THEN "in" ELSE "out"]
    BY <1>5 DEF A!SeeFromHull
  <2>3. PICK side \in A!HullSides(f) :
               labels' = [labels EXCEPT ![f] = IF side \subseteq walls THEN "in" ELSE "out"]
    BY <2>2
  <2>4. f \in A!FacesOf(A!Hull) /\ DOMAIN labels = A!FacesOf(A!Hull)
    BY <2>1 DEF A!Unseen
  <2>5. \A c \in f : In(c) <=> side \subseteq walls
    <3>1. UNION DOMAIN labels = A!Hull /\ walls = A!Constraints /\ walls # {}
      BY <2>1, <2>4, FacesAre
    <3> QED BY <1>0, <2>3, <2>4, <3>1, HullSideTells
  <2> DEFINE l == IF side \subseteq walls THEN "in" ELSE "out"
  <2>6. l \in {"in", "out"} /\ (l = "in" <=> side \subseteq walls) /\ labels' = [labels EXCEPT ![f] = l]
    BY <2>3
  <2> HIDE DEF l
  <2> QED BY <1>4, <2>1, <2>4, <2>5, <2>6
<1>6. CASE A!SeeNeighbour
  <2>1. stage = "label" /\ stage' = stage /\ walls' = walls
    BY <1>6 DEF A!SeeNeighbour
  <2>2. PICK f \in A!Unseen, g \in DOMAIN labels \ A!Unseen :
          /\ A!CellsAround(g) \cap f # {}
          /\ labels' = [labels EXCEPT ![f] = IF labels[g] = "in" THEN "out" ELSE "in"]
    BY <1>6 DEF A!SeeNeighbour
  <2>3. /\ f \in A!FacesOf(A!Hull) /\ g \in A!FacesOf(A!Hull) /\ f # g
        /\ labels[g] = "in" \/ labels[g] = "out"
    BY <2>1, <2>2 DEF A!Unseen
  <2>4. PICK p \in g : TRUE
    BY <2>2 DEF A!CellsAround
  <2>5. \A c \in f : In(c) <=> ~In(p)
    BY <1>0, <2>1, <2>2, <2>3, NeighbourTells
  <2>6. In(p) <=> labels[g] = "in"
    BY <2>1, <2>3
  <2> DEFINE l == IF labels[g] = "in" THEN "out" ELSE "in"
  <2>7. l \in {"in", "out"} /\ (l = "in" <=> labels[g] # "in") /\ labels' = [labels EXCEPT ![f] = l]
    BY <2>2
  <2> HIDE DEF l
  <2>8. \A c \in f : In(c) <=> l = "in"
    BY <2>5, <2>6, <2>7
  <2> QED BY <1>4, <2>1, <2>3, <2>7, <2>8
<1>7. CASE A!Trace \/ A!AssignHole \/ A!Judge \/ A!Difference
  <2>1. stage' \notin {"triangulate", "label"}
    BY <1>7 DEF A!Trace, A!AssignHole, A!Judge, A!Answer, A!Difference
  <2> QED BY <1>0, <2>1
<1> QED BY <1>2, <1>3, <1>5, <1>6, <1>7 DEF A!Next

(* The invariant holds in every state, whichever engine runs.              *)
LEMMA LabelAlways == EngineSpec => []LabelInv
<1>1. EngineInit => LabelInv
  BY DEF EngineInit, Init, A!Init, A!Idle, LabelInv
<1>2. LabelInv /\ [EngineNext]_engineVars => LabelInv'
  <2> SUFFICES ASSUME LabelInv, [EngineNext]_engineVars PROVE LabelInv'
    OBVIOUS
  <2>1. CASE Structure \/ ArrangeChain \/ HandOver
    BY <2>1, StructureKeeps, LabelInvKept
  <2>2. CASE Arrange
    BY <2>2, LabelStep DEF Arrange
  <2>3. CASE UNCHANGED engineVars
    BY <2>3, LabelInvKept DEF engineVars, vars, arrangeVars
  <2> QED BY <2>1, <2>2, <2>3 DEF EngineNext
<1> QED BY <1>1, <1>2, PTL DEF EngineSpec

(* Of any polygon, and whichever face is labelled next, a face is labelled *)
(* inside only when all its cells are in the even-odd region of the rings, *)
(* and outside only when none is.                                          *)
THEOREM LabelsTellEvenOdd == EngineSpec => []LabelsAlternate
<1>1. LabelInv => LabelsAlternate
  <2> SUFFICES ASSUME LabelInv, stage = "label", NEW f \in DOMAIN labels
               PROVE  /\ labels[f] = "in" => f \subseteq A!OddCells(A!Lines)
                      /\ labels[f] = "out" => f \cap A!OddCells(A!Lines) = {}
    BY DEF LabelsAlternate, A!LabelsAlternate
  <2>1. /\ poly \in Polygons /\ walls = A!Constraints /\ walls # {}
        /\ f \in A!FacesOf(A!Hull)
        /\ \A c \in f : /\ labels[f] = "in" => In(c)
                        /\ labels[f] = "out" => ~In(c)
    BY DEF LabelInv
  <2>2. f \in SUBSET Points
    BY <2>1, FacesAre, HullFinite
  <2>3. \A c \in f : c \in A!OddCells(A!Lines) <=> In(c)
    BY <2>1, <2>2, OddCellsAre
  <2> QED BY <2>1, <2>3
<1> QED BY <1>1, LabelAlways, PTL

(***************************************************************************)
(* What the walk ends with.                                                *)
(***************************************************************************)
(* A face has a cell, and every cell of the hull is in one.                *)
LEMMA FacesHaveCells ==
  ASSUME poly \in Polygons, walls = A!Constraints, walls # {}
  PROVE  \A f \in A!FacesOf(A!Hull) : f # {}
<1> DEFINE H == A!Hull
<1>1. IsFiniteSet(H)
  BY HullFinite
<1>2. \A c \in H : A!Flood(H)[{c}] = Reached(H, {c}) /\ {c} \subseteq Reached(H, {c})
  <2> HIDE DEF H
  <2> TAKE c \in H
  <2>1. {c} \in SUBSET H
    OBVIOUS
  <2> QED BY <1>1, <2>1, FloodReaches, GrownIs
<1> HIDE DEF H
<1>3. \A f \in A!FacesOf(H) : f # {}
  BY <1>2 DEF A!FacesOf
<1> QED BY <1>3 DEF H

(* When no face is left to see the faces inside make up the even-odd       *)
(* region, and the half-edges around it are the constraints: no constraint *)
(* has the same label on both sides, and none is lost.                     *)
LabelledRegion ==
  stage = "label" /\ A!Unseen = {} =>
    A!Interior = A!OddCells(A!Lines) /\ A!Outline(A!Interior) = walls

(* While a face is left there is one on the hull, or one beside a face     *)
(* that is seen: the walk never stops short.                               *)
WalkNeverStuck ==
  stage = "label" /\ A!Unseen # {} =>
    \/ \E f \in A!Unseen : A!HullSides(f) # {}
    \/ \E f \in A!Unseen, g \in DOMAIN labels \ A!Unseen : A!CellsAround(g) \cap f # {}

(* With all faces seen the labels are the rule, and the rule changes       *)
(* across every constraint, so that the outline is the constraints.        *)
LEMMA LabelledRegionHolds ==
  ASSUME LabelInv, stage = "label", A!Unseen = {}
  PROVE  A!Interior = A!OddCells(A!Lines) /\ A!Outline(A!Interior) = walls
<1>1. /\ poly \in Polygons /\ walls = A!Constraints /\ walls # {}
      /\ labels \in [A!FacesOf(A!Hull) -> {"in", "out", "unseen"}]
      /\ \A f \in A!FacesOf(A!Hull) : \A c \in f :
            /\ labels[f] = "in" => In(c)
            /\ labels[f] = "out" => ~In(c)
  BY DEF LabelInv
<1>2. \A f \in A!FacesOf(A!Hull) : labels[f] = "in" \/ labels[f] = "out"
  BY <1>1 DEF A!Unseen
<1>3. /\ UNION A!FacesOf(A!Hull) = A!Hull /\ A!Hull \subseteq Points
  BY <1>1, FacesAre, HullFinite
<1>4. \A c \in Points : c \in A!Interior <=> In(c)
  <2> TAKE c \in Points
  <2>1. ASSUME c \in A!Interior PROVE In(c)
    BY <1>1, <2>1 DEF A!Interior
  <2>2. ASSUME In(c) PROVE c \in A!Interior
    <3>1. c \in A!Hull
      BY <1>1, <2>2, OutsideHull
    <3>2. PICK f \in A!FacesOf(A!Hull) : c \in f
      BY <1>3, <3>1
    <3>3. labels[f] = "in" /\ f \in DOMAIN labels
      BY <1>1, <1>2, <2>2, <3>2
    <3> QED BY <3>2, <3>3 DEF A!Interior
  <2> QED BY <2>1, <2>2
<1>5. A!Interior \subseteq Points
  BY <1>1, <1>3 DEF A!Interior
<1>6. A!Interior = A!OddCells(A!Lines)
  <2>1. \A c \in Points : c \in A!OddCells(A!Lines) <=> In(c)
    BY <1>1, OddCellsAre
  <2>2. A!OddCells(A!Lines) \subseteq Points
    BY <1>1, OddCellsAre
  <2>3. \A c \in Points : c \in A!Interior <=> c \in A!OddCells(A!Lines)
    BY <1>4, <2>1
  <2> QED BY <1>5, <2>2, <2>3
<1> DEFINE I == A!Interior
<1>7. A!Outline(I) = UNION {UNION {A!Sides(c)[d] : d \in {d \in DOMAIN A!Beside(c) :
                                                             A!Beside(c)[d] \notin I}} : c \in I}
  BY DEF A!Outline
<1>8. ASSUME NEW c \in I, NEW d \in DOMAIN A!Beside(c), A!Beside(c)[d] \notin I
      PROVE  A!Sides(c)[d] \subseteq walls
  <2>1. c \in Points /\ In(c)
    BY <1>4, <1>5
  <2>2. /\ A!Beside(c)[d] \in Points
        /\ A!Open(c, d) => (In(A!Beside(c)[d]) <=> In(c))
        /\ ~A!Open(c, d) => A!Sides(c)[d] \subseteq walls
    BY <1>1, <2>1, ConstraintsTell
  <2>3. ~In(A!Beside(c)[d])
    BY <1>4, <1>8, <2>2
  <2> QED BY <2>1, <2>2, <2>3
<1>9. ASSUME NEW e \in walls
      PROVE  \E c \in I : \E d \in DOMAIN A!Beside(c) : A!Beside(c)[d] \notin I /\ e \in A!Sides(c)[d]
  <2>1. PICK s \in Units : e \in Half(s) /\ Odd(Through(A!Lines, s))
    BY <1>1, ConstraintsAre
  <2>2. PICK x \in Int, y \in Int, up \in BOOLEAN : s = Unit(x, y, up)
    BY DEF Units, Unit
  <2> DEFINE c == <<x, y>>
             d == IF up THEN "left" ELSE "down"
  <2>3. c \in Points /\ d \in DOMAIN A!Beside(c) /\ A!Sides(c)[d] = Half(s)
    <3>1. c \in Points
      BY DEF Points
    <3>2. /\ DOMAIN A!Beside(c) = {"right", "left", "up", "down"}
          /\ A!Sides(c)["left"] = Half(Unit(x, y, TRUE))
          /\ A!Sides(c)["down"] = Half(Unit(x, y, FALSE))
      BY SidesAre
    <3>3. CASE up
      <4>1. d = "left" /\ s = Unit(x, y, TRUE)
        BY <2>2, <3>3
      <4> HIDE DEF c, d
      <4> QED BY <3>1, <3>2, <4>1
    <3>4. CASE ~up
      <4>1. d = "down" /\ s = Unit(x, y, FALSE)
        BY <2>2, <3>4
      <4> HIDE DEF c, d
      <4> QED BY <3>1, <3>2, <4>1
    <3> QED BY <3>3, <3>4
  <2> HIDE DEF c, d
  <2> DEFINE b == A!Beside(c)[d]
  <2>4. /\ b \in Points
        /\ ~A!Open(c, d) => (In(b) <=> ~In(c))
        /\ Opposite[d] \in DOMAIN A!Beside(b) /\ A!Beside(b)[Opposite[d]] = c
        /\ A!Sides(b)[Opposite[d]] = A!Sides(c)[d]
    BY <1>1, <2>3, ConstraintsTell
  <2>5. ~A!Open(c, d)
    BY <2>1, <2>3 DEF A!Open
  <2> HIDE DEF b
  <2>6. CASE In(c)
    <3>1. c \in I /\ b \notin I
      BY <1>4, <2>3, <2>4, <2>5, <2>6
    <3> QED BY <2>1, <2>3, <3>1 DEF b
  <2>7. CASE ~In(c)
    <3>1. c \notin I /\ b \in I
      BY <1>4, <2>3, <2>4, <2>5, <2>7
    <3> QED BY <2>1, <2>3, <2>4, <3>1
  <2> QED BY <2>6, <2>7
<1> HIDE DEF I
<1>10. A!Outline(I) \subseteq walls
  BY <1>7, <1>8
<1>11. walls \subseteq A!Outline(I)
  BY <1>7, <1>9
<1> QED BY <1>6, <1>10, <1>11 DEF I

(* Faces wait, none of them on the hull: step from a cell of one towards   *)
(* the hull, and the first cell that does not wait is next to one that     *)
(* does.                                                                   *)
LEMMA WalkGoesOn ==
  ASSUME LabelInv, stage = "label", A!Unseen # {}
  PROVE  \/ \E f \in A!Unseen : A!HullSides(f) # {}
         \/ \E f \in A!Unseen, g \in DOMAIN labels \ A!Unseen : A!CellsAround(g) \cap f # {}
<1>1. /\ poly \in Polygons /\ walls = A!Constraints /\ walls # {}
      /\ DOMAIN labels = A!FacesOf(A!Hull) /\ A!Unseen \subseteq A!FacesOf(A!Hull)
  BY DEF LabelInv, A!Unseen
<1>2. /\ UNION A!FacesOf(A!Hull) = A!Hull /\ A!Hull \subseteq Points
      /\ \A f, g \in A!FacesOf(A!Hull) : f \cap g # {} => f = g
  BY <1>1, FacesAre, HullFinite
<1>3. PICK xlo \in Int, xhi \in Int, ylo \in Int, yhi \in Int :
        A!Hull = (xlo .. xhi - 1) \X (ylo .. yhi - 1)
  BY <1>1, HullIs
<1> DEFINE Waiting == UNION A!Unseen
           T == {c[1] - xlo : c \in Waiting}
<1>4. Waiting \subseteq A!Hull /\ Waiting # {}
  <2>1. PICK f \in A!Unseen : f # {}
    BY <1>1, FacesHaveCells
  <2> QED BY <1>1, <1>2, <2>1
<1>5. PICK c \in Waiting : \A b \in Waiting : c[1] <= b[1]
  <2>1. \A c \in Waiting : c[1] \in Int /\ c[1] >= xlo
    <3> HIDE DEF Waiting
    <3> QED BY <1>3, <1>4
  <2>2. T \in SUBSET Nat /\ T # {}
    <3> HIDE DEF Waiting
    <3> QED BY <1>4, <2>1
  <2>3. PICK j \in T : \A k \in T : j <= k
    <3> HIDE DEF T
    <3> QED BY <2>2, LeastNatural
  <2>4. PICK c \in Waiting : j = c[1] - xlo
    BY <2>3
  <2>5. \A b \in Waiting : c[1] - xlo <= b[1] - xlo
    <3> HIDE DEF Waiting
    <3> QED BY <2>3, <2>4
  <2> HIDE DEF Waiting, T
  <2> QED BY <2>1, <2>4, <2>5
<1>6. PICK f \in A!Unseen : c \in f
  BY <1>5
<1>7. PICK x \in Int, y \in Int : c = <<x, y>>
  BY <1>2, <1>4, <1>5 DEF Points
<1> DEFINE b == <<x - 1, y>>
<1>8. /\ "left" \in DOMAIN A!Beside(c) /\ A!Beside(c)["left"] = b
      /\ A!Sides(c)["left"] # {}
      /\ "right" \in DOMAIN A!Beside(b) /\ A!Beside(b)["right"] = c
  <2>1. /\ "left" \in DOMAIN A!Beside(c) /\ A!Beside(c)["left"] = b
    BY <1>7, SidesAre
  <2>2. /\ A!Sides(c)["left"] # {}
        /\ Opposite["left"] \in DOMAIN A!Beside(A!Beside(c)["left"])
        /\ A!Beside(A!Beside(c)["left"])[Opposite["left"]] = c
    BY <1>1, <1>2, <1>4, <1>5, <2>1, ConstraintsTell
  <2> HIDE DEF b
  <2> QED BY <2>1, <2>2 DEF Opposite
<1>9. CASE b \notin A!Hull
  <2>1. UNION DOMAIN labels = A!Hull
    BY <1>1, <1>2
  <2>2. A!Sides(c)["left"] \in A!HullSides(f)
    <3> HIDE DEF b
    <3> QED BY <1>6, <1>8, <1>9, <2>1 DEF A!HullSides
  <2> QED BY <1>6, <1>8, <2>2
<1>10. CASE b \in A!Hull
  <2>1. PICK g \in A!FacesOf(A!Hull) : b \in g
    BY <1>2, <1>10
  <2>2. g \notin A!Unseen
    <3>1. SUFFICES ASSUME g \in A!Unseen PROVE FALSE
      OBVIOUS
    <3>2. b \in Waiting
      BY <2>1, <3>1
    <3>3. c[1] <= b[1]
      <4> HIDE DEF Waiting, b
      <4> QED BY <1>5, <3>2
    <3> QED BY <1>7, <3>3
  <2>3. c \in A!CellsAround(g)
    <3>1. c \in A!Range(A!Beside(b))
      <4> HIDE DEF b
      <4> QED BY <1>8, SamePlane DEF Range
    <3> HIDE DEF b
    <3> QED BY <2>1, <3>1 DEF A!CellsAround
  <2> QED BY <1>1, <1>6, <2>1, <2>2, <2>3
<1> QED BY <1>9, <1>10

(* What is traced and filled is decided when the labels are: of any        *)
(* polygon, in whatever order its faces are seen.                          *)
THEOREM LabelsMakeRegion == EngineSpec => []LabelledRegion
<1>1. LabelInv => LabelledRegion
  BY LabelledRegionHolds DEF LabelledRegion
<1> QED BY <1>1, LabelAlways, PTL

(* Every face is seen in the end: the queue of the walk does not run dry   *)
(* before.                                                                 *)
THEOREM WalkSeesAll == EngineSpec => []WalkNeverStuck
<1>1. LabelInv => WalkNeverStuck
  BY WalkGoesOn DEF WalkNeverStuck
<1> QED BY <1>1, LabelAlways, PTL

(***************************************************************************)
(* The half-edges that are traced.                                         *)
(***************************************************************************)
(* The cells on the two sides of a unit side.                              *)
Between(s) == IF s.up THEN {<<s.x - 1, s.y>>, <<s.x, s.y>>} ELSE {<<s.x, s.y - 1>>, <<s.x, s.y>>}

(* The side of a cell towards another is the unit side between them.       *)
LEMMA SideBetween ==
  ASSUME NEW c \in Points, NEW d \in DOMAIN A!Beside(c)
  PROVE  \E s \in Units : A!Sides(c)[d] = Half(s) /\ Between(s) = {c, A!Beside(c)[d]}
<1>1. PICK x \in Int, y \in Int : c = <<x, y>>
  BY DEF Points
<1>2. /\ DOMAIN A!Beside(c) = {"right", "left", "up", "down"}
      /\ A!Sides(c)["right"] = Half(Unit(x + 1, y, TRUE)) /\ A!Beside(c)["right"] = <<x + 1, y>>
      /\ A!Sides(c)["left"] = Half(Unit(x, y, TRUE)) /\ A!Beside(c)["left"] = <<x - 1, y>>
      /\ A!Sides(c)["up"] = Half(Unit(x, y + 1, FALSE)) /\ A!Beside(c)["up"] = <<x, y + 1>>
      /\ A!Sides(c)["down"] = Half(Unit(x, y, FALSE)) /\ A!Beside(c)["down"] = <<x, y - 1>>
  BY <1>1, SidesAre
<1>3. \A n, m \in Int : /\ Unit(n, m, TRUE) \in Units /\ Unit(n, m, FALSE) \in Units
                        /\ Between(Unit(n, m, TRUE)) = {<<n - 1, m>>, <<n, m>>}
                        /\ Between(Unit(n, m, FALSE)) = {<<n, m - 1>>, <<n, m>>}
  BY DEF Unit, Units, Between
<1>4. (x + 1) - 1 = x /\ (y + 1) - 1 = y /\ x + 1 \in Int /\ y + 1 \in Int
  OBVIOUS
<1>5. /\ Between(Unit(x + 1, y, TRUE)) = {<<x, y>>, <<x + 1, y>>}
      /\ Between(Unit(x, y, TRUE)) = {<<x - 1, y>>, <<x, y>>}
      /\ Between(Unit(x, y + 1, FALSE)) = {<<x, y>>, <<x, y + 1>>}
      /\ Between(Unit(x, y, FALSE)) = {<<x, y - 1>>, <<x, y>>}
  <2>1. /\ Between(Unit(x + 1, y, TRUE)) = {<<(x + 1) - 1, y>>, <<x + 1, y>>}
        /\ Between(Unit(x, y + 1, FALSE)) = {<<x, (y + 1) - 1>>, <<x, y + 1>>}
    BY <1>3, <1>4, Zenon
  <2>2. /\ Between(Unit(x + 1, y, TRUE)) = {<<x, y>>, <<x + 1, y>>}
        /\ Between(Unit(x, y + 1, FALSE)) = {<<x, y>>, <<x, y + 1>>}
    BY <1>4, <2>1, Zenon
  <2> QED BY <1>3, <2>2, Zenon
<1>6. /\ Unit(x + 1, y, TRUE) \in Units /\ Unit(x, y, TRUE) \in Units
      /\ Unit(x, y + 1, FALSE) \in Units /\ Unit(x, y, FALSE) \in Units
  BY <1>3, <1>4
<1> QED BY <1>1, <1>2, <1>5, <1>6

(* The outline of a region runs where one cell of two is in it.            *)
LEMMA OutlineIs ==
  ASSUME NEW I \in SUBSET Points, NEW s \in Units, NEW e \in Half(s)
  PROVE  e \in A!Outline(I) <=> \E c, b \in Between(s) : c \in I /\ b \notin I
<1>1. A!Outline(I) = UNION {UNION {A!Sides(c)[d] : d \in {d \in DOMAIN A!Beside(c) :
                                                             A!Beside(c)[d] \notin I}} : c \in I}
  BY DEF A!Outline
<1>2. ASSUME e \in A!Outline(I)
      PROVE  \E c, b \in Between(s) : c \in I /\ b \notin I
  <2>1. PICK c \in I : \E d \in DOMAIN A!Beside(c) : A!Beside(c)[d] \notin I /\ e \in A!Sides(c)[d]
    BY <1>1, <1>2
  <2>2. PICK d \in DOMAIN A!Beside(c) : A!Beside(c)[d] \notin I /\ e \in A!Sides(c)[d]
    BY <2>1
  <2>3. PICK t \in Units : A!Sides(c)[d] = Half(t) /\ Between(t) = {c, A!Beside(c)[d]}
    BY SideBetween
  <2>4. t = s
    BY <2>2, <2>3, HalvesApart
  <2> QED BY <2>1, <2>2, <2>3, <2>4
<1>3. ASSUME NEW c \in Between(s), NEW b \in Between(s), c \in I, b \notin I
      PROVE  e \in A!Outline(I)
  <2>1. \E d \in DOMAIN A!Beside(c) : A!Sides(c)[d] = Half(s) /\ A!Beside(c)[d] = b
    <3>1. PICK x \in Int, y \in Int, up \in BOOLEAN : s = Unit(x, y, up)
      BY DEF Units, Unit
    <3>2. CASE up
      <4>1. {c, b} \subseteq {<<x - 1, y>>, <<x, y>>} /\ c # b
        BY <1>3, <3>1, <3>2 DEF Between, Unit
      <4>2. CASE c = <<x, y>>
        <5>1. b = <<x - 1, y>> /\ s = Unit(x, y, TRUE)
          BY <3>1, <3>2, <4>1, <4>2
        <5>2. /\ "left" \in DOMAIN A!Beside(c)
              /\ A!Sides(c)["left"] = Half(Unit(x, y, TRUE))
              /\ A!Beside(c)["left"] = <<x - 1, y>>
          BY <4>2, SidesAre
        <5> QED BY <5>1, <5>2
      <4>3. CASE c = <<x - 1, y>>
        <5>1. b = <<x, y>> /\ s = Unit(x, y, TRUE) /\ (x - 1) + 1 = x /\ x - 1 \in Int
          BY <3>1, <3>2, <4>1, <4>3
        <5>2. /\ "right" \in DOMAIN A!Beside(c)
              /\ A!Sides(c)["right"] = Half(Unit((x - 1) + 1, y, TRUE))
              /\ A!Beside(c)["right"] = <<(x - 1) + 1, y>>
          BY <4>3, <5>1, SidesAre
        <5> QED BY <5>1, <5>2
      <4> QED BY <4>1, <4>2, <4>3
    <3>3. CASE ~up
      <4>1. {c, b} \subseteq {<<x, y - 1>>, <<x, y>>} /\ c # b
        BY <1>3, <3>1, <3>3 DEF Between, Unit
      <4>2. CASE c = <<x, y>>
        <5>1. b = <<x, y - 1>> /\ s = Unit(x, y, FALSE)
          BY <3>1, <3>3, <4>1, <4>2
        <5>2. /\ "down" \in DOMAIN A!Beside(c)
              /\ A!Sides(c)["down"] = Half(Unit(x, y, FALSE))
              /\ A!Beside(c)["down"] = <<x, y - 1>>
          BY <4>2, SidesAre
        <5> QED BY <5>1, <5>2
      <4>3. CASE c = <<x, y - 1>>
        <5>0. s = Unit(x, y, FALSE)
          BY <3>1, <3>3
        <5>1. b = <<x, y>> /\ s = Unit(x, y, FALSE) /\ (y - 1) + 1 = y /\ y - 1 \in Int
          BY <4>1, <4>3, <5>0
        <5>2. /\ "up" \in DOMAIN A!Beside(c)
              /\ A!Sides(c)["up"] = Half(Unit(x, (y - 1) + 1, FALSE))
              /\ A!Beside(c)["up"] = <<x, (y - 1) + 1>>
          BY <4>3, <5>1, SidesAre
        <5> QED BY <5>1, <5>2
      <4> QED BY <4>1, <4>2, <4>3
    <3> QED BY <3>2, <3>3
  <2> QED BY <1>1, <1>3, <2>1
<1> QED BY <1>2, <1>3

(* The neighbours of a vertex by the angle of the way there, and the cells *)
(* around it, each following the way of its number.                        *)
Toward(v, a) == CASE a = 1 -> <<v[1], v[2] - 1>> [] a = 2 -> <<v[1] + 1, v[2]>>
                  [] a = 3 -> <<v[1], v[2] + 1>> [] OTHER -> <<v[1] - 1, v[2]>>

(* The cell that follows way a around the vertex.                          *)
Corner(v, a) == CASE a = 1 -> <<v[1], v[2] - 1>> [] a = 2 -> <<v[1], v[2]>>
                  [] a = 3 -> <<v[1] - 1, v[2]>> [] OTHER -> <<v[1] - 1, v[2] - 1>>

(* The way before, and the unit side of a way.                             *)
Prior(a) == IF a = 1 THEN 4 ELSE a - 1

Way(v, a) == CASE a = 1 -> Unit(v[1], v[2] - 1, TRUE) [] a = 2 -> Unit(v[1], v[2], FALSE)
               [] a = 3 -> Unit(v[1], v[2], TRUE) [] OTHER -> Unit(v[1] - 1, v[2], FALSE)

(* Ways and cells around a vertex: the angle of a way is its number, and   *)
(* its side lies between the cell of its number and the one before.        *)
LEMMA AroundVertex ==
  ASSUME NEW v \in Points, NEW a \in 1 .. 4
  PROVE  /\ Toward(v, a) \in Points /\ Way(v, a) \in Units
         /\ A!Angle(v, Toward(v, a)) = a
         /\ Between(Way(v, a)) = {Corner(v, a), Corner(v, Prior(a))}
         /\ Half(Way(v, a)) = {<<v, Toward(v, a)>>, <<Toward(v, a), v>>}
         /\ A!LeftCell(<<v, Toward(v, a)>>) = Corner(v, a)
         /\ A!LeftCell(<<Toward(v, a), v>>) = Corner(v, Prior(a))
         /\ Corner(v, a) # Corner(v, Prior(a))
<1>1. PICK x \in Int, y \in Int : v = <<x, y>> /\ v[1] = x /\ v[2] = y
  BY DEF Points
<1>2. CASE a = 1
  <2>1. Toward(v, a) = <<x, y - 1>> /\ Corner(v, a) = <<x, y - 1>> /\ Prior(a) = 4
        /\ Corner(v, 4) = <<x - 1, y - 1>> /\ Way(v, a) = Unit(x, y - 1, TRUE)
    BY <1>1, <1>2 DEF Toward, Corner, Prior, Way
  <2>2. Toward(v, a) \in Points /\ Way(v, a) \in Units
    BY <2>1 DEF Points, Unit, Units
  <2>3. Between(Way(v, a)) = {<<x - 1, y - 1>>, <<x, y - 1>>}
    BY <2>1 DEF Between, Unit
  <2>4. Half(Way(v, a)) = {<<<<x, y - 1>>, <<x, y>>>>, <<<<x, y>>, <<x, y - 1>>>>}
    <3>1. (y - 1) + 1 = y
      OBVIOUS
    <3> QED BY <2>1, <3>1 DEF Half, Far, Unit
  <2>5. A!Angle(v, Toward(v, a)) = 1 /\ A!Angle(Toward(v, a), v) = 3
    BY <1>1, <2>1 DEF A!Angle
  <2>6. /\ A!LeftCell(<<v, Toward(v, a)>>) = Toward(v, a)
        /\ A!LeftCell(<<Toward(v, a), v>>) = <<Toward(v, a)[1] - 1, Toward(v, a)[2]>>
    BY <2>5 DEF A!LeftCell
  <2>7. Corner(v, a) # Corner(v, Prior(a))
    BY <2>1
  <2> QED BY <1>1, <1>2, <2>1, <2>2, <2>3, <2>4, <2>5, <2>6, <2>7
<1>3. CASE a = 2
  <2>1. Toward(v, a) = <<x + 1, y>> /\ Corner(v, a) = <<x, y>> /\ Prior(a) = 1
        /\ Corner(v, 1) = <<x, y - 1>> /\ Way(v, a) = Unit(x, y, FALSE)
    BY <1>1, <1>3 DEF Toward, Corner, Prior, Way
  <2>2. Toward(v, a) \in Points /\ Way(v, a) \in Units
    BY <2>1 DEF Points, Unit, Units
  <2>3. Between(Way(v, a)) = {<<x, y - 1>>, <<x, y>>}
    BY <2>1 DEF Between, Unit
  <2>4. Half(Way(v, a)) = {<<<<x, y>>, <<x + 1, y>>>>, <<<<x + 1, y>>, <<x, y>>>>}
    BY <2>1 DEF Half, Far, Unit
  <2>5. A!Angle(v, Toward(v, a)) = 2 /\ A!Angle(Toward(v, a), v) = 4
    BY <1>1, <2>1 DEF A!Angle
  <2>6. /\ A!LeftCell(<<v, Toward(v, a)>>) = v
        /\ A!LeftCell(<<Toward(v, a), v>>) = <<v[1], v[2] - 1>>
    BY <2>5 DEF A!LeftCell
  <2>7. Corner(v, a) # Corner(v, Prior(a))
    BY <2>1
  <2> QED BY <1>1, <1>3, <2>1, <2>2, <2>3, <2>4, <2>5, <2>6, <2>7
<1>4. CASE a = 3
  <2>1. Toward(v, a) = <<x, y + 1>> /\ Corner(v, a) = <<x - 1, y>> /\ Prior(a) = 2
        /\ Corner(v, 2) = <<x, y>> /\ Way(v, a) = Unit(x, y, TRUE)
    BY <1>1, <1>4 DEF Toward, Corner, Prior, Way
  <2>2. Toward(v, a) \in Points /\ Way(v, a) \in Units
    BY <2>1 DEF Points, Unit, Units
  <2>3. Between(Way(v, a)) = {<<x - 1, y>>, <<x, y>>}
    BY <2>1 DEF Between, Unit
  <2>4. Half(Way(v, a)) = {<<<<x, y>>, <<x, y + 1>>>>, <<<<x, y + 1>>, <<x, y>>>>}
    BY <2>1 DEF Half, Far, Unit
  <2>5. A!Angle(v, Toward(v, a)) = 3 /\ A!Angle(Toward(v, a), v) = 1
    BY <1>1, <2>1 DEF A!Angle
  <2>6. /\ A!LeftCell(<<v, Toward(v, a)>>) = <<v[1] - 1, v[2]>>
        /\ A!LeftCell(<<Toward(v, a), v>>) = v
    BY <2>5 DEF A!LeftCell
  <2>7. Corner(v, a) # Corner(v, Prior(a))
    BY <2>1
  <2> QED BY <1>1, <1>4, <2>1, <2>2, <2>3, <2>4, <2>5, <2>6, <2>7
<1>5. CASE a = 4
  <2>1. Toward(v, a) = <<x - 1, y>> /\ Corner(v, a) = <<x - 1, y - 1>> /\ Prior(a) = 3
        /\ Corner(v, 3) = <<x - 1, y>> /\ Way(v, a) = Unit(x - 1, y, FALSE)
    BY <1>1, <1>5 DEF Toward, Corner, Prior, Way
  <2>2. Toward(v, a) \in Points /\ Way(v, a) \in Units
    BY <2>1 DEF Points, Unit, Units
  <2>3. Between(Way(v, a)) = {<<x - 1, y - 1>>, <<x - 1, y>>}
    BY <2>1 DEF Between, Unit
  <2>4. Half(Way(v, a)) = {<<<<x - 1, y>>, <<x, y>>>>, <<<<x, y>>, <<x - 1, y>>>>}
    <3>1. (x - 1) + 1 = x
      OBVIOUS
    <3> QED BY <2>1, <3>1 DEF Half, Far, Unit
  <2>5. A!Angle(v, Toward(v, a)) = 4 /\ A!Angle(Toward(v, a), v) = 2
    BY <1>1, <2>1 DEF A!Angle
  <2>6. /\ A!LeftCell(<<v, Toward(v, a)>>) = <<Toward(v, a)[1], Toward(v, a)[2] - 1>>
        /\ A!LeftCell(<<Toward(v, a), v>>) = Toward(v, a)
    BY <2>5 DEF A!LeftCell
  <2>7. Corner(v, a) # Corner(v, Prior(a))
    BY <2>1
  <2> QED BY <1>1, <1>5, <2>1, <2>2, <2>3, <2>4, <2>5, <2>6, <2>7
<1> QED BY <1>2, <1>3, <1>4, <1>5

(* A half-edge of a unit side leaves one vertex for a neighbour and comes  *)
(* from a neighbour to the other.                                          *)
LEMMA HalfWays ==
  ASSUME NEW s \in Units, NEW e \in Half(s)
  PROVE  \E v \in Points : \E a \in 1 .. 4 :
           /\ e = <<Toward(v, a), v>>
           /\ \E b \in 1 .. 4 : e = <<Toward(v, a), Toward(Toward(v, a), b)>>
<1>1. PICK x \in Int, y \in Int, up \in BOOLEAN : s = Unit(x, y, up)
  BY DEF Units, Unit
<1>2. 1 \in 1 .. 4 /\ 2 \in 1 .. 4 /\ 3 \in 1 .. 4 /\ 4 \in 1 .. 4
  OBVIOUS
<1>3. \A p \in Points : p = <<p[1], p[2]>>
  BY DEF Points
<1>4. CASE up
  <2> DEFINE u == <<x, y>>
             w == <<x, y + 1>>
  <2>1. u \in Points /\ w \in Points
    BY DEF Points
  <2>2. Half(s) = {<<u, w>>, <<w, u>>}
    BY <1>1, <1>4 DEF Half, Far, Unit
  <2>3. Toward(u, 3) = w /\ Toward(w, 1) = u
    BY DEF Toward
  <2> HIDE DEF u, w
  <2> QED BY <1>2, <2>1, <2>2, <2>3
<1>5. CASE ~up
  <2> DEFINE u == <<x, y>>
             w == <<x + 1, y>>
  <2>1. u \in Points /\ w \in Points
    BY DEF Points
  <2>2. Half(s) = {<<u, w>>, <<w, u>>}
    BY <1>1, <1>5 DEF Half, Far, Unit
  <2>3. Toward(u, 2) = w /\ Toward(w, 4) = u
    BY DEF Toward
  <2> HIDE DEF u, w
  <2> QED BY <1>2, <2>1, <2>2, <2>3
<1> QED BY <1>4, <1>5

(* A half-edge is on the rim when the cell on its left is in the region    *)
(* and the one on its right is not.                                        *)
LEMMA RimAt ==
  ASSUME NEW I \in SUBSET Points, NEW v \in Points, NEW a \in 1 .. 4
  PROVE  /\ <<v, Toward(v, a)>> \in A!Rim(I) <=> Corner(v, a) \in I /\ Corner(v, Prior(a)) \notin I
         /\ <<Toward(v, a), v>> \in A!Rim(I) <=> Corner(v, Prior(a)) \in I /\ Corner(v, a) \notin I
<1> DEFINE s == Way(v, a)
           out == <<v, Toward(v, a)>>
           in == <<Toward(v, a), v>>
           l == Corner(v, a)
           r == Corner(v, Prior(a))
<1>1. /\ s \in Units /\ Between(s) = {l, r} /\ Half(s) = {out, in}
      /\ A!LeftCell(out) = l /\ A!LeftCell(in) = r
  BY AroundVertex
<1> HIDE DEF s, out, in, l, r
<1>2. \A e \in {out, in} : e \in A!Outline(I) <=> \E c, b \in {l, r} : c \in I /\ b \notin I
  BY <1>1, OutlineIs
<1>3. \A e : e \in A!Rim(I) <=> e \in A!Outline(I) /\ A!LeftCell(e) \in I
  BY DEF A!Rim
<1>4. /\ out \in A!Rim(I) <=> l \in I /\ r \notin I
      /\ in \in A!Rim(I) <=> r \in I /\ l \notin I
  BY <1>1, <1>2, <1>3
<1> QED BY <1>4 DEF out, in, l, r

(* A half-edge on the rim comes to its end along one of four ways, and     *)
(* leaves its start along one.                                             *)
LEMMA RimWays ==
  ASSUME NEW I \in SUBSET Points, NEW e \in A!Rim(I)
  PROVE  \E v \in Points : \E a \in 1 .. 4 :
           /\ e = <<Toward(v, a), v>>
           /\ \E b \in 1 .. 4 : e = <<Toward(v, a), Toward(Toward(v, a), b)>>
<1>1. PICK c \in I : \E d \in DOMAIN A!Beside(c) : e \in A!Sides(c)[d]
  BY DEF A!Rim, A!Outline
<1>2. PICK d \in DOMAIN A!Beside(c) : e \in A!Sides(c)[d]
  BY <1>1
<1>3. PICK s \in Units : A!Sides(c)[d] = Half(s)
  BY SideBetween
<1> QED BY <1>2, <1>3, HalfWays

(***************************************************************************)
(* The ways around a vertex: Q has the numbers of the cells that are in    *)
(* the region.                                                             *)
(***************************************************************************)
(* The region lies left of a half-edge: it comes along way a, or goes      *)
(* along b.                                                                *)
Comes(Q, a) == Prior(a) \in Q /\ a \notin Q

Goes(Q, b) == b \in Q /\ Prior(b) \notin Q

(* How far clockwise b lies from a, and the first way out.                 *)
Turn(a, b) == (a - b) % 4

FirstOut(Q, a, b) == b \in 1 .. 4 /\ Goes(Q, b) /\ \A c \in 1 .. 4 : Goes(Q, c) => Turn(a, b) <= Turn(a, c)

(* From any way the other three lie one, two and three turns away.         *)
LEMMA TurnTable ==
  ASSUME NEW a \in 1 .. 4
  PROVE  LET b == Prior(a)
             c == Prior(b)
             d == Prior(c)
         IN  /\ Turn(a, a) = 0 /\ Turn(a, b) = 1 /\ Turn(a, c) = 2 /\ Turn(a, d) = 3
             /\ Prior(d) = a
             /\ b \in 1 .. 4 /\ c \in 1 .. 4 /\ d \in 1 .. 4
             /\ \A n \in 1 .. 4 : n \in {a, b, c, d}
             /\ a # b /\ a # c /\ a # d /\ b # c /\ b # d /\ c # d
<1>1. Prior(1) = 4 /\ Prior(2) = 1 /\ Prior(3) = 2 /\ Prior(4) = 3
  BY DEF Prior
<1>2. 0 % 4 = 0 /\ 1 % 4 = 1 /\ 2 % 4 = 2 /\ 3 % 4 = 3 /\ (0 - 1) % 4 = 3 /\ (0 - 2) % 4 = 2 /\ (0 - 3) % 4 = 1
  <2>1. \A n \in Int : (n + 4) % 4 = n % 4
    OBVIOUS
  <2>2. 1 % 4 = 1 /\ 2 % 4 = 2 /\ 3 % 4 = 3 /\ 0 % 4 = 0
    OBVIOUS
  <2>3. ASSUME NEW n \in 1 .. 3 PROVE (0 - n) % 4 = (4 - n) % 4
    <3>1. 0 - n \in Int /\ (0 - n) + 4 = 4 - n
      OBVIOUS
    <3> QED BY <2>1, <3>1, Zenon
  <2>4. (0 - 1) % 4 = (4 - 1) % 4 /\ (0 - 2) % 4 = (4 - 2) % 4 /\ (0 - 3) % 4 = (4 - 3) % 4
    <3>1. 1 \in 1 .. 3 /\ 2 \in 1 .. 3 /\ 3 \in 1 .. 3
      OBVIOUS
    <3> QED BY <2>3, <3>1, Zenon
  <2>5. 4 - 1 = 3 /\ 4 - 2 = 2 /\ 4 - 3 = 1
    OBVIOUS
  <2>6. (4 - 1) % 4 = 3 /\ (4 - 2) % 4 = 2 /\ (4 - 3) % 4 = 1
    BY <2>2, <2>5, Zenon
  <2>7. (0 - 1) % 4 = 3 /\ (0 - 2) % 4 = 2 /\ (0 - 3) % 4 = 1
    BY <2>4, <2>6, Zenon
  <2> QED BY <2>2, <2>7
<1>3. CASE a = 1
  BY <1>1, <1>2, <1>3 DEF Turn
<1>4. CASE a = 2
  BY <1>1, <1>2, <1>4 DEF Turn
<1>5. CASE a = 3
  BY <1>1, <1>2, <1>5 DEF Turn
<1>6. CASE a = 4
  BY <1>1, <1>2, <1>6 DEF Turn
<1> QED BY <1>3, <1>4, <1>5, <1>6

(* Ways in and ways out alternate: the first way out that is met turning   *)
(* clockwise from a way in is met from no other.                           *)
LEMMA WaysAlternate ==
  ASSUME NEW Q \in SUBSET (1 .. 4)
  PROVE  /\ \A a \in 1 .. 4 : Comes(Q, a) => \E b \in 1 .. 4 : FirstOut(Q, a, b)
         /\ \A a, b, c \in 1 .. 4 : FirstOut(Q, a, b) /\ FirstOut(Q, a, c) => b = c
         /\ \A a, b, c \in 1 .. 4 : Comes(Q, a) /\ Comes(Q, c) /\ FirstOut(Q, a, b) /\ FirstOut(Q, c, b) => a = c
         /\ \A b \in 1 .. 4 : Goes(Q, b) => \E a \in 1 .. 4 : Comes(Q, a) /\ FirstOut(Q, a, b)
<1>1. ASSUME NEW a \in 1 .. 4, Comes(Q, a), NEW b \in 1 .. 4
      PROVE  FirstOut(Q, a, b) <=>
               \/ b = Prior(a) /\ Goes(Q, b)
               \/ b = Prior(Prior(a)) /\ Prior(a) \in Q /\ b \in Q /\ Goes(Q, b)
               \/ b = Prior(Prior(Prior(a))) /\ Prior(Prior(a)) \in Q /\ b \in Q /\ Goes(Q, b)
  BY <1>1, TurnTable DEF FirstOut, Comes, Goes
<1>2. ASSUME NEW a \in 1 .. 4, Comes(Q, a)
      PROVE  \E b \in 1 .. 4 : FirstOut(Q, a, b)
  BY <1>1, <1>2, TurnTable DEF Comes, Goes
<1>3. ASSUME NEW a \in 1 .. 4, NEW b \in 1 .. 4, NEW c \in 1 .. 4, FirstOut(Q, a, b), FirstOut(Q, a, c)
      PROVE  b = c
  <2>1. Turn(a, b) <= Turn(a, c) /\ Turn(a, c) <= Turn(a, b)
    BY <1>3 DEF FirstOut
  <2> QED BY <2>1, TurnTable
<1>4. ASSUME NEW a \in 1 .. 4, NEW b \in 1 .. 4, NEW c \in 1 .. 4,
             Comes(Q, a), Comes(Q, c), FirstOut(Q, a, b), FirstOut(Q, c, b)
      PROVE  a = c
  <2> DEFINE p == Prior(a)
             q == Prior(p)
             r == Prior(q)
  <2>1. /\ p \in 1 .. 4 /\ q \in 1 .. 4 /\ r \in 1 .. 4 /\ c \in {a, p, q, r} /\ Prior(r) = a
        /\ a # p /\ a # q /\ a # r /\ p # q /\ p # r /\ q # r
    BY TurnTable
  <2>2. /\ p \in Q /\ a \notin Q /\ Prior(c) \in Q /\ c \notin Q
    BY <1>4 DEF Comes
  <2>3. /\ \/ b = p /\ Goes(Q, b)
           \/ b = q /\ p \in Q /\ b \in Q /\ Goes(Q, b)
           \/ b = r /\ q \in Q /\ b \in Q /\ Goes(Q, b)
        /\ \/ b = Prior(c) /\ Goes(Q, b)
           \/ b = Prior(Prior(c)) /\ Prior(c) \in Q /\ b \in Q /\ Goes(Q, b)
           \/ b = Prior(Prior(Prior(c))) /\ Prior(Prior(c)) \in Q /\ b \in Q /\ Goes(Q, b)
    BY <1>1, <1>4
  <2>4. Prior(a) = p /\ Prior(p) = q /\ Prior(q) = r
    OBVIOUS
  <2> HIDE DEF p, q, r
  <2> QED BY <2>1, <2>2, <2>3, <2>4 DEF Goes
<1>5. ASSUME NEW b \in 1 .. 4, Goes(Q, b)
      PROVE  \E a \in 1 .. 4 : Comes(Q, a) /\ FirstOut(Q, a, b)
  <2> DEFINE p == Prior(b)
             q == Prior(p)
             r == Prior(q)
  <2>1. /\ p \in 1 .. 4 /\ q \in 1 .. 4 /\ r \in 1 .. 4 /\ Prior(r) = b
        /\ b # p /\ b # q /\ b # r /\ p # q /\ p # r /\ q # r
    BY TurnTable
  <2>2. Prior(b) = p /\ Prior(p) = q /\ Prior(q) = r /\ b \in Q /\ p \notin Q
    BY <1>5 DEF Goes
  <2> HIDE DEF p, q, r
  <2>3. CASE r \notin Q
    <3>1. Comes(Q, r)
      BY <2>1, <2>2, <2>3 DEF Comes
    <3> QED BY <1>1, <1>5, <2>1, <3>1
  <2>4. CASE r \in Q /\ q \notin Q
    <3>1. Comes(Q, q)
      BY <2>1, <2>2, <2>4 DEF Comes
    <3>2. Prior(q) = r /\ Prior(Prior(q)) = b
      BY <2>1, <2>2
    <3> QED BY <1>1, <1>5, <2>1, <2>2, <2>4, <3>1, <3>2
  <2>5. CASE r \in Q /\ q \in Q
    <3>1. Comes(Q, p)
      BY <2>1, <2>2, <2>5 DEF Comes
    <3>2. Prior(Prior(p)) = r /\ Prior(Prior(Prior(p))) = b
      BY <2>1, <2>2
    <3> QED BY <1>1, <1>5, <2>1, <2>2, <2>5, <3>1, <3>2
  <2> QED BY <2>3, <2>4, <2>5
<1> QED BY <1>2, <1>3, <1>4, <1>5

(***************************************************************************)
(* Following the rim.                                                      *)
(***************************************************************************)
Filled(I, v) == {n \in 1 .. 4 : Corner(v, n) \in I}

(* The half-edges of the rim at a vertex, told from the cells around it.   *)
LEMMA RimComesGoes ==
  ASSUME NEW I \in SUBSET Points, NEW v \in Points, NEW a \in 1 .. 4
  PROVE  /\ <<v, Toward(v, a)>> \in A!Rim(I) <=> Goes(Filled(I, v), a)
         /\ <<Toward(v, a), v>> \in A!Rim(I) <=> Comes(Filled(I, v), a)
<1>1. Prior(a) \in 1 .. 4
  BY TurnTable
<1>2. /\ a \in Filled(I, v) <=> Corner(v, a) \in I
      /\ Prior(a) \in Filled(I, v) <=> Corner(v, Prior(a)) \in I
  BY <1>1 DEF Filled
<1> QED BY <1>2, RimAt, Zenon DEF Goes, Comes

(* The half-edge that follows one that comes from a neighbour.             *)
LEMMA NextOnRim ==
  ASSUME NEW I \in SUBSET Points, NEW v \in Points, NEW a \in 1 .. 4, NEW b \in 1 .. 4,
         FirstOut(Filled(I, v), a, b)
  PROVE  A!TurnCw(A!Rim(I), v, Toward(v, a)) = <<v, Toward(v, b)>>
<1> DEFINE rim == A!Rim(I)
           Q == Filled(I, v)
           u == Toward(v, a)
           Gap(e) == (A!Angle(v, u) - A!Angle(v, e[2])) % 4
           out == {e \in rim : e[1] = v}
           Step(n) == <<v, Toward(v, n)>>
<1>1. A!TurnCw(rim, v, u) = CHOOSE e \in out : \A f \in out : Gap(e) <= Gap(f)
  BY DEF A!TurnCw
<1>2. \A n \in 1 .. 4 : Gap(Step(n)) = Turn(a, n)
  <2> TAKE n \in 1 .. 4
  <2>1. A!Angle(v, u) = a /\ A!Angle(v, Toward(v, n)) = n
    BY AroundVertex
  <2>2. Step(n)[2] = Toward(v, n)
    OBVIOUS
  <2> HIDE DEF Step, u
  <2> QED BY <2>1, <2>2 DEF Turn
<1>3. \A e \in out : \E n \in 1 .. 4 : e = Step(n) /\ Goes(Q, n)
  <2> TAKE e \in out
  <2>1. PICK w \in Points : \E k \in 1 .. 4 :
               /\ e = <<Toward(w, k), w>>
               /\ \E n \in 1 .. 4 : e = <<Toward(w, k), Toward(Toward(w, k), n)>>
    BY RimWays
  <2>2. PICK k \in 1 .. 4 : /\ e = <<Toward(w, k), w>>
                            /\ \E n \in 1 .. 4 : e = <<Toward(w, k), Toward(Toward(w, k), n)>>
    BY <2>1
  <2>3. PICK n \in 1 .. 4 : e = <<Toward(w, k), Toward(Toward(w, k), n)>>
    BY <2>2
  <2>4. Toward(w, k) = v
    BY <2>3
  <2>5. e = Step(n)
    BY <2>3, <2>4
  <2>6. Goes(Q, n)
    <3> HIDE DEF Q
    <3>1. <<v, Toward(v, n)>> \in A!Rim(I)
      BY <2>5
    <3> QED BY <3>1, RimComesGoes DEF Q
  <2> QED BY <2>5, <2>6
<1>4. \A n \in 1 .. 4 : Goes(Q, n) => Step(n) \in out
  <2> TAKE n \in 1 .. 4
  <2> HAVE Goes(Q, n)
  <2>1. Step(n) \in rim
    BY RimComesGoes
  <2>2. Step(n)[1] = v
    OBVIOUS
  <2> HIDE DEF Step, rim
  <2> QED BY <2>1, <2>2
<1>5. Goes(Q, b) /\ \A n \in 1 .. 4 : Goes(Q, n) => Turn(a, b) <= Turn(a, n)
  BY DEF FirstOut
<1>6. Q \in SUBSET (1 .. 4)
  BY DEF Filled
<1> HIDE DEF Gap, out, Step, Q
<1>7. Step(b) \in out /\ \A f \in out : Gap(Step(b)) <= Gap(f)
  <2>1. \A f \in out : Gap(Step(b)) <= Gap(f)
    <3> TAKE f \in out
    <3>1. PICK n \in 1 .. 4 : f = Step(n) /\ Goes(Q, n)
      BY <1>3
    <3> QED BY <1>2, <1>5, <3>1
  <2> QED BY <1>4, <1>5, <2>1
<1>8. ASSUME NEW e \in out, \A f \in out : Gap(e) <= Gap(f)
      PROVE  e = Step(b)
  <2>1. PICK m \in 1 .. 4 : e = Step(m) /\ Goes(Q, m)
    BY <1>3
  <2>2. \A n \in 1 .. 4 : Goes(Q, n) => Turn(a, m) <= Turn(a, n)
    <3> TAKE n \in 1 .. 4
    <3> HAVE Goes(Q, n)
    <3>1. Gap(e) <= Gap(Step(n))
      BY <1>4, <1>8
    <3> QED BY <1>2, <2>1, <3>1
  <2>3. FirstOut(Q, a, m) /\ FirstOut(Q, a, b)
    BY <1>5, <2>1, <2>2 DEF FirstOut
  <2>4. m = b
    BY <1>6, <2>3, WaysAlternate
  <2> QED BY <2>1, <2>4
<1>9. A!TurnCw(rim, v, u) = Step(b)
  <2> HIDE DEF rim, u
  <2> QED BY <1>1, <1>7, <1>8
<1> QED BY <1>9 DEF Step

(* When no face is left to see, of every constraint one half-edge is       *)
(* traced; the one that is followed next starts where the last one ends,   *)
(* and no two are followed by the same one, nor is any left out.           *)
RimTurns ==
  stage = "label" /\ A!Unseen = {} =>
    LET rim == A!Rim(A!Interior)
        next == [e \in rim |-> A!TurnCw(rim, e[2], e[1])]
    IN  /\ \A e \in walls : e \in rim <=> <<e[2], e[1]>> \notin rim
        /\ \A e \in rim : next[e][1] = e[2]
        /\ next \in Bijection(rim, rim)

(* Around every vertex ways in and out alternate, so each way in is given  *)
(* a way out of its own: the successor is a bijection on the rim.          *)
LEMMA RimFollowed ==
  ASSUME NEW I \in SUBSET Points
  PROVE  LET rim == A!Rim(I)
             next == [e \in rim |-> A!TurnCw(rim, e[2], e[1])]
         IN  (\A e \in rim : next[e][1] = e[2]) /\ next \in Bijection(rim, rim)
<1> DEFINE rim == A!Rim(I)
           next == [e \in rim |-> A!TurnCw(rim, e[2], e[1])]
           Q(v) == Filled(I, v)
           In2(v, a) == <<Toward(v, a), v>>
           Out2(v, b) == <<v, Toward(v, b)>>
<1>1. \A v : Q(v) \in SUBSET (1 .. 4)
  BY DEF Filled
<1>2. \A v \in Points : \A a \in 1 .. 4 : /\ Out2(v, a) \in rim <=> Goes(Q(v), a)
                                          /\ In2(v, a) \in rim <=> Comes(Q(v), a)
  BY RimComesGoes
<1>3. \A e \in rim : \E v \in Points : \E a \in 1 .. 4 : e = In2(v, a) /\ Comes(Q(v), a)
  <2> TAKE e \in rim
  <2>1. PICK v \in Points : \E a \in 1 .. 4 : e = <<Toward(v, a), v>>
    BY RimWays
  <2>2. PICK a \in 1 .. 4 : e = In2(v, a)
    BY <2>1
  <2> HIDE DEF In2, Q, rim
  <2> QED BY <1>2, <2>2
<1>4. \A e \in rim : \E v \in Points : \E a \in 1 .. 4 : e = Out2(v, a) /\ Goes(Q(v), a)
  <2> TAKE e \in rim
  <2>1. PICK w \in Points : \E k \in 1 .. 4 : \E n \in 1 .. 4 : e = <<Toward(w, k), Toward(Toward(w, k), n)>>
    BY RimWays
  <2>2. PICK k \in 1 .. 4 : \E n \in 1 .. 4 : e = <<Toward(w, k), Toward(Toward(w, k), n)>>
    BY <2>1
  <2>3. PICK n \in 1 .. 4 : e = <<Toward(w, k), Toward(Toward(w, k), n)>>
    BY <2>2
  <2>4. Toward(w, k) \in Points /\ e = Out2(Toward(w, k), n)
    BY <2>3, AroundVertex
  <2> HIDE DEF Out2, Q, rim
  <2> QED BY <1>2, <2>4
<1>5. ASSUME NEW v \in Points, NEW a \in 1 .. 4, NEW b \in 1 .. 4, Comes(Q(v), a), FirstOut(Q(v), a, b)
      PROVE  next[In2(v, a)] = Out2(v, b) /\ Out2(v, b) \in rim
  <2>1. A!TurnCw(rim, v, Toward(v, a)) = Out2(v, b)
    BY <1>5, NextOnRim
  <2>2. In2(v, a) \in rim /\ Out2(v, b) \in rim
    BY <1>2, <1>5 DEF FirstOut
  <2>3. In2(v, a)[1] = Toward(v, a) /\ In2(v, a)[2] = v
    OBVIOUS
  <2> HIDE DEF In2, Out2, rim
  <2> QED BY <2>1, <2>2, <2>3
<1>6. \A v \in Points : \A a, b \in 1 .. 4 : Toward(v, a) = Toward(v, b) => a = b
  <2> TAKE v \in Points, a \in 1 .. 4, b \in 1 .. 4
  <2>1. A!Angle(v, Toward(v, a)) = a /\ A!Angle(v, Toward(v, b)) = b
    BY AroundVertex
  <2> QED BY <2>1
<1>7. \A v, w \in Points : \A a, b \in 1 .. 4 : Out2(v, a) = Out2(w, b) => v = w /\ a = b
  BY <1>6
<1>8. \A v, a : In2(v, a)[2] = v /\ Out2(v, a)[1] = v
  OBVIOUS
<1> HIDE DEF rim, next, Q, In2, Out2
<1>9. ASSUME NEW e \in rim
      PROVE  \E v \in Points : \E a, b \in 1 .. 4 :
               /\ e = In2(v, a) /\ Comes(Q(v), a) /\ FirstOut(Q(v), a, b)
               /\ next[e] = Out2(v, b) /\ Out2(v, b) \in rim
  <2>1. PICK v \in Points : \E a \in 1 .. 4 : e = In2(v, a) /\ Comes(Q(v), a)
    BY <1>3
  <2>2. PICK a \in 1 .. 4 : e = In2(v, a) /\ Comes(Q(v), a)
    BY <2>1
  <2>3. PICK b \in 1 .. 4 : FirstOut(Q(v), a, b)
    BY <1>1, <2>2, WaysAlternate
  <2> QED BY <1>5, <2>2, <2>3
<1>10. \A e \in rim : next[e] \in rim /\ next[e][1] = e[2]
  BY <1>8, <1>9
<1>11. \A e, f \in rim : next[e] = next[f] => e = f
  <2> TAKE e \in rim, f \in rim
  <2> HAVE next[e] = next[f]
  <2>1. PICK v \in Points : \E a, b \in 1 .. 4 :
               /\ e = In2(v, a) /\ Comes(Q(v), a) /\ FirstOut(Q(v), a, b) /\ next[e] = Out2(v, b)
    BY <1>9
  <2>2. PICK a \in 1 .. 4, b \in 1 .. 4 :
               /\ e = In2(v, a) /\ Comes(Q(v), a) /\ FirstOut(Q(v), a, b) /\ next[e] = Out2(v, b)
    BY <2>1
  <2>3. PICK w \in Points : \E c, d \in 1 .. 4 :
               /\ f = In2(w, c) /\ Comes(Q(w), c) /\ FirstOut(Q(w), c, d) /\ next[f] = Out2(w, d)
    BY <1>9
  <2>4. PICK c \in 1 .. 4, d \in 1 .. 4 :
               /\ f = In2(w, c) /\ Comes(Q(w), c) /\ FirstOut(Q(w), c, d) /\ next[f] = Out2(w, d)
    BY <2>3
  <2>5. v = w /\ b = d
    BY <1>7, <2>2, <2>4
  <2>6. a = c
    BY <1>1, <2>2, <2>4, <2>5, WaysAlternate
  <2> QED BY <2>2, <2>4, <2>5, <2>6
<1>12. \A f \in rim : \E e \in rim : next[e] = f
  <2> TAKE f \in rim
  <2>1. PICK v \in Points : \E b \in 1 .. 4 : f = Out2(v, b) /\ Goes(Q(v), b)
    BY <1>4
  <2>2. PICK b \in 1 .. 4 : f = Out2(v, b) /\ Goes(Q(v), b)
    BY <2>1
  <2>3. PICK a \in 1 .. 4 : Comes(Q(v), a) /\ FirstOut(Q(v), a, b)
    BY <1>1, <2>2, WaysAlternate
  <2>4. In2(v, a) \in rim
    BY <1>2, <2>3
  <2> QED BY <1>5, <2>2, <2>3, <2>4
<1>13. next \in Bijection(rim, rim)
  <2>1. next \in [rim -> rim]
    <3>1. next = [e \in rim |-> next[e]]
      BY DEF next
    <3> QED BY <1>10, <3>1
  <2> QED BY <1>11, <1>12, <2>1 DEF Bijection, Injection, Surjection, IsInjective
<1> QED BY <1>10, <1>13 DEF rim, next

(* A constraint has the region on one side, so one half-edge on the rim.   *)
LEMMA RimHolds ==
  ASSUME LabelInv, stage = "label", A!Unseen = {}
  PROVE  RimTurns
<1> DEFINE I == A!Interior
           rim == A!Rim(I)
<1>1. I \in SUBSET Points /\ A!Outline(I) = walls
  BY LabelledRegionHolds, OddCellsAre DEF LabelInv
<1> HIDE DEF I
<1>2. ASSUME NEW e \in walls PROVE e \in rim <=> <<e[2], e[1]>> \notin rim
  <2>1. PICK c \in I : \E d \in DOMAIN A!Beside(c) : e \in A!Sides(c)[d]
    BY <1>1 DEF A!Outline
  <2>2. PICK d \in DOMAIN A!Beside(c) : e \in A!Sides(c)[d]
    BY <2>1
  <2>3. PICK s \in Units : A!Sides(c)[d] = Half(s)
    BY <1>1, SideBetween
  <2>4. PICK v \in Points : \E a \in 1 .. 4 : e = <<Toward(v, a), v>>
    BY <2>2, <2>3, HalfWays
  <2>5. PICK a \in 1 .. 4 : e = <<Toward(v, a), v>>
    BY <2>4
  <2>6. /\ Way(v, a) \in Units /\ Between(Way(v, a)) = {Corner(v, a), Corner(v, Prior(a))}
        /\ e \in Half(Way(v, a))
    BY <2>5, AroundVertex
  <2>7. \E b1, b2 \in {Corner(v, a), Corner(v, Prior(a))} : b1 \in I /\ b2 \notin I
    BY <1>1, <2>6, OutlineIs
  <2>8. /\ <<v, Toward(v, a)>> \in rim <=> Corner(v, a) \in I /\ Corner(v, Prior(a)) \notin I
        /\ <<Toward(v, a), v>> \in rim <=> Corner(v, Prior(a)) \in I /\ Corner(v, a) \notin I
    BY <1>1, RimAt
  <2>9. <<e[2], e[1]>> = <<v, Toward(v, a)>>
    BY <2>5
  <2> HIDE DEF rim
  <2> QED BY <2>5, <2>7, <2>8, <2>9
<1>3. LET next == [e \in rim |-> A!TurnCw(rim, e[2], e[1])]
      IN  (\A e \in rim : next[e][1] = e[2]) /\ next \in Bijection(rim, rim)
  BY <1>1, RimFollowed
<1> HIDE DEF rim
<1>4. /\ \A e \in walls : e \in rim <=> <<e[2], e[1]>> \notin rim
      /\ LET next == [e \in rim |-> A!TurnCw(rim, e[2], e[1])]
         IN  (\A e \in rim : next[e][1] = e[2]) /\ next \in Bijection(rim, rim)
  BY <1>2, <1>3
<1> QED BY <1>4 DEF RimTurns, rim, I

(* trace_rings comes back to where it started without meeting a half-edge  *)
(* it has used, and none is left without a way on: its guards against      *)
(* endless walks never end one, and the rings are closed.                  *)
THEOREM RimIsFollowed == EngineSpec => []RimTurns
<1>1. LabelInv => RimTurns
  <2> SUFFICES ASSUME LabelInv PROVE RimTurns
    OBVIOUS
  <2>1. CASE stage = "label" /\ A!Unseen = {}
    BY <2>1, RimHolds
  <2>2. CASE ~(stage = "label" /\ A!Unseen = {})
    BY <2>2 DEF RimTurns
  <2> QED BY <2>1, <2>2
<1> QED BY <1>1, LabelAlways, PTL

(***************************************************************************)
(* Linework that cancels.                                                  *)
(***************************************************************************)
(* One ring closes, and its sides are those of its number.                 *)
LEMMA RingCloses ==
  ASSUME poly \in Polygons, NEW r \in 0 .. Len(poly.holes)
  PROVE  /\ Closed(A!SidesOf(A!RingAt(r)))
         /\ \A x, y \in Int : Odd(RayMeets(A!SidesOf(A!RingAt(r)), x, y))
                                <=> Odd({k \in RayMeets(A!Lines, x, y) : k[1] = r})
<1> DEFINE ring == A!RingAt(r)
           n == Len(ring)
           S == A!SidesOf(ring)
           Place(i) == <<r, i>>
           Before(i) == IF i = 1 THEN n ELSE i - 1
<1>1. /\ n \in Nat \ {0} /\ DOMAIN ring = 1 .. n
      /\ \A i \in 1 .. n : Suc(ring, i) \in 1 .. n /\ After(ring, i) = ring[Suc(ring, i)]
  BY RingsOfPolygon
<1>2. \A i \in 1 .. n : /\ Place(i) \in Places
                        /\ From(Place(i)) = ring[i] /\ To(Place(i)) = After(ring, i)
  BY DEF Places, From, To
<1>3. DOMAIN A!Lines = Places /\ IsFiniteSet(Places)
  BY PlacesAre
<1>4. DOMAIN S = 1 .. n /\ S = [i \in 1 .. n |-> S[i]] /\ \A i \in 1 .. n : S[i] = A!Lines[Place(i)]
  <2>1. DOMAIN S = 1 .. n /\ S = [i \in 1 .. n |-> S[i]]
    BY <1>1 DEF A!SidesOf
  <2>2. ASSUME NEW i \in 1 .. n PROVE S[i] = A!Lines[Place(i)]
    <3>1. Place(i) \in DOMAIN A!Lines /\ Place(i)[1] = r /\ Place(i)[2] = i
      BY <1>2, <1>3
    <3> HIDE DEF Place
    <3> QED BY <3>1 DEF A!Lines
  <2> QED BY <2>1, <2>2
<1>5. \A i \in 1 .. n : /\ S[i] \in AxisLines
                        /\ S[i] = <<ring[i], After(ring, i)>> \/ S[i] = <<After(ring, i), ring[i]>>
  <2> TAKE i \in 1 .. n
  <2>1. /\ A!Lines[Place(i)] \in AxisLines
        /\ \/ A!Lines[Place(i)] = <<From(Place(i)), To(Place(i))>>
           \/ A!Lines[Place(i)] = <<To(Place(i)), From(Place(i))>>
    BY <1>2, PlacesAre
  <2> HIDE DEF Place, S, ring
  <2> QED BY <1>2, <1>4, <2>1
<1>6. IsFiniteSet(1 .. n)
  <2>1. 1 \in Int /\ n \in Int
    BY <1>1
  <2> HIDE DEF n
  <2> QED BY <2>1, FS_Interval
<1>7. \A i \in 1 .. n : /\ Before(i) \in 1 .. n
                        /\ Suc(ring, Before(i)) = i /\ Before(Suc(ring, i)) = i
  <2>1. \A i : Suc(ring, i) = IF i = n THEN 1 ELSE i + 1
    BY DEF Suc
  <2> HIDE DEF n, ring
  <2> QED BY <1>1, <2>1
<1> HIDE DEF S, Before, Place
<1>8. ASSUME NEW v \in Points
      PROVE  Odd(EndsAt(S, 1, v)) <=> Odd(EndsAt(S, 2, v))
  <2> DEFINE X == {i \in 1 .. n : ring[i] = v}
             Y == {i \in 1 .. n : After(ring, i) = v}
             f == [i \in Y |-> Suc(ring, i)]
  <2>1. IsFiniteSet(X) /\ IsFiniteSet(Y)
    <3>1. X \subseteq 1 .. n /\ Y \subseteq 1 .. n
      OBVIOUS
    <3> HIDE DEF X, Y, n
    <3> QED BY <1>6, <3>1, FS_Subset
  <2>2. f \in Bijection(Y, X)
    <3> HIDE DEF n, ring
    <3>1. f \in [Y -> X]
      BY <1>1
    <3>2. \A a, b \in Y : f[a] = f[b] => a = b
      <4> TAKE a \in Y, b \in Y
      <4> HAVE f[a] = f[b]
      <4>1. Before(Suc(ring, a)) = a /\ Before(Suc(ring, b)) = b /\ Suc(ring, a) = Suc(ring, b)
        BY <1>7
      <4> QED BY <4>1
    <3>3. \A b \in X : \E a \in Y : f[a] = b
      <4> TAKE b \in X
      <4>1. Before(b) \in 1 .. n /\ Suc(ring, Before(b)) = b
        BY <1>7
      <4>2. After(ring, Before(b)) = v
        BY <1>1, <4>1
      <4>3. Before(b) \in Y /\ f[Before(b)] = b
        BY <4>1, <4>2
      <4> QED BY <4>3
    <3> HIDE DEF X, Y, f
    <3> QED BY <3>1, <3>2, <3>3 DEF Bijection, Injection, IsInjective, Surjection
  <2>3. Cardinality(X) = Cardinality(Y)
    <3>1. ExistsBijection(Y, X)
      <4> HIDE DEF f, X, Y
      <4> QED BY <2>2 DEF ExistsBijection
    <3> HIDE DEF X, Y
    <3> QED BY <2>1, <3>1, FS_Bijection
  <2>4. Differ(EndsAt(S, 1, v), EndsAt(S, 2, v)) = Differ(X, Y)
    <3>1. \A i \in 1 .. n : (S[i][1] = v /\ S[i][2] = v <=> ring[i] = v /\ After(ring, i) = v)
                            /\ (S[i][1] = v \/ S[i][2] = v <=> ring[i] = v \/ After(ring, i) = v)
      <4> TAKE i \in 1 .. n
      <4>1. S[i] = <<ring[i], After(ring, i)>> \/ S[i] = <<After(ring, i), ring[i]>>
        BY <1>5
      <4> HIDE DEF ring
      <4> QED BY <4>1
    <3> HIDE DEF n, ring
    <3> QED BY <1>4, <3>1 DEF Differ, EndsAt
  <2>5. IsFiniteSet(EndsAt(S, 1, v)) /\ IsFiniteSet(EndsAt(S, 2, v))
    <3>1. EndsAt(S, 1, v) \subseteq 1 .. n /\ EndsAt(S, 2, v) \subseteq 1 .. n
      BY <1>4 DEF EndsAt
    <3> HIDE DEF n
    <3> QED BY <1>6, <3>1, FS_Subset
  <2>6. Odd(X) <=> Odd(Y)
    BY <2>3 DEF Odd
  <2> HIDE DEF X, Y
  <2>7. ~Odd(Differ(X, Y))
    BY <2>1, <2>6, OddDiffer
  <2> QED BY <2>4, <2>5, <2>7, OddDiffer
<1>9. Closed(S)
  <2> HIDE DEF n, ring
  <2>1. S \in [DOMAIN S -> AxisLines]
    BY <1>4, <1>5
  <2> QED BY <1>4, <1>6, <1>8, <2>1 DEF Closed, Closes
<1>10. ASSUME NEW x \in Int, NEW y \in Int
       PROVE  Odd(RayMeets(S, x, y)) <=> Odd({k \in RayMeets(A!Lines, x, y) : k[1] = r})
  <2> DEFINE X == RayMeets(S, x, y)
             Y == {k \in RayMeets(A!Lines, x, y) : k[1] = r}
             f == [i \in X |-> Place(i)]
  <2>1. \A i \in 1 .. n : i \in X <=> Place(i) \in Y
    <3> TAKE i \in 1 .. n
    <3>1. Place(i)[1] = r
      BY DEF Place
    <3> HIDE DEF n
    <3> QED BY <1>2, <1>3, <1>4, <3>1 DEF RayMeets
  <2>2. \A k \in Y : \E i \in 1 .. n : k = Place(i)
    <3> TAKE k \in Y
    <3>1. k \in Places /\ k[1] = r
      BY <1>3 DEF RayMeets
    <3>2. PICK q \in 0 .. Len(poly.holes) : k \in {q} \X (1 .. Len(A!RingAt(q)))
      BY <3>1 DEF Places
    <3>3. q = r /\ k = <<r, k[2]>> /\ k[2] \in 1 .. n
      BY <3>1, <3>2
    <3> QED BY <3>3 DEF Place
  <2>3. X \subseteq 1 .. n
    BY <1>4 DEF RayMeets
  <2>4. IsFiniteSet(X) /\ IsFiniteSet(Y)
    <3>1. Y \subseteq Places
      BY <1>3 DEF RayMeets
    <3> HIDE DEF X, Y, n
    <3> QED BY <1>3, <1>6, <2>3, <3>1, FS_Subset
  <2>5. \A i, j : Place(i) = Place(j) => i = j
    BY DEF Place
  <2> HIDE DEF X, Y, n
  <2>6. f \in Bijection(X, Y)
    <3>1. f \in [X -> Y]
      BY <2>1, <2>3
    <3>2. \A i, j \in X : f[i] = f[j] => i = j
      BY <2>5
    <3>3. \A k \in Y : \E i \in X : f[i] = k
      BY <2>1, <2>2
    <3> HIDE DEF f
    <3> QED BY <3>1, <3>2, <3>3 DEF Bijection, Injection, IsInjective, Surjection
  <2>7. Cardinality(X) = Cardinality(Y)
    <3>1. ExistsBijection(X, Y)
      <4> HIDE DEF f
      <4> QED BY <2>6 DEF ExistsBijection
    <3> QED BY <2>4, <3>1, FS_Bijection
  <2>8. Odd(X) <=> Odd(Y)
    BY <2>7 DEF Odd
  <2> QED BY <2>8 DEF X, Y
<1> QED BY <1>9, <1>10 DEF S, ring

(* Without a constraint no ray meets an odd number of sides, and whatever  *)
(* is inside the shell is inside a hole.                                   *)
LEMMA NothingLeft ==
  ASSUME poly \in Polygons, A!Constraints = {}
  PROVE  /\ A!OddCells(A!Lines) = {}
         /\ A!OddCells(A!SidesOf(poly.shell))
              \ UNION {A!OddCells(A!SidesOf(poly.holes[k])) : k \in DOMAIN poly.holes} = {}
<1>1. Closed(A!Lines)
  BY LinesClose
<1>2. \A s \in Units : ~Odd(Through(A!Lines, s))
  BY ConstraintsAre DEF Half
<1>3. ASSUME NEW x \in Int, NEW y \in Int PROVE ~Odd(RayMeets(A!Lines, x, y))
  <2>1. \A n \in Int : ~Odd(Through(A!Lines, Unit(n, y, TRUE)))
    BY <1>2 DEF Units, Unit
  <2> QED BY <1>1, <2>1, ClearAhead
<1>4. A!OddCells(A!Lines) = {}
  <2>1. /\ A!OddCells(A!Lines) \subseteq Points
        /\ \A c \in Points : c \in A!OddCells(A!Lines) <=> Odd(RayMeets(A!Lines, c[1], c[2]))
    BY <1>1, OddCellsOf
  <2>2. \A c \in Points : c[1] \in Int /\ c[2] \in Int
    BY DEF Points
  <2> QED BY <1>3, <2>1, <2>2
<1> DEFINE R == 0 .. Len(poly.holes)
<1>5. /\ Len(poly.holes) \in Nat /\ DOMAIN poly.holes = 1 .. Len(poly.holes)
      /\ A!RingAt(0) = poly.shell /\ 0 \in R
      /\ \A k \in R \ {0} : k \in DOMAIN poly.holes /\ A!RingAt(k) = poly.holes[k]
  BY PolygonsAssumption DEF A!RingAt
<1>6. ASSUME NEW r \in R
      PROVE  /\ A!OddCells(A!SidesOf(A!RingAt(r))) \subseteq Points
             /\ \A c \in Points : c \in A!OddCells(A!SidesOf(A!RingAt(r)))
                                    <=> Odd({k \in RayMeets(A!Lines, c[1], c[2]) : k[1] = r})
  <2>1. /\ Closed(A!SidesOf(A!RingAt(r)))
        /\ \A x, y \in Int : Odd(RayMeets(A!SidesOf(A!RingAt(r)), x, y))
                               <=> Odd({k \in RayMeets(A!Lines, x, y) : k[1] = r})
    BY RingCloses
  <2>2. \A c \in Points : c[1] \in Int /\ c[2] \in Int
    BY DEF Points
  <2>3. /\ A!OddCells(A!SidesOf(A!RingAt(r))) \subseteq Points
        /\ \A c \in Points : c \in A!OddCells(A!SidesOf(A!RingAt(r)))
                               <=> Odd(RayMeets(A!SidesOf(A!RingAt(r)), c[1], c[2]))
    BY <2>1, OddCellsOf
  <2> QED BY <2>1, <2>2, <2>3
<1>7. ASSUME NEW c \in A!OddCells(A!SidesOf(poly.shell))
      PROVE  \E k \in DOMAIN poly.holes : c \in A!OddCells(A!SidesOf(poly.holes[k]))
  <2> DEFINE D == RayMeets(A!Lines, c[1], c[2])
             f == [k \in D |-> k[1]]
             Often == {r \in R : Odd({k \in D : f[k] = r})}
  <2>1. c \in Points /\ c[1] \in Int /\ c[2] \in Int
    BY <1>5, <1>6 DEF Points
  <2>2. IsFiniteSet(D) /\ IsFiniteSet(R)
    <3>1. 0 \in Int /\ Len(poly.holes) \in Int
      BY <1>5
    <3> QED BY <1>1, <3>1, LinesBounded, FS_Interval
  <2>3. \A k \in D : f[k] \in R
    <3> TAKE k \in D
    <3>1. k \in Places
      BY PlacesAre DEF RayMeets
    <3> QED BY <3>1 DEF Places
  <2>4. {k \in D : f[k] \in R} = D
    BY <2>3
  <2>5. Odd(D) <=> Odd(Often)
    <3>1. DOMAIN f = D
      OBVIOUS
    <3> HIDE DEF D, f, R
    <3>2. Odd({k \in D : f[k] \in R}) <=> Odd(Often)
      BY <2>2, <3>1, OddFibres
    <3> QED BY <2>4, <3>2
  <2>6. ~Odd(Often)
    BY <1>3, <2>1, <2>5
  <2>7. \A r \in R : r \in Often <=> c \in A!OddCells(A!SidesOf(A!RingAt(r)))
    <3> TAKE r \in R
    <3>1. {k \in D : f[k] = r} = {k \in D : k[1] = r}
      OBVIOUS
    <3> QED BY <1>6, <2>1, <3>1
  <2>8. 0 \in Often
    <3> HIDE DEF Often, R
    <3> QED BY <1>5, <2>7
  <2>9. PICK r \in Often : r # 0
    <3>1. Often # {0}
      <4> HIDE DEF Often
      <4> QED BY <2>6, OddFew
    <3> HIDE DEF Often
    <3> QED BY <2>8, <3>1
  <2>10. r \in R \ {0} /\ c \in A!OddCells(A!SidesOf(A!RingAt(r)))
    BY <2>7, <2>9
  <2> HIDE DEF R
  <2> QED BY <1>5, <2>10
<1> QED BY <1>4, <1>7

(* When all linework cancels, a hole for a shell or shells twice over, the *)
(* answer is the even-odd region, which is empty then.                     *)
CancelledGivesNothing ==
  stage = "done" /\ walls = {} => answer = {} /\ answer = A!OddCells(A!Lines)

(* Past the first stage only linework that does not cancel goes on.        *)
CancelInv ==
  /\ LabelInv
  /\ stage = "assemble" => walls # {}
  /\ stage = "difference" /\ walls = {} => A!Constraints = {}
  /\ stage = "done" /\ walls = {} => A!Constraints = {} /\ answer = {}

(* Every step of the triangulation engine keeps it.                        *)
LEMMA CancelStep ==
  ASSUME CancelInv, A!Next
  PROVE  CancelInv'
<1>1. LabelInv /\ LabelInv'
  BY LabelStep DEF CancelInv
<1>2. poly' = poly /\ poly \in Polygons /\ A!Constraints' = A!Constraints
  <2>1. poly' = poly
    BY DEF A!Next, A!Prepare, A!Triangulate, A!SeeFromHull, A!SeeNeighbour, A!Trace, A!AssignHole,
           A!Judge, A!Difference
  <2> QED BY <1>1, <2>1, PolygonKeeps DEF LabelInv
<1>3. /\ stage \in {"triangulate", "label", "assemble"} => walls # {}
      /\ stage = "difference" /\ walls = {} => A!Constraints = {}
  BY DEF CancelInv, LabelInv
<1>4. CASE A!Prepare
  <2>1. /\ walls' = A!Constraints /\ stage' \in {"difference", "triangulate"}
        /\ stage' = "difference" => walls' = {}
    BY <1>4 DEF A!Prepare
  <2> QED BY <1>1, <1>2, <2>1 DEF CancelInv
<1>5. CASE A!Triangulate \/ A!SeeFromHull \/ A!SeeNeighbour
  <2>1. stage' = "label"
    BY <1>5 DEF A!Triangulate, A!SeeFromHull, A!SeeNeighbour
  <2> QED BY <1>1, <2>1 DEF CancelInv
<1>6. CASE A!Trace \/ A!AssignHole
  <2>1. walls' = walls /\ walls # {} /\ stage' \in {"difference", "assemble"}
    BY <1>3, <1>6 DEF A!Trace, A!AssignHole
  <2> QED BY <1>1, <2>1 DEF CancelInv
<1>7. CASE A!Judge
  <2>1. stage' \in {"done", "idle", "reduce"} /\ (stage' = "done" => walls' # {})
    BY <1>3, <1>7 DEF A!Judge, A!Answer
  <2> QED BY <1>1, <2>1 DEF CancelInv
<1>8. CASE A!Difference
  <2>1. stage' = "done" /\ walls' = walls /\ stage = "difference"
    BY <1>8 DEF A!Difference, A!Answer
  <2>2. ASSUME walls = {} PROVE answer' = {}
    <3>1. A!OddCells(A!SidesOf(poly.shell))
            \ UNION {A!OddCells(A!SidesOf(poly.holes[k])) : k \in DOMAIN poly.holes} = {}
      BY <1>2, <1>3, <2>1, <2>2, NothingLeft
    <3> QED BY <1>8, <3>1 DEF A!Difference, A!Answer
  <2> QED BY <1>1, <1>2, <1>3, <2>1, <2>2 DEF CancelInv
<1> QED BY <1>4, <1>5, <1>6, <1>7, <1>8 DEF A!Next

(* A polygon whose rings cancel out is answered by the difference of its   *)
(* rings, and that is empty whether the overlay panics or not.             *)
THEOREM CancelledIsEmpty == EngineSpec => []CancelledGivesNothing
<1>1. EngineInit => CancelInv
  BY DEF EngineInit, Init, A!Init, A!Idle, LabelInv, CancelInv
<1>2. CancelInv /\ [EngineNext]_engineVars => CancelInv'
  <2> SUFFICES ASSUME CancelInv, [EngineNext]_engineVars PROVE CancelInv'
    OBVIOUS
  <2>1. ASSUME UNCHANGED <<poly, stage, walls, labels>>, UNCHANGED answer PROVE CancelInv'
    <3>1. LabelInv' /\ A!Constraints' = A!Constraints
      BY <2>1, LabelInvKept, PolygonKeeps DEF CancelInv
    <3> QED BY <2>1, <3>1 DEF CancelInv
  <2>2. CASE Structure \/ ArrangeChain \/ HandOver
    <3>1. answer' = answer
      BY <2>2 DEF Structure, ArrangeChain, HandOver, arrangeVars
    <3> QED BY <2>1, <2>2, <3>1, StructureKeeps
  <2>3. CASE Arrange
    BY <2>3, CancelStep DEF Arrange
  <2>4. CASE UNCHANGED engineVars
    BY <2>1, <2>4 DEF engineVars, vars, arrangeVars
  <2> QED BY <2>2, <2>3, <2>4 DEF EngineNext
<1>3. CancelInv => CancelledGivesNothing
  BY NothingLeft DEF CancelInv, LabelInv, CancelledGivesNothing
<1> QED BY <1>1, <1>2, <1>3, PTL DEF EngineSpec
=============================================================================
