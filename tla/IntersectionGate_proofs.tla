----------------------- MODULE IntersectionGate_proofs -----------------------
(***************************************************************************)
(* Proofs about the validator's check of a ring, for every ring of lattice *)
(* points and every setting of the thresholds that choose its search.      *)
(***************************************************************************)
EXTENDS IntersectionGate, Segments_proofs, FunctionTheorems, FiniteSetTheorems, TLAPS

(* RepeatedPoint and PinchPoint, as the scan finds them.                   *)
Found == (IF \E i \in 2 .. Len(Ring) : Ring[i] = Ring[i - 1] THEN {"RepeatedPoint"} ELSE {})
           \cup (IF FirstPinchDup(Ring) THEN {"PinchPoint"} ELSE {})

FlatBox == Whole.lx = Whole.hx \/ Whole.ly = Whole.hy

(* What every search asks of a pair of lines, and the two answers it can   *)
(* give: it may meet a pair in one order only.                             *)
Hit(i, j) == ~Apart(Box(lines[i]), Box(lines[j])) /\ RingHit(i, j)

SomeHit == \E i, j \in DOMAIN lines : Hit(i, j)

NoHit == \A i, j \in DOMAIN lines : i < j => ~Hit(i, j) \/ ~Hit(j, i)

Searching == {"ringpairs", "ringsweep", "seggrid", "ringtree"}

(***************************************************************************)
(* The invariant: the scan's findings stand while the ring is searched,    *)
(* the sweep has tested every pair it has passed, and the search ends with *)
(* the answer for all pairs.                                               *)
(***************************************************************************)
RingInv ==
  /\ rings \in Seq(Seq(Points) \ {<<>>}) /\ Len(rings) = 1 /\ lines = LinesOf(rings)
  /\ pc \in {"ring", "done"} \cup Searching
  /\ pc = "ring" => errors = {} /\ at = 0 /\ active = {}
  /\ pc \in Searching => Len(Ring) >= 3 /\ ~FlatBox /\ errors = Found

(* A line that left the active set ends before the last left end met.      *)
SweepInv ==
  pc = "ringsweep" =>
    /\ at \in 0 .. Len(lines) /\ active \subseteq DOMAIN lines
    /\ \A k \in 1 .. at : \/ Order[k] \in active
                          \/ Box(lines[Order[k]]).hx < Box(lines[Order[at]]).lx
    /\ \A k, m \in 1 .. at : k < m => ~Hit(Order[k], Order[m])

DoneInv ==
  pc = "done" =>
    \/ Len(Ring) < 3 /\ errors = {"TooFewPoints"}
    \/ Len(Ring) >= 3 /\ FlatBox /\ errors = {"Degenerate"}
    \/ /\ Len(Ring) >= 3 /\ ~FlatBox
       /\ \/ SomeHit /\ errors = Found \cup {"SelfIntersection"}
          \/ /\ NoHit
             /\ errors = Found \cup (IF Found = {} /\ ~RobustIsCcw(Ring) THEN {"WrongOrientation"}
                                     ELSE {})

ValidatorInv == ~tuning.gate => RingInv /\ SweepInv /\ DoneInv

(***************************************************************************)
(* The lines of one ring.                                                  *)
(***************************************************************************)

(* The lines of a single ring are its sides.                               *)
LEMMA OneRingLines ==
  ASSUME NEW r \in Seq(Points) \ {<<>>}, NEW rs, Len(rs) = 1, rs \in Seq(Seq(Points) \ {<<>>}), rs[1] = r
  PROVE  LinesOf(rs) = [i \in 1 .. Len(r) |-> [a |-> r[i], b |-> After(r, i), starts |-> i = 1]]
<1> DEFINE sides == [i \in DOMAIN r |-> [a |-> r[i], b |-> After(r, i), starts |-> i = 1]]
           Iter(it) == it = [s \in SUBSET {1} |->
                               IF s = {} THEN <<>>
                               ELSE it[s \ {Max(s)}]
                                      \o [i \in DOMAIN rs[Max(s)] |->
                                            [a |-> rs[Max(s)][i], b |-> After(rs[Max(s)], i), starts |-> i = 1]]]
           w == [s \in SUBSET {1} |-> IF s = {} THEN <<>> ELSE <<>> \o sides]
<1>1. DOMAIN rs = {1}
  OBVIOUS
<1>2. LinesOf(rs) = (CHOOSE it : Iter(it))[{1}]
  BY <1>1 DEF LinesOf, FoldLeft, MapThenFoldSet
<1>3. Max({1}) = 1
  BY DEF Max
<1>4. \A s \in SUBSET {1} : s = {} \/ s = {1}
  OBVIOUS
<1>5. Iter(w)
  <2> DEFINE step == [s \in SUBSET {1} |->
                        IF s = {} THEN <<>>
                        ELSE w[s \ {Max(s)}]
                               \o [i \in DOMAIN rs[Max(s)] |->
                                     [a |-> rs[Max(s)][i], b |-> After(rs[Max(s)], i), starts |-> i = 1]]]
  <2>1. w[{}] = <<>> /\ w[{1}] = <<>> \o sides
    OBVIOUS
  <2>2. {1} \ {1} = {} /\ rs[1] = r
    OBVIOUS
  <2> HIDE DEF w
  <2>3. step[{}] = <<>> /\ step[{1}] = <<>> \o sides
    BY <1>3, <2>1, <2>2
  <2> HIDE DEF step
  <2>4. ASSUME NEW s \in SUBSET {1} PROVE w[s] = step[s]
    <3>1. CASE s = {}
      BY <2>1, <2>3, <3>1, Zenon
    <3>2. CASE s = {1}
      BY <2>1, <2>3, <3>2, Zenon
    <3> QED BY <1>4, <3>1, <3>2
  <2>5. w = [s \in SUBSET {1} |-> w[s]] /\ step = [s \in SUBSET {1} |-> step[s]]
    BY Zenon DEF w, step
  <2>6. w = step
    BY <2>4, <2>5, Zenon
  <2> QED BY <2>6 DEF step
<1> HIDE DEF w
<1>6. Iter(CHOOSE it : Iter(it))
  BY <1>5
<1> DEFINE it == CHOOSE it : Iter(it)
<1>7. it[{1}] = it[{}] \o sides /\ it[{}] = <<>>
  BY <1>3, <1>6
<1>8. DOMAIN r = 1 .. Len(r) /\ Len(r) \in Nat
  OBVIOUS
<1>9. sides \in Seq([a : Points, b : Points, starts : BOOLEAN])
  <2>1. \A i \in 1 .. Len(r) : r[i] \in Points /\ After(r, i) \in Points
    BY RingFacts
  <2> DEFINE S == [a : Points, b : Points, starts : BOOLEAN]
             f(i) == [a |-> r[i], b |-> After(r, i), starts |-> i = 1]
             n == Len(r)
  <2>2. \A i \in 1 .. n : f(i) \in S
    BY <2>1
  <2>3. n \in Nat
    BY <1>8
  <2>4. sides = [i \in 1 .. n |-> f(i)]
    BY <1>8
  <2> HIDE DEF S, f, n
  <2>5. [i \in 1 .. n |-> f(i)] \in Seq(S)
    BY <2>2, <2>3
  <2> QED BY <2>4, <2>5 DEF S
<1> HIDE DEF sides
<1>10. <<>> \o sides = sides
  BY <1>9
<1> QED
  BY <1>2, <1>7, <1>8, <1>10 DEF sides

(* The line of a place and the side there have the same ends.              *)
LEMMA LinesAre ==
  ASSUME RingInv
  PROVE  /\ Ring \in Seq(Points) /\ Len(Ring) \in Nat \ {0}
         /\ DOMAIN lines = 1 .. Len(Ring) /\ Len(lines) = Len(Ring)
         /\ \A i \in 1 .. Len(Ring) :
              /\ lines[i].a = EdgeOf(Ring, i).a /\ lines[i].b = EdgeOf(Ring, i).b
              /\ Box(lines[i]) = Box(EdgeOf(Ring, i))
              /\ EdgeOf(Ring, i) \in Lines
         /\ \A i, j \in 1 .. Len(Ring) : Hit(i, j) <=> SidesHit(Ring, i, j)

<1>1. Ring \in Seq(Points) \ {<<>>}
  <2>1. rings[1] \in Seq(Points) \ {<<>>}
    BY DEF RingInv
  <2> QED BY <2>1 DEF Ring
<1> DEFINE r == Ring
           n == Len(r)
<1>2. n \in Nat /\ n # 0 /\ r \in Seq(Points)
  BY <1>1
<1>3. lines = [i \in 1 .. n |-> [a |-> r[i], b |-> After(r, i), starts |-> i = 1]]
  BY <1>1, OneRingLines DEF RingInv, Ring
<1> HIDE DEF r
<1>4. DOMAIN lines = 1 .. n /\ Len(lines) = n
  BY <1>2, <1>3
<1>5. ASSUME NEW i \in 1 .. n
      PROVE  /\ lines[i].a = EdgeOf(r, i).a /\ lines[i].b = EdgeOf(r, i).b
             /\ Box(lines[i]) = Box(EdgeOf(r, i))
             /\ EdgeOf(r, i) \in Lines
  <2>1. lines[i].a = EdgeOf(r, i).a /\ lines[i].b = EdgeOf(r, i).b
    BY <1>3 DEF EdgeOf
  <2>2. Box(lines[i]) = Box(EdgeOf(r, i))
    BY <2>1, Zenon DEF Box
  <2> QED BY <1>2, <2>1, <2>2, RingFacts
<1>6. ASSUME NEW i \in 1 .. n, NEW j \in 1 .. n
      PROVE  Hit(i, j) <=> SidesHit(r, i, j)
  <2>1. LeanPairIntersects(lines[i], lines[j]) <=> LeanPairIntersects(EdgeOf(r, i), EdgeOf(r, j))
    BY <1>5, SameEnds, Zenon
  <2> QED BY <1>5, <2>1, Zenon DEF Hit, RingHit, SidesHit
<1> QED
  BY <1>2, <1>4, <1>5, <1>6 DEF r

(***************************************************************************)
(* The box around the ring.                                                *)
(***************************************************************************)

(* Least and greatest of a finite family of integers.                      *)
LEMMA Extremes ==
  ASSUME NEW n \in Nat, n >= 1, NEW f \in [1 .. n -> Int], NEW S, S = {f[i] : i \in 1 .. n}
  PROVE  /\ Min(S) \in Int /\ Max(S) \in Int
         /\ \A i \in 1 .. n : Min(S) <= f[i] /\ f[i] <= Max(S)
<1> DEFINE g == [i \in 1 .. n |-> -f[i]]
<1>1. g \in [1 .. n -> Int]
  OBVIOUS
<1>2. PICK i \in 1 .. n : \A j \in 1 .. n : f[i] <= f[j]
  BY LeastOf
<1>3. PICK k \in 1 .. n : \A j \in 1 .. n : g[k] <= g[j]
  <2> HIDE DEF g
  <2> QED BY <1>1, LeastOf
<1>4. \A j \in 1 .. n : f[j] \in Int
  OBVIOUS
<1>5. \A j \in 1 .. n : f[j] <= f[k]
  BY <1>3, <1>4
<1>6. Min(S) \in S /\ \A y \in S : Min(S) <= y
  <2>1. f[i] \in S /\ \A y \in S : f[i] <= y
    BY <1>2
  <2> QED BY <2>1 DEF Min
<1>7. Max(S) \in S /\ \A y \in S : Max(S) >= y
  <2>1. f[k] \in S /\ \A y \in S : f[k] >= y
    BY <1>4, <1>5
  <2> QED BY <2>1 DEF Max
<1>8. S \in SUBSET Int /\ \A j \in 1 .. n : f[j] \in S
  BY <1>4
<1> QED BY <1>4, <1>6, <1>7, <1>8

(* Whole holds every line's box.                                           *)
LEMMA WholeIs ==
  ASSUME RingInv
  PROVE  /\ Whole.lx \in Int /\ Whole.hx \in Int /\ Whole.ly \in Int /\ Whole.hy \in Int
         /\ \A i \in DOMAIN lines :
              LET s == Box(lines[i]) IN
              /\ s.lx \in Int /\ s.hx \in Int /\ s.ly \in Int /\ s.hy \in Int
              /\ s.lx <= s.hx /\ s.ly <= s.hy
              /\ Whole.lx <= s.lx /\ s.hx <= Whole.hx /\ Whole.ly <= s.ly /\ s.hy <= Whole.hy
         /\ Whole.lx <= Whole.hx /\ Whole.ly <= Whole.hy
<1> DEFINE n == Len(Ring)
           B(i) == Box(lines[i])
           Sx == {s.lx : s \in {Box(l) : l \in Range(lines)}}
           Tx == {s.hx : s \in {Box(l) : l \in Range(lines)}}
           Sy == {s.ly : s \in {Box(l) : l \in Range(lines)}}
           Ty == {s.hy : s \in {Box(l) : l \in Range(lines)}}
<1>1. n \in Nat /\ n >= 1 /\ DOMAIN lines = 1 .. n
  BY LinesAre
<1>2. \A i \in 1 .. n : /\ B(i).lx \in Int /\ B(i).hx \in Int /\ B(i).ly \in Int /\ B(i).hy \in Int
                        /\ B(i).lx <= B(i).hx /\ B(i).ly <= B(i).hy
  <2> SUFFICES ASSUME NEW i \in 1 .. n
               PROVE  /\ B(i).lx \in Int /\ B(i).hx \in Int /\ B(i).ly \in Int /\ B(i).hy \in Int
                      /\ B(i).lx <= B(i).hx /\ B(i).ly <= B(i).hy
    OBVIOUS
  <2> DEFINE e == EdgeOf(Ring, i)
  <2>1. B(i) = Box(e) /\ e \in Lines
    BY LinesAre
  <2>2. /\ e.a[1] \in Int /\ e.a[2] \in Int
    BY <2>1, Points2 DEF Lines
  <2> HIDE DEF e
  <2>3. /\ Box(e).lx \in Int /\ Box(e).hx \in Int /\ Box(e).ly \in Int /\ Box(e).hy \in Int
        /\ Box(e).lx <= e.a[1] /\ e.a[1] <= Box(e).hx
        /\ Box(e).ly <= e.a[2] /\ e.a[2] <= Box(e).hy
    BY <2>1, BoxIs
  <2> QED BY <2>1, <2>2, <2>3
<1> HIDE DEF n
<1>3. /\ Sx = {B(i).lx : i \in 1 .. n} /\ Tx = {B(i).hx : i \in 1 .. n}
      /\ Sy = {B(i).ly : i \in 1 .. n} /\ Ty = {B(i).hy : i \in 1 .. n}
  BY <1>1 DEF Range
<1>4. /\ Whole.lx = Min(Sx) /\ Whole.hx = Max(Tx) /\ Whole.ly = Min(Sy) /\ Whole.hy = Max(Ty)
  BY DEF Whole
<1> HIDE DEF B, Sx, Tx, Sy, Ty
<1>5. Min(Sx) \in Int /\ \A i \in 1 .. n : Min(Sx) <= B(i).lx
  <2> DEFINE f == [i \in 1 .. n |-> B(i).lx]
  <2>1. f \in [1 .. n -> Int] /\ Sx = {f[i] : i \in 1 .. n} /\ \A i \in 1 .. n : f[i] = B(i).lx
    BY <1>2, <1>3
  <2> HIDE DEF f
  <2> QED BY <1>1, <2>1, Extremes
<1>6. Max(Tx) \in Int /\ \A i \in 1 .. n : B(i).hx <= Max(Tx)
  <2> DEFINE f == [i \in 1 .. n |-> B(i).hx]
  <2>1. f \in [1 .. n -> Int] /\ Tx = {f[i] : i \in 1 .. n} /\ \A i \in 1 .. n : f[i] = B(i).hx
    BY <1>2, <1>3
  <2> HIDE DEF f
  <2> QED BY <1>1, <2>1, Extremes
<1>7. Min(Sy) \in Int /\ \A i \in 1 .. n : Min(Sy) <= B(i).ly
  <2> DEFINE f == [i \in 1 .. n |-> B(i).ly]
  <2>1. f \in [1 .. n -> Int] /\ Sy = {f[i] : i \in 1 .. n} /\ \A i \in 1 .. n : f[i] = B(i).ly
    BY <1>2, <1>3
  <2> HIDE DEF f
  <2> QED BY <1>1, <2>1, Extremes
<1>8. Max(Ty) \in Int /\ \A i \in 1 .. n : B(i).hy <= Max(Ty)
  <2> DEFINE f == [i \in 1 .. n |-> B(i).hy]
  <2>1. f \in [1 .. n -> Int] /\ Ty = {f[i] : i \in 1 .. n} /\ \A i \in 1 .. n : f[i] = B(i).hy
    BY <1>2, <1>3
  <2> HIDE DEF f
  <2> QED BY <1>1, <2>1, Extremes
<1>9. 1 \in 1 .. n
  BY <1>1
<1>10. Whole.lx <= Whole.hx /\ Whole.ly <= Whole.hy
  BY <1>2, <1>4, <1>5, <1>6, <1>7, <1>8, <1>9
<1> QED
  BY <1>1, <1>2, <1>4, <1>5, <1>6, <1>7, <1>8, <1>10 DEF B

(***************************************************************************)
(* The order of the sweep.                                                 *)
(***************************************************************************)

(* A whole interval of naturals is finite.                                 *)
LEMMA Intervals ==
  ASSUME NEW n \in Nat
  PROVE  /\ IsFiniteSet(1 .. n) /\ Cardinality(1 .. n) = n
         /\ IsFiniteSet(0 .. (n - 1)) /\ Cardinality(0 .. (n - 1)) = n
<1>1. 1 \in Int /\ 0 \in Int /\ n \in Int /\ n - 1 \in Int
  OBVIOUS
<1>2. IsFiniteSet(1 .. n) /\ Cardinality(1 .. n) = IF 1 > n THEN 0 ELSE n - 1 + 1
  BY <1>1, FS_Interval, Zenon
<1>3. IsFiniteSet(0 .. (n - 1)) /\ Cardinality(0 .. (n - 1)) = IF 0 > n - 1 THEN 0 ELSE n - 1 - 0 + 1
  BY <1>1, FS_Interval, Zenon
<1> QED
  BY <1>2, <1>3

(* The lines of a sequence, each with a left end.                          *)
Placed ==
  /\ Len(lines) \in Nat /\ DOMAIN lines = 1 .. Len(lines)
  /\ \A i \in DOMAIN lines : Box(lines[i]).lx \in Int

(* The lines that come before two lines are told apart by their number.    *)
LEMMA EarlierFacts ==
  ASSUME Placed
  PROVE  /\ \A i \in DOMAIN lines : Cardinality(Earlier(i)) \in 0 .. (Len(lines) - 1)
         /\ \A i, j \in DOMAIN lines : i # j => i \in Earlier(j) \/ j \in Earlier(i)
         /\ \A i, j \in DOMAIN lines : j \in Earlier(i) =>
              Cardinality(Earlier(j)) < Cardinality(Earlier(i))
<1> DEFINE n == Len(lines)
           D == 1 .. n
           Left(i) == Box(lines[i]).lx
<1>1. /\ n \in Nat /\ DOMAIN lines = D /\ IsFiniteSet(D) /\ Cardinality(D) = n
      /\ \A i \in D : Left(i) \in Int
  <2>1. n \in Nat /\ DOMAIN lines = D
    BY DEF Placed
  <2>2. \A i \in D : Left(i) \in Int
    BY <2>1 DEF Placed
  <2> QED BY <2>1, <2>2, Intervals
<1> HIDE DEF n, Left
<1>2. \A i \in D : Earlier(i) = {k \in D : Left(k) < Left(i) \/ (Left(k) = Left(i) /\ k < i)}
  BY <1>1 DEF Earlier, Left
<1>3. ASSUME NEW i \in D
      PROVE  IsFiniteSet(Earlier(i)) /\ Cardinality(Earlier(i)) \in 0 .. (n - 1)
  <2>1. Earlier(i) \in SUBSET (D \ {i})
    BY <1>1, <1>2
  <2>2. IsFiniteSet(D \ {i}) /\ Cardinality(D \ {i}) = n - 1
    BY <1>1, FS_RemoveElement
  <2>3. /\ IsFiniteSet(Earlier(i)) /\ Cardinality(Earlier(i)) <= n - 1
        /\ Cardinality(Earlier(i)) \in Nat
    BY <2>1, <2>2, FS_Subset, FS_CardinalityType
  <2> QED BY <1>1, <2>3
<1>4. \A i, j \in D : i # j => i \in Earlier(j) \/ j \in Earlier(i)
  BY <1>1, <1>2
<1>5. ASSUME NEW i \in D, NEW j \in D, j \in Earlier(i)
      PROVE  Cardinality(Earlier(j)) < Cardinality(Earlier(i))
  <2>1. Earlier(j) \in SUBSET Earlier(i) /\ j \notin Earlier(j)
    BY <1>1, <1>2, <1>5
  <2> QED BY <1>3, <1>5, <2>1, FS_Subset, FS_CardinalityType
<1> QED
  BY <1>1, <1>3, <1>4, <1>5 DEF n

(* Order visits every line once, by its left end.                          *)
LEMMA OrderIs ==
  ASSUME Placed
  PROVE  /\ \A k \in DOMAIN lines : Order[k] \in DOMAIN lines
         /\ \A i \in DOMAIN lines : \E k \in DOMAIN lines : Order[k] = i
         /\ \A k, m \in DOMAIN lines : k < m =>
              Order[k] # Order[m] /\ Box(lines[Order[k]]).lx <= Box(lines[Order[m]]).lx
<1> DEFINE n == Len(lines)
           D == 1 .. n
           E == 0 .. (n - 1)
           rank == [i \in D |-> Cardinality(Earlier(i))]
<1>1. /\ n \in Nat /\ DOMAIN lines = D /\ IsFiniteSet(D) /\ Cardinality(D) = n
      /\ IsFiniteSet(E) /\ Cardinality(E) = n
  <2>1. n \in Nat /\ DOMAIN lines = D
    BY DEF Placed
  <2> QED BY <2>1, Intervals
<1>2. /\ \A i \in D : Cardinality(Earlier(i)) \in E
      /\ \A i, j \in D : i # j => i \in Earlier(j) \/ j \in Earlier(i)
      /\ \A i, j \in D : j \in Earlier(i) => Cardinality(Earlier(j)) < Cardinality(Earlier(i))
      /\ \A i \in D : Box(lines[i]).lx \in Int
  BY <1>1, EarlierFacts DEF Placed
<1> HIDE DEF n
<1>3. rank \in [D -> E] /\ \A i, j \in D : rank[i] = rank[j] => i = j
  BY <1>1, <1>2
<1>4. rank \in Injection(D, E)
  BY <1>3, Fun_IsInj, Zenon
<1>5. rank \in Surjection(D, E)
  BY <1>1, <1>4, FS_Injection
<1>6. ASSUME NEW k \in D
      PROVE  Order[k] \in D /\ Cardinality(Earlier(Order[k])) = k - 1
  <2>1. k - 1 \in E
    BY <1>1
  <2>2. PICK e \in D : rank[e] = k - 1
    BY <1>5, <2>1 DEF Surjection
  <2>3. Cardinality(Earlier(e)) = k - 1
    BY <2>2
  <2>4. Order[k] = CHOOSE i \in D : Cardinality(Earlier(i)) = k - 1
    BY <1>1 DEF Order
  <2> QED BY <2>3, <2>4
<1> HIDE DEF rank
<1>7. ASSUME NEW i \in D PROVE \E k \in D : Order[k] = i
  <2> DEFINE k == Cardinality(Earlier(i)) + 1
  <2>1. k \in D /\ k - 1 = Cardinality(Earlier(i))
    BY <1>1, <1>2
  <2>2. Order[k] \in D /\ Cardinality(Earlier(Order[k])) = Cardinality(Earlier(i))
    BY <1>6, <2>1
  <2> HIDE DEF k
  <2>3. Order[k] = i
    <3>1. ~(Cardinality(Earlier(i)) < Cardinality(Earlier(i)))
      BY <1>1, <1>2
    <3> QED BY <1>2, <2>2, <3>1
  <2> QED BY <2>1, <2>3
<1>8. ASSUME NEW k \in D, NEW m \in D, k < m
      PROVE  Order[k] # Order[m] /\ Box(lines[Order[k]]).lx <= Box(lines[Order[m]]).lx
  <2>1. k - 1 < m - 1 /\ ~(m - 1 < k - 1)
    BY <1>1, <1>8
  <2>2. Order[k] \in D /\ Order[m] \in D /\ Order[k] # Order[m]
    BY <1>1, <1>6, <1>8
  <2>3. Order[m] \notin Earlier(Order[k])
    BY <1>2, <1>6, <2>1, <2>2
  <2>4. Order[k] \in Earlier(Order[m])
    BY <1>2, <2>2, <2>3
  <2> QED BY <1>1, <1>2, <2>2, <2>4 DEF Earlier
<1> QED
  BY <1>1, <1>6, <1>7, <1>8

(***************************************************************************)
(* The cells of the validator's grid.                                      *)
(***************************************************************************)

(* Division keeps the order.                                               *)
LEMMA DivKeepsOrder ==
  ASSUME NEW x \in Int, NEW y \in Int, NEW d \in Int, d > 0, x <= y
  PROVE  x \div d \in Int /\ y \div d \in Int /\ x \div d <= y \div d
OBVIOUS

(* Ranges that meet share a cell: cell_range is monotone, and clamps what  *)
(* lies past the last cell.                                                *)
LEMMA RangesShareCell ==
  ASSUME NEW l1 \in Int, NEW h1 \in Int, NEW l2 \in Int, NEW h2 \in Int,
         NEW least \in Int, NEW most \in Int, NEW scale \in Int, NEW k \in Nat,
         l1 <= h1, l2 <= h2, l1 <= h2, l2 <= h1, scale > 0
  PROVE  \E c : c \in CellRange(l1, h1, least, most, scale, k) /\ c \in CellRange(l2, h2, least, most, scale, k)
<1> DEFINE nx == Upper(1, CeilDiv((most - least) * k, scale))
           Column(v) == ((v - least) * k) \div scale
           Index(v) == Lower(Upper(Column(v), 0), nx - 1)
<1>1. /\ CellRange(l1, h1, least, most, scale, k) = Index(l1) .. Index(h1)
      /\ CellRange(l2, h2, least, most, scale, k) = Index(l2) .. Index(h2)
  BY DEF CellRange
<1>2. nx \in Int
  <2>1. (most - least) * k \in Int
    OBVIOUS
  <2> DEFINE x == (most - least) * k
  <2> HIDE DEF x
  <2>2. (x + scale - 1) \div scale \in Int
    BY <2>1, DivKeepsOrder DEF x
  <2> QED BY <2>2 DEF CeilDiv, Upper, x
<1>3. ASSUME NEW v \in Int, NEW w \in Int, v <= w
      PROVE  Column(v) \in Int /\ Column(w) \in Int /\ Column(v) <= Column(w)
  <2> DEFINE x == (v - least) * k
             y == (w - least) * k
  <2>1. x \in Int /\ y \in Int /\ x <= y
    <3>1. y - x = (w - v) * k /\ w - v \in Nat /\ x \in Int /\ y \in Int
      BY <1>3
    <3>2. (w - v) * k >= 0 /\ (w - v) * k \in Int
      BY <3>1, SignOfProduct
    <3> HIDE DEF x, y
    <3> QED BY <3>1, <3>2
  <2> HIDE DEF x, y
  <2>2. x \div scale \in Int /\ y \div scale \in Int /\ x \div scale <= y \div scale
    BY <2>1, DivKeepsOrder
  <2> QED BY <2>2 DEF x, y
<1> HIDE DEF nx, Column
<1>4. ASSUME NEW v \in Int, NEW w \in Int, v <= w
      PROVE  Index(v) \in Int /\ Index(w) \in Int /\ Index(v) <= Index(w)
  BY <1>2, <1>3, <1>4 DEF Upper, Lower
<1> HIDE DEF Index
<1>5. /\ Index(l1) \in Int /\ Index(h1) \in Int /\ Index(l2) \in Int /\ Index(h2) \in Int
      /\ Index(l1) <= Index(h1) /\ Index(l2) <= Index(h2)
      /\ Index(l1) <= Index(h2) /\ Index(l2) <= Index(h1)
  BY <1>4
<1> DEFINE c == IF Index(l1) <= Index(l2) THEN Index(l2) ELSE Index(l1)
<1>6. c \in Index(l1) .. Index(h1) /\ c \in Index(l2) .. Index(h2)
  BY <1>5
<1> QED BY <1>1, <1>6

(* The number of cells a side is at most.                                  *)
LEMMA CeilRootIs ==
  ASSUME NEW n \in Nat, n >= 1
  PROVE  CeilRoot(n) \in Nat
<1> DEFINE T == {k \in 1 .. n : k * k >= n}
<1>1. T \in SUBSET Nat /\ n \in T
  <2>1. n \in Nat /\ n \in 1 .. n /\ n - 1 \in Nat
    OBVIOUS
  <2>2. n * n = n + n * (n - 1) /\ n * (n - 1) >= 0
    BY <2>1, SignOfProduct
  <2>3. n * n >= n
    BY <2>1, <2>2
  <2> QED BY <2>1, <2>3
<1>2. PICK k \in T : \A j \in T : k <= j
  <2> HIDE DEF T
  <2> QED BY <1>1, LeastNatural
<1>3. k \in 1 .. n /\ k * k >= n
  BY <1>2
<1>4. (k - 1) * (k - 1) < n
  <2>1. CASE k = 1
    BY <2>1
  <2>2. CASE k # 1
    <3>1. k - 1 \in 1 .. n /\ k - 1 \notin T
      BY <1>2, <1>3, <2>2
    <3>2. (k - 1) * (k - 1) \in Int
      BY <1>3
    <3> QED BY <3>1, <3>2
  <2> QED BY <2>1, <2>2
<1>5. CeilRoot(n) \in 1 .. n
  BY <1>3, <1>4 DEF CeilRoot
<1> QED BY <1>5

(* Sides whose boxes meet are found in a common cell.                      *)
LEMMA CellsShared ==
  ASSUME RingInv, ~FlatBox, NEW i \in DOMAIN lines, NEW j \in DOMAIN lines,
         ~Apart(Box(lines[i]), Box(lines[j]))
  PROVE  SegCells[i] \cap SegCells[j] # {}
<1> DEFINE s == Box(lines[i])
           t == Box(lines[j])
           k == CeilRoot(Len(lines))
           Columns(u) == CellRange(u.lx, u.hx, Whole.lx, Whole.hx, Scale, k)
           Rows(u) == CellRange(u.ly, u.hy, Whole.ly, Whole.hy, Scale, k)
<1>1. SegCells[i] = Columns(s) \X Rows(s) /\ SegCells[j] = Columns(t) \X Rows(t)
  BY DEF SegCells
<1>2. k \in Nat
  BY LinesAre, CeilRootIs
<1>3. /\ Whole.lx \in Int /\ Whole.hx \in Int /\ Whole.ly \in Int /\ Whole.hy \in Int
      /\ Whole.lx <= Whole.hx /\ Whole.ly <= Whole.hy
      /\ s.lx \in Int /\ s.hx \in Int /\ s.ly \in Int /\ s.hy \in Int
      /\ t.lx \in Int /\ t.hx \in Int /\ t.ly \in Int /\ t.hy \in Int
      /\ s.lx <= s.hx /\ s.ly <= s.hy /\ t.lx <= t.hx /\ t.ly <= t.hy
  BY WholeIs
<1>4. Scale \in Int /\ Scale > 0
  BY <1>3 DEF Scale, Upper, FlatBox
<1>5. s.lx <= t.hx /\ t.lx <= s.hx /\ s.ly <= t.hy /\ t.ly <= s.hy
  BY <1>3 DEF Apart
<1> HIDE DEF s, t, k
<1>6. PICK c : c \in Columns(s) /\ c \in Columns(t)
  BY <1>2, <1>3, <1>4, <1>5, RangesShareCell
<1>7. PICK r : r \in Rows(s) /\ r \in Rows(t)
  BY <1>2, <1>3, <1>4, <1>5, RangesShareCell
<1>8. <<c, r>> \in SegCells[i] \cap SegCells[j]
  BY <1>1, <1>6, <1>7
<1> QED BY <1>8

(***************************************************************************)
(* The invariant is preserved.                                             *)
(***************************************************************************)

(* The sweep's order is that of the lines.                                 *)
LEMMA OrderStays ==
  ASSUME lines' = lines
  PROVE  Order' = Order
<1>1. \A k : Earlier(k)' = Earlier(k)
  BY Zenon DEF Earlier
<1> DEFINE C(n) == CHOOSE k \in DOMAIN lines : Cardinality(Earlier(k)) = n - 1
           P(n) == CHOOSE k \in DOMAIN lines' : Cardinality(Earlier(k)') = n - 1
<1>2. \A n : P(n) = C(n)
  <2> SUFFICES ASSUME NEW n PROVE P(n) = C(n)
    OBVIOUS
  <2>1. \A k : (k \in DOMAIN lines' /\ Cardinality(Earlier(k)') = n - 1)
                 <=> (k \in DOMAIN lines /\ Cardinality(Earlier(k)) = n - 1)
    BY <1>1, Zenon
  <2> QED BY <2>1, Zenon
<1>3. Order = [n \in DOMAIN lines |-> C(n)]
  BY Zenon DEF Order
<1>4. Order' = [n \in DOMAIN lines' |-> P(n)]
  BY Zenon DEF Order
<1> HIDE DEF C, P
<1> QED BY <1>2, <1>3, <1>4, Zenon

(* What is read off the ring stands while the ring does.                   *)
LEMMA RingStays ==
  ASSUME rings' = rings, lines' = lines, tuning' = tuning
  PROVE  /\ Ring' = Ring /\ LinesOf(rings)' = LinesOf(rings)
         /\ Found' = Found /\ FlatBox' = FlatBox /\ SomeHit' = SomeHit /\ NoHit' = NoHit
         /\ RobustIsCcw(Ring)' = RobustIsCcw(Ring) /\ Order' = Order
         /\ \A i, j : Hit(i, j)' = Hit(i, j)
<1>1. Ring' = Ring
  BY DEF Ring
<1>2. LinesOf(rings)' = LinesOf(rings)
  BY Zenon
<1>3. Found' = Found
  BY <1>1, Zenon DEF Found, FirstPinchDup
<1>4. Whole' = Whole
  BY Zenon DEF Whole
<1>5. FlatBox' = FlatBox
  BY <1>4, Zenon DEF FlatBox
<1>6. \A i, j : Hit(i, j)' = Hit(i, j)
  BY Zenon DEF Hit, RingHit
<1>7. SomeHit' = SomeHit /\ NoHit' = NoHit
  BY <1>6, Zenon DEF SomeHit, NoHit
<1>8. RobustIsCcw(Ring)' = RobustIsCcw(Ring)
  BY <1>1, Zenon
<1>9. Order' = Order
  BY OrderStays
<1> QED
  BY <1>1, <1>2, <1>3, <1>5, <1>6, <1>7, <1>8, <1>9

(* The validator starts with nothing found.                                *)
LEMMA ValidatorInit == Init => ValidatorInv
<1> SUFFICES ASSUME Init, ~tuning.gate PROVE RingInv /\ SweepInv /\ DoneInv
  BY DEF ValidatorInv
<1>1. rings \in Seq(Seq(Points) \ {<<>>})
  BY InputsAreRings DEF Init
<1>2. Len(rings) = 1 /\ pc = "ring"
  BY DEF Init
<1> QED
  BY <1>1, <1>2 DEF Init, RingInv, SweepInv, DoneInv, Searching

(* A search that answers for all pairs ends the check as DoneInv says.     *)
LEMMA WindEnds ==
  ASSUME RingInv, pc \in Searching, NEW h \in BOOLEAN, Wind(h), h => SomeHit, ~h => NoHit
  PROVE  (RingInv /\ SweepInv /\ DoneInv)'
<1>1. /\ rings' = rings /\ lines' = lines /\ tuning' = tuning /\ pc' = "done"
      /\ errors' = errors \cup (IF h THEN {"SelfIntersection"}
                                ELSE IF errors = {} /\ ~RobustIsCcw(Ring) THEN {"WrongOrientation"} ELSE {})
  BY DEF Wind, Find
<1>2. errors = Found /\ Len(Ring) >= 3 /\ ~FlatBox
  BY DEF RingInv
<1>3. /\ Ring' = Ring /\ LinesOf(rings)' = LinesOf(rings) /\ Found' = Found /\ FlatBox' = FlatBox
      /\ SomeHit' = SomeHit /\ NoHit' = NoHit /\ RobustIsCcw(Ring)' = RobustIsCcw(Ring)
  BY <1>1, RingStays
<1>4. RingInv'
  BY <1>1, <1>3 DEF RingInv, Searching
<1>5. DoneInv'
  <2>1. CASE h
    <3>1. SomeHit' /\ errors' = Found' \cup {"SelfIntersection"}
      BY <1>1, <1>2, <1>3, <2>1
    <3> QED BY <1>2, <1>3, <3>1 DEF DoneInv
  <2>2. CASE ~h
    <3>1. NoHit' /\ errors' = Found' \cup (IF Found' = {} /\ ~RobustIsCcw(Ring)' THEN {"WrongOrientation"}
                                           ELSE {})
      BY <1>1, <1>2, <1>3, <2>2
    <3> QED BY <1>2, <1>3, <3>1 DEF DoneInv
  <2> QED BY <2>1, <2>2
<1> QED BY <1>1, <1>4, <1>5 DEF SweepInv

(* The scan sets the findings the searches start from.                     *)
LEMMA ScanKeeps ==
  ASSUME RingInv, RingScan
  PROVE  (RingInv /\ SweepInv /\ DoneInv)'
<1>1. /\ rings' = rings /\ lines' = lines /\ tuning' = tuning
      /\ errors = {} /\ at' = 0 /\ active' = {}
  BY DEF RingScan, Find, RingInv
<1>2. /\ Ring' = Ring /\ LinesOf(rings)' = LinesOf(rings) /\ Found' = Found /\ FlatBox' = FlatBox
  BY <1>1, RingStays
<1>3. /\ rings' \in Seq(Seq(Points) \ {<<>>}) /\ Len(rings') = 1 /\ lines' = LinesOf(rings)'
      /\ Len(Ring) \in Nat /\ Len(lines) \in Nat
  BY <1>1, <1>2, LinesAre DEF RingInv
<1>4. CASE Len(Ring) < 3
  <2>1. pc' = "done" /\ errors' = {"TooFewPoints"}
    BY <1>1, <1>4 DEF RingScan, Find
  <2> QED BY <1>2, <1>3, <1>4, <2>1 DEF RingInv, SweepInv, DoneInv, Searching
<1>5. CASE ~(Len(Ring) < 3) /\ FlatBox
  <2>1. pc' = "done" /\ errors' = {"Degenerate"}
    BY <1>1, <1>5 DEF RingScan, Find, FlatBox
  <2> QED BY <1>2, <1>3, <1>5, <2>1 DEF RingInv, SweepInv, DoneInv, Searching
<1>6. CASE ~(Len(Ring) < 3) /\ ~FlatBox
  <2>1. errors' = Found
    BY <1>1, <1>6 DEF RingScan, Find, FlatBox, Found
  <2>2. pc' \in {"ringpairs", "seggrid", "ringsweep"}
    BY <1>6 DEF RingScan, FlatBox
  <2> QED BY <1>1, <1>2, <1>3, <1>6, <2>1, <2>2 DEF RingInv, SweepInv, DoneInv, Searching
<1> QED BY <1>4, <1>5, <1>6

(* RingPairs leaves out pairs next to each other: they are never a hit.    *)
LEMMA PairsKeeps ==
  ASSUME RingInv, RingPairs
  PROVE  (RingInv /\ SweepInv /\ DoneInv)'
<1> DEFINE h == \E i, j \in DOMAIN lines :
                  j > i + 1 /\ ~Apart(Box(lines[i]), Box(lines[j])) /\ RingHit(i, j)
<1>1. DOMAIN lines \in SUBSET Int
  BY LinesAre
<1>2. h => SomeHit
  BY DEF SomeHit, Hit
<1>3. ~h => NoHit
  <2> SUFFICES ASSUME ~h, NEW i \in DOMAIN lines, NEW j \in DOMAIN lines, i < j
               PROVE  ~Hit(i, j)
    BY DEF NoHit
  <2>1. i \in Int /\ j \in Int
    BY <1>1
  <2> QED BY <2>1 DEF Hit, RingHit
<1>4. Wind(h) /\ pc \in Searching
  BY DEF RingPairs, Searching
<1>5. h \in BOOLEAN
  OBVIOUS
<1> HIDE DEF h
<1> QED BY <1>2, <1>3, <1>4, <1>5, WindEnds

(* RingTree asks every pair.                                               *)
LEMMA TreeKeeps ==
  ASSUME RingInv, RingTree
  PROVE  (RingInv /\ SweepInv /\ DoneInv)'
<1> DEFINE h == \E i, j \in DOMAIN lines :
                  i < j /\ ~Apart(Box(lines[i]), Box(lines[j])) /\ RingHit(i, j)
<1>1. (h => SomeHit) /\ (~h => NoHit)
  BY DEF SomeHit, NoHit, Hit
<1>2. Wind(h) /\ pc \in Searching
  BY DEF RingTree, Searching
<1>3. h \in BOOLEAN
  OBVIOUS
<1> HIDE DEF h
<1> QED BY <1>1, <1>2, <1>3, WindEnds

(* SegGrid asks the pairs that share a cell, and sides that meet do.       *)
LEMMA GridKeeps ==
  ASSUME RingInv, SegGrid
  PROVE  (RingInv /\ SweepInv /\ DoneInv)'
<1> DEFINE cells == SegCells
           h == \E i, j \in DOMAIN lines :
                  /\ j < i /\ cells[i] \cap cells[j] # {}
                  /\ ~Apart(Box(lines[i]), Box(lines[j])) /\ RingHit(i, j)
<1>1. pc = "seggrid" /\ ~FlatBox
  BY DEF SegGrid, RingInv, Searching
<1>2. CASE Crowded(SegCells)
  <2>1. /\ rings' = rings /\ lines' = lines /\ tuning' = tuning
        /\ pc' = "ringtree" /\ errors' = errors
    BY <1>2 DEF SegGrid, Find
  <2>2. /\ Ring' = Ring /\ LinesOf(rings)' = LinesOf(rings) /\ Found' = Found /\ FlatBox' = FlatBox
    BY <2>1, RingStays
  <2> QED BY <1>1, <2>1, <2>2 DEF RingInv, SweepInv, DoneInv, Searching
<1>3. CASE ~Crowded(SegCells)
  <2>1. h => SomeHit
    BY DEF SomeHit, Hit
  <2>2. ~h => NoHit
    <3> SUFFICES ASSUME ~h, NEW i \in DOMAIN lines, NEW j \in DOMAIN lines, i < j
                 PROVE  ~Hit(j, i)
      BY DEF NoHit
    <3>1. ~Apart(Box(lines[j]), Box(lines[i])) => cells[j] \cap cells[i] # {}
      BY <1>1, CellsShared
    <3> HIDE DEF cells
    <3> QED BY <3>1 DEF Hit
  <2>3. Wind(h) /\ pc \in Searching
    BY <1>1, <1>3 DEF SegGrid, Searching
  <2>4. h \in BOOLEAN
    OBVIOUS
  <2> HIDE DEF h
  <2> QED BY <2>1, <2>2, <2>3, <2>4, WindEnds
<1> QED BY <1>2, <1>3

(* So are the sides of the ring.                                           *)
LEMMA RingPlaced ==
  ASSUME RingInv
  PROVE  Placed
BY LinesAre, WholeIs DEF Placed

(* A step of the sweep tests the new line against those still active; a    *)
(* line that is not ends before the new one starts.                        *)
LEMMA SweepKeeps ==
  ASSUME RingInv, SweepInv, RingSweep
  PROVE  (RingInv /\ SweepInv /\ DoneInv)'
<1> DEFINE n == Len(lines)
           j == Order[at + 1]
           H(i) == ~Apart(Box(lines[i]), Box(lines[j])) /\ RingHit(i, j)
<1>1. /\ pc = "ringsweep" /\ at < n /\ rings' = rings /\ lines' = lines /\ tuning' = tuning
      /\ errors = Found /\ Len(Ring) >= 3 /\ ~FlatBox
  BY DEF RingSweep, RingInv, Searching
<1>2. /\ Ring' = Ring /\ LinesOf(rings)' = LinesOf(rings) /\ Found' = Found /\ FlatBox' = FlatBox
      /\ SomeHit' = SomeHit /\ Order' = Order /\ \A i, k : Hit(i, k)' = Hit(i, k)
  BY <1>1, RingStays
<1>3. n \in Nat /\ DOMAIN lines = 1 .. n
  BY LinesAre
<1>4. /\ at \in 0 .. n /\ active \subseteq DOMAIN lines
      /\ \A k \in 1 .. at : \/ Order[k] \in active
                            \/ Box(lines[Order[k]]).hx < Box(lines[Order[at]]).lx
      /\ \A k, m \in 1 .. at : k < m => ~Hit(Order[k], Order[m])
  BY <1>1 DEF SweepInv
<1>5. at + 1 \in DOMAIN lines /\ j \in DOMAIN lines /\ at \in Nat
  <2>1. at + 1 \in DOMAIN lines /\ at \in Nat
    BY <1>1, <1>3, <1>4
  <2> QED BY <2>1, RingPlaced, OrderIs
<1>6. CASE Cardinality(active) > tuning.dense
  <2>1. pc' = "ringtree" /\ errors' = errors
    BY <1>6 DEF RingSweep
  <2> QED BY <1>1, <1>2, <2>1 DEF RingInv, SweepInv, DoneInv, Searching
<1>7. CASE ~(Cardinality(active) > tuning.dense) /\ \E i \in Retained(j) : H(i)
  <2>1. pc' = "done" /\ errors' = errors \cup {"SelfIntersection"}
    BY <1>7 DEF RingSweep
  <2>2. SomeHit
    BY <1>4, <1>5, <1>7 DEF SomeHit, Hit, Retained
  <2> QED BY <1>1, <1>2, <2>1, <2>2 DEF RingInv, SweepInv, DoneInv, Searching
<1>8. CASE ~(Cardinality(active) > tuning.dense) /\ ~\E i \in Retained(j) : H(i)
  <2>1. /\ active' = Retained(j) \cup {j} /\ at' = at + 1 /\ pc' = pc /\ errors' = errors
    BY <1>8 DEF RingSweep
  <2>2. Retained(j) = {p \in active : Box(lines[p]).hx >= Box(lines[j]).lx}
    BY DEF Retained
  <2>3. ASSUME NEW k \in 1 .. at
        PROVE  /\ Order[k] \in DOMAIN lines
               /\ Order[k] \in Retained(j) \/ Box(lines[Order[k]]).hx < Box(lines[j]).lx
    <3>1. k \in DOMAIN lines /\ at \in DOMAIN lines
      BY <1>3, <1>4
    <3>2. /\ Order[k] \in DOMAIN lines /\ Order[at] \in DOMAIN lines
          /\ Box(lines[Order[at]]).lx <= Box(lines[j]).lx
      <4>1. at < at + 1 /\ at + 1 \in DOMAIN lines
        BY <1>5
      <4> QED BY <1>5, <3>1, <4>1, RingPlaced, OrderIs
    <3>3. /\ Box(lines[Order[k]]).hx \in Int /\ Box(lines[Order[at]]).lx \in Int
          /\ Box(lines[j]).lx \in Int
      BY <1>5, <3>2, WholeIs
    <3>4. CASE Order[k] \in active
      BY <2>2, <3>2, <3>3, <3>4
    <3>5. CASE Box(lines[Order[k]]).hx < Box(lines[Order[at]]).lx
      BY <3>2, <3>3, <3>5
    <3> QED BY <1>4, <3>2, <3>4, <3>5
  <2>4. ASSUME NEW k \in 1 .. at PROVE ~Hit(Order[k], j)
    <3>1. CASE Order[k] \in Retained(j)
      BY <1>8, <3>1 DEF Hit
    <3>2. CASE Box(lines[Order[k]]).hx < Box(lines[j]).lx
      BY <3>2 DEF Hit, Apart
    <3> QED BY <2>3, <3>1, <3>2
  <2>5. at' \in 0 .. n /\ active' \subseteq DOMAIN lines
    BY <1>1, <1>3, <1>4, <1>5, <2>1, <2>2
  <2>6. ASSUME NEW k \in 1 .. at'
        PROVE  Order[k] \in active' \/ Box(lines[Order[k]]).hx < Box(lines[Order[at']]).lx
    <3>1. Order[at'] = j /\ (k = at + 1 \/ k \in 1 .. at)
      BY <1>5, <2>1
    <3>2. CASE k = at + 1
      BY <2>1, <3>2
    <3>3. CASE k \in 1 .. at
      BY <2>1, <2>3, <3>1, <3>3
    <3> QED BY <3>1, <3>2, <3>3
  <2>7. ASSUME NEW k \in 1 .. at', NEW m \in 1 .. at', k < m
        PROVE  ~Hit(Order[k], Order[m])
    <3>1. k \in 1 .. at /\ (m = at + 1 \/ m \in 1 .. at)
      BY <1>5, <2>1, <2>7
    <3>2. CASE m = at + 1
      BY <2>4, <3>1, <3>2
    <3>3. CASE m \in 1 .. at
      BY <1>4, <2>7, <3>1, <3>3
    <3> QED BY <3>1, <3>2, <3>3
  <2>8. RingInv'
    BY <1>1, <1>2, <2>1 DEF RingInv, Searching
  <2> HIDE DEF j
  <2>9. SweepInv'
    BY <1>1, <1>2, <2>5, <2>6, <2>7 DEF SweepInv
  <2> QED BY <1>1, <2>1, <2>8, <2>9 DEF DoneInv
<1> QED BY <1>6, <1>7, <1>8

(* Every pair of lines has been passed when the sweep ends.                *)
LEMMA SweepEndKeeps ==
  ASSUME RingInv, SweepInv, RingSweepEnds
  PROVE  (RingInv /\ SweepInv /\ DoneInv)'
<1>1. pc = "ringsweep" /\ at = Len(lines) /\ Wind(FALSE)
  BY DEF RingSweepEnds
<1>2. Len(lines) \in Nat /\ DOMAIN lines = 1 .. Len(lines)
  BY LinesAre
<1>3. \A k, m \in DOMAIN lines : k < m => ~Hit(Order[k], Order[m])
  BY <1>1, <1>2 DEF SweepInv
<1>4. NoHit
  <2> SUFFICES ASSUME NEW i \in DOMAIN lines, NEW j \in DOMAIN lines, i < j
               PROVE  ~Hit(i, j) \/ ~Hit(j, i)
    BY DEF NoHit
  <2>1. PICK k \in DOMAIN lines : Order[k] = i
    BY RingPlaced, OrderIs
  <2>2. PICK m \in DOMAIN lines : Order[m] = j
    BY RingPlaced, OrderIs
  <2>3. k < m \/ m < k
    BY <1>2, <2>1, <2>2
  <2> QED BY <1>3, <2>1, <2>2, <2>3
<1> QED BY <1>1, <1>4, WindEnds DEF Searching

(* Every step keeps the invariant: the gate's steps are not the            *)
(* validator's.                                                            *)
LEMMA ValidatorNext == ValidatorInv /\ [Next]_vars => ValidatorInv'
<1> SUFFICES ASSUME ValidatorInv, [Next]_vars, ~tuning.gate' PROVE (RingInv /\ SweepInv /\ DoneInv)'
  BY DEF ValidatorInv
<1>1. CASE UNCHANGED vars
  <2>1. /\ rings' = rings /\ lines' = lines /\ tuning' = tuning
        /\ pc' = pc /\ at' = at /\ active' = active /\ errors' = errors
    BY <1>1 DEF vars
  <2>2. /\ Ring' = Ring /\ LinesOf(rings)' = LinesOf(rings) /\ Found' = Found /\ FlatBox' = FlatBox
        /\ SomeHit' = SomeHit /\ NoHit' = NoHit /\ RobustIsCcw(Ring)' = RobustIsCcw(Ring)
        /\ Order' = Order /\ \A i, j : Hit(i, j)' = Hit(i, j)
    BY <2>1, RingStays
  <2>3. RingInv /\ SweepInv /\ DoneInv
    BY <2>1 DEF ValidatorInv
  <2>4. RingInv'
    BY <2>1, <2>2, <2>3 DEF RingInv, Searching
  <2>5. SweepInv'
    BY <2>1, <2>2, <2>3 DEF SweepInv
  <2>6. DoneInv'
    BY <2>1, <2>2, <2>3 DEF DoneInv
  <2> QED BY <2>4, <2>5, <2>6
<1>2. CASE Next
  <2>1. tuning' = tuning
    BY <1>2 DEF Next, Gate, Validator, Scan, PushLine, Finish, Pairs, EdgeSweep, EdgeSweepEnds, Grid,
                TreeChain, Verdict, RingScan, RingPairs, RingSweep, RingSweepEnds, SegGrid, RingTree,
                Wind, Find
  <2>2. RingInv /\ SweepInv /\ DoneInv
    BY <2>1 DEF ValidatorInv
  <2>3. ~Gate
    BY <2>2 DEF RingInv, Searching, Gate, Scan, PushLine, Finish, Pairs, EdgeSweep, EdgeSweepEnds,
                Grid, TreeChain
  <2>4. Validator
    BY <1>2, <2>3 DEF Next
  <2> QED
    BY <2>2, <2>4, ScanKeeps, PairsKeeps, SweepKeeps, SweepEndKeeps, GridKeeps, TreeKeeps DEF Validator
<1> QED BY <1>1, <1>2

(***************************************************************************)
(* The answer.                                                             *)
(***************************************************************************)

(* The scan finds nothing exactly when no vertex is met twice: of equal    *)
(* vertices one follows the other, or they are a pinch; the last and the   *)
(* first count as a pinch.                                                 *)
LEMMA FoundNone ==
  ASSUME RingInv, Len(Ring) >= 3
  PROVE  Found = {} <=> Distinct(Ring)
<1> DEFINE r == Ring
           n == Len(r)
           twice == \E i \in 2 .. n : r[i] = r[i - 1]
           pinch == \E i, j \in 1 .. n : j > i + 1 /\ r[i] = r[j]
<1>1. n \in Nat /\ DOMAIN r = 1 .. n
  BY LinesAre
<1>2. Found = {} <=> ~twice /\ ~pinch
  BY <1>1 DEF Found, FirstPinchDup
<1>3. Distinct(r) <=> \A i, j \in 1 .. n : i # j => r[i] # r[j]
  BY DEF Distinct
<1> HIDE DEF r, n
<1>4. ASSUME ~twice, ~pinch, NEW i \in 1 .. n, NEW j \in 1 .. n, i < j, r[i] = r[j] PROVE FALSE
  <2>1. CASE j = i + 1
    <3>1. j \in 2 .. n /\ i = j - 1
      BY <1>1, <2>1
    <3> QED BY <1>4, <3>1
  <2>2. CASE j # i + 1
    <3>1. j > i + 1
      BY <1>1, <1>4, <2>2
    <3> QED BY <1>4, <3>1
  <2> QED BY <2>1, <2>2
<1>5. ASSUME \A i, j \in 1 .. n : i # j => r[i] # r[j] PROVE ~twice /\ ~pinch
  <2>1. \A i \in 2 .. n : i \in 1 .. n /\ i - 1 \in 1 .. n /\ i # i - 1
    BY <1>1
  <2>2. \A i, j \in 1 .. n : j > i + 1 => i # j
    BY <1>1
  <2> QED BY <1>5, <2>1, <2>2
<1>6. (~twice /\ ~pinch) <=> \A i, j \in 1 .. n : i # j => r[i] # r[j]
  <2>1. ASSUME ~twice, ~pinch, NEW i \in 1 .. n, NEW j \in 1 .. n, i # j PROVE r[i] # r[j]
    <3>1. i < j \/ j < i
      BY <1>1, <2>1
    <3> QED BY <1>4, <2>1, <3>1
  <2> QED BY <1>5, <2>1
<1> QED BY <1>2, <1>3, <1>6 DEF r

(* The sum over the sides of a triangle.                                   *)
LEMMA TriangleSum ==
  ASSUME NEW r \in Seq(Points), Len(r) = 3
  PROVE  ShoelaceSum(r) = Orient(r[1], r[2], r[3])
<1> DEFINE t(i) == r[i][1] * After(r, i)[2] - After(r, i)[1] * r[i][2]
           seq == [i \in DOMAIN r |-> i]
           D == {1, 2, 3}
           Iter(it) == it = [s \in SUBSET D |->
                               IF s = {} THEN 0
                               ELSE it[s \ {Max(s)}] + r[seq[Max(s)]][1] * After(r, seq[Max(s)])[2]
                                      - After(r, seq[Max(s)])[1] * r[seq[Max(s)]][2]]
           u(i, s) == IF i \in s THEN t(i) ELSE 0
           w == [s \in SUBSET D |-> u(1, s) + u(2, s) + u(3, s)]
<1>1. DOMAIN r = D /\ DOMAIN seq = D /\ \A i \in D : seq[i] = i
  OBVIOUS
<1>2. ShoelaceSum(r) = (CHOOSE it : Iter(it))[D]
  BY <1>1 DEF ShoelaceSum, FoldLeft, MapThenFoldSet
<1>3. /\ r[1] \in Points /\ r[2] \in Points /\ r[3] \in Points
      /\ After(r, 1) = r[2] /\ After(r, 2) = r[3] /\ After(r, 3) = r[1]
  <2>1. 1 \in 1 .. Len(r) /\ 2 \in 1 .. Len(r) /\ 3 \in 1 .. Len(r)
    OBVIOUS
  <2>2. Suc(r, 1) = 2 /\ Suc(r, 2) = 3 /\ Suc(r, 3) = 1
    BY DEF Suc
  <2> QED BY <2>1, <2>2, RingFacts
<1> DEFINE a == r[1][1]  b == r[1][2]  c == r[2][1]  d == r[2][2]  e == r[3][1]  f == r[3][2]
<1>4. /\ a \in Int /\ b \in Int /\ c \in Int /\ d \in Int /\ e \in Int /\ f \in Int
      /\ t(1) = a * d - c * b /\ t(2) = c * f - e * d /\ t(3) = e * b - a * f
      /\ Orient(r[1], r[2], r[3]) = (c - a) * (f - b) - (d - b) * (e - a)
  BY <1>3, Points2 DEF Orient
<1>5. /\ Orient(r[1], r[2], r[3]) = t(1) + t(2) + t(3)
      /\ t(1) \in Int /\ t(2) \in Int /\ t(3) \in Int
  <2> HIDE DEF a, b, c, d, e, f, t
  <2> QED BY <1>4
<1>6. ASSUME NEW s \in SUBSET D, s # {}
      PROVE  Max(s) = IF 3 \in s THEN 3 ELSE IF 2 \in s THEN 2 ELSE 1
  <2> DEFINE m == IF 3 \in s THEN 3 ELSE IF 2 \in s THEN 2 ELSE 1
  <2>1. m \in s /\ \A y \in s : m >= y
    <3>1. PICK x \in s : x = 1 \/ x = 2 \/ x = 3
      BY <1>6
    <3>2. \A y \in s : y = 1 \/ y = 2 \/ y = 3
      OBVIOUS
    <3>3. m \in s
      BY <3>1
    <3> QED BY <3>2, <3>3
  <2>2. \A x \in s : (\A y \in s : x >= y) => x = m
    <3>1. ASSUME NEW x \in s, \A y \in s : x >= y PROVE x = m
      <4>1. x >= m /\ m >= x /\ x \in Int /\ m \in Int
        BY <2>1, <3>1
      <4> QED BY <4>1
    <3> QED BY <3>1
  <2> HIDE DEF m
  <2> QED BY <2>1, <2>2, Zenon DEF Max, m
<1>7. ASSUME NEW i \in D
      PROVE  \A v \in Int : v + r[seq[i]][1] * After(r, seq[i])[2] - After(r, seq[i])[1] * r[seq[i]][2]
                              = v + t(i)
  <2> SUFFICES ASSUME NEW v \in Int
               PROVE  v + r[i][1] * After(r, i)[2] - After(r, i)[1] * r[i][2] = v + t(i)
    BY <1>1
  <2> DEFINE p == r[i][1] * After(r, i)[2]
             q == After(r, i)[1] * r[i][2]
  <2>1. p \in Int /\ q \in Int
    <3>1. r[i] \in Points /\ After(r, i) \in Points
      BY <1>3
    <3>2. r[i][1] \in Int /\ r[i][2] \in Int /\ After(r, i)[1] \in Int /\ After(r, i)[2] \in Int
      BY <3>1, Points2
    <3> DEFINE g == r[i][1]  h == r[i][2]  k == After(r, i)[1]  l == After(r, i)[2]
    <3>3. p = g * l /\ q = k * h
      OBVIOUS
    <3> HIDE DEF g, h, k, l, p, q
    <3>4. g \in Int /\ h \in Int /\ k \in Int /\ l \in Int
      BY <3>2 DEF g, h, k, l
    <3> QED BY <3>3, <3>4
  <2>2. t(i) = p - q
    OBVIOUS
  <2> HIDE DEF p, q, t
  <2>3. v + p - q = v + t(i)
    BY <2>1, <2>2
  <2> QED BY <2>3 DEF p, q
<1> HIDE DEF t
<1>8. \A s \in SUBSET D : w[s] = u(1, s) + u(2, s) + u(3, s) /\ w[s] \in Int
  BY <1>5
<1>9. \A s \in SUBSET D : s # {} => Max(s) \in s /\ w[s] = w[s \ {Max(s)}] + t(Max(s))
  <2> SUFFICES ASSUME NEW s \in SUBSET D, s # {} PROVE Max(s) \in s /\ w[s] = w[s \ {Max(s)}] + t(Max(s))
    OBVIOUS
  <2> HIDE DEF w
  <2>1. CASE 3 \in s
    <3>1. Max(s) = 3 /\ s \ {3} \in SUBSET D
      BY <1>6, <2>1
    <3>2. w[s \ {3}] = u(1, s) + u(2, s) + 0 /\ w[s] = u(1, s) + u(2, s) + t(3)
      BY <1>8, <2>1, <3>1
    <3> QED BY <1>5, <2>1, <3>1, <3>2
  <2>2. CASE 3 \notin s /\ 2 \in s
    <3>1. Max(s) = 2 /\ s \ {2} \in SUBSET D
      BY <1>6, <2>2
    <3>2. w[s \ {2}] = u(1, s) + 0 + 0 /\ w[s] = u(1, s) + t(2) + 0
      BY <1>8, <2>2, <3>1
    <3> QED BY <1>5, <2>2, <3>1, <3>2
  <2>3. CASE 3 \notin s /\ 2 \notin s
    <3>1. s = {1} /\ Max(s) = 1 /\ s \ {1} = {}
      BY <1>6, <2>3
    <3>2. {} \in SUBSET D /\ {1} \in SUBSET D
      OBVIOUS
    <3>3. w[{}] = 0 + 0 + 0
      BY <1>8, <3>2
    <3>4. w[{1}] = t(1) + 0 + 0
      BY <1>8, <3>2
    <3>5. w[{1}] = w[{}] + t(1)
      BY <1>5, <3>3, <3>4
    <3> QED BY <3>1, <3>5
  <2> QED BY <2>1, <2>2, <2>3
<1>10. Iter(w)
  <2> DEFINE term(s) == IF s = {} THEN 0
                        ELSE w[s \ {Max(s)}] + r[seq[Max(s)]][1] * After(r, seq[Max(s)])[2]
                               - After(r, seq[Max(s)])[1] * r[seq[Max(s)]][2]
             step == [s \in SUBSET D |-> term(s)]
  <2>1. ASSUME NEW s \in SUBSET D PROVE w[s] = term(s)
    <3>1. CASE s = {}
      BY <1>8, <3>1
    <3>2. CASE s # {}
      <4> DEFINE m == Max(s)
      <4>1. m \in D /\ s \ {m} \in SUBSET D /\ w[s] = w[s \ {m}] + t(m)
        BY <1>9, <3>2
      <4>2. term(s) = w[s \ {m}] + r[seq[m]][1] * After(r, seq[m])[2] - After(r, seq[m])[1] * r[seq[m]][2]
        BY <3>2, Zenon
      <4> HIDE DEF m, w, seq, term
      <4>3. w[s \ {m}] \in Int
        BY <1>8, <4>1
      <4> QED BY <1>7, <4>1, <4>2, <4>3, Zenon
    <3> QED BY <3>1, <3>2
  <2> HIDE DEF term, u
  <2>2. w = [s \in SUBSET D |-> w[s]]
    BY Zenon DEF w
  <2> HIDE DEF w
  <2>3. w = step
    BY <2>1, <2>2, Zenon
  <2> QED BY <2>3, Zenon DEF term
<1> HIDE DEF w
<1>11. Iter(CHOOSE it : Iter(it))
  <2> HIDE DEF Iter
  <2> QED BY <1>10, Zenon
<1> DEFINE it == CHOOSE it : Iter(it)
<1>12. it[{}] = 0
  BY <1>11
<1>13. ASSUME NEW s \in SUBSET D, s # {}, NEW m \in D, Max(s) = m, it[s \ {m}] \in Int
       PROVE  it[s] = it[s \ {m}] + t(m)
  <2>1. it[s] = it[s \ {m}] + r[seq[m]][1] * After(r, seq[m])[2] - After(r, seq[m])[1] * r[seq[m]][2]
    BY <1>11, <1>13
  <2> HIDE DEF it, seq
  <2> QED BY <1>7, <1>13, <2>1, Zenon
<1> HIDE DEF it
<1>14. it[{1}] = t(1)
  <2>1. {1} \in SUBSET D /\ {1} # {} /\ 1 \in D /\ {1} \ {1} = {} /\ Max({1}) = 1 /\ 0 \in Int
    BY <1>6
  <2>2. it[{1}] = 0 + t(1)
    BY <1>12, <1>13, <2>1, Zenon
  <2> QED BY <1>5, <2>2
<1>15. it[{1, 2}] = t(1) + t(2)
  <2>1. {1, 2} \in SUBSET D /\ {1, 2} # {} /\ 2 \in D /\ {1, 2} \ {2} = {1} /\ Max({1, 2}) = 2
    BY <1>6
  <2> QED BY <1>5, <1>13, <1>14, <2>1, Zenon
<1>16. it[D] = t(1) + t(2) + t(3)
  <2>1. D \in SUBSET D /\ D # {} /\ 3 \in D /\ D \ {3} = {1, 2} /\ Max(D) = 3
    BY <1>6
  <2>2. it[{1, 2}] \in Int
    BY <1>5, <1>15
  <2> QED BY <1>13, <1>15, <2>1, <2>2, Zenon
<1> QED BY <1>2, <1>5, <1>16 DEF it

(* A triangle folded flat has no turn to the left at any corner and no     *)
(* area.                                                                   *)
LEMMA FlatTriangle ==
  ASSUME NEW r \in Seq(Points), Len(r) = 3, Orient(r[1], r[2], r[3]) = 0
  PROVE  ~RobustIsCcw(r)
<1> DEFINE m == MinXVertex(r)
           Least(i) == \A j \in 1 .. Len(r) : \/ r[i][1] < r[j][1]
                                              \/ r[i][1] = r[j][1] /\ r[i][2] <= r[j][2]
           First(i) == Least(i) /\ \A j \in 1 .. (i - 1) : ~Least(j)
<1>1. r[1] \in Points /\ r[2] \in Points /\ r[3] \in Points
  OBVIOUS
<1>2. \A i \in 1 .. 3 : After(r, i) = r[IF i = 3 THEN 1 ELSE i + 1]
  <2> SUFFICES ASSUME NEW i \in 1 .. 3 PROVE After(r, i) = r[IF i = 3 THEN 1 ELSE i + 1]
    OBVIOUS
  <2>1. After(r, i) = r[Suc(r, i)]
    BY RingFacts
  <2>2. Suc(r, i) = IF i = 3 THEN 1 ELSE i + 1
    BY DEF Suc
  <2> QED BY <2>1, <2>2
<1>3. m \in {1, 2, 3}
  <2>1. /\ r[1][1] \in Int /\ r[2][1] \in Int /\ r[3][1] \in Int
        /\ r[1][2] \in Int /\ r[2][2] \in Int /\ r[3][2] \in Int
    BY <1>1, Points2
  <2>2. 1 .. Len(r) = {1, 2, 3}
    OBVIOUS
  <2>3. Least(1) \/ Least(2) \/ Least(3)
    BY <2>1, <2>2
  <2>4. 1 .. (1 - 1) = {} /\ 1 .. (2 - 1) = {1} /\ 1 .. (3 - 1) = {1, 2}
    OBVIOUS
  <2>5. m = CHOOSE i \in 1 .. Len(r) : First(i)
    BY Zenon DEF MinXVertex
  <2> HIDE DEF Least, m
  <2>6. First(1) \/ First(2) \/ First(3)
    BY <2>3, <2>4
  <2> HIDE DEF First
  <2>7. \E i \in 1 .. Len(r) : First(i)
    BY <2>2, <2>6
  <2> QED BY <2>2, <2>5, <2>7
<1>4. Orient(r[IF m = 1 THEN Len(r) ELSE m - 1], r[m], After(r, m)) = 0
  <2> HIDE DEF m
  <2>1. CASE m = 1
    BY <1>1, <1>2, <2>1, OrientIs
  <2>2. CASE m = 2
    BY <1>2, <2>2
  <2>3. CASE m = 3
    BY <1>1, <1>2, <2>3, OrientIs
  <2> QED BY <1>3, <2>1, <2>2, <2>3
<1>5. ShoelaceSum(r) = 0
  BY TriangleSum
<1> QED BY <1>4, <1>5 DEF RobustIsCcw

(* A simple curve is not flat.                                             *)
LEMMA SimpleHasWidth ==
  ASSUME RingInv, Simple(Ring)
  PROVE  Len(Ring) >= 3 /\ ~FlatBox
<1> DEFINE n == Len(Ring)
<1>1. n \in Nat /\ n >= 3 /\ Ring \in Seq(Points) /\ DOMAIN lines = 1 .. n
  BY LinesAre, SimpleIs
<1> HIDE DEF n
<1>2. ASSUME NEW i \in 1 .. n
      PROVE  LET s == Box(lines[i]) IN
             /\ Ring[i][1] \in Int /\ Ring[i][2] \in Int
             /\ Whole.lx <= Ring[i][1] /\ Ring[i][1] <= Whole.hx
             /\ Whole.ly <= Ring[i][2] /\ Ring[i][2] <= Whole.hy
  <2> DEFINE s == Box(lines[i])
             e == EdgeOf(Ring, i)
  <2>1. s = Box(e) /\ e \in Lines /\ e.a = Ring[i] /\ Ring[i] \in Points
    <3>1. e \in Lines /\ e.a = Ring[i] /\ Ring[i] \in Points
      BY <1>1, RingFacts DEF n
    <3> QED BY <3>1, LinesAre DEF n
  <2>2. /\ s.lx \in Int /\ s.hx \in Int /\ s.ly \in Int /\ s.hy \in Int
        /\ Whole.lx <= s.lx /\ s.hx <= Whole.hx /\ Whole.ly <= s.ly /\ s.hy <= Whole.hy
        /\ Whole.lx \in Int /\ Whole.hx \in Int /\ Whole.ly \in Int /\ Whole.hy \in Int
    BY <1>1, WholeIs
  <2>3. /\ s.lx <= Ring[i][1] /\ Ring[i][1] <= s.hx /\ s.ly <= Ring[i][2] /\ Ring[i][2] <= s.hy
        /\ Ring[i][1] \in Int /\ Ring[i][2] \in Int
    <3>1. s.lx <= e.a[1] /\ e.a[1] <= s.hx /\ s.ly <= e.a[2] /\ e.a[2] <= s.hy
      BY <2>1, BoxIs, Zenon
    <3>2. Ring[i][1] \in Int /\ Ring[i][2] \in Int
      BY <2>1, Points2
    <3> QED BY <2>1, <3>1, <3>2
  <2> HIDE DEF s, e
  <2> QED BY <2>2, <2>3
<1>3. 1 \in 1 .. n
  BY <1>1
<1>4. Whole.lx \in Int /\ Whole.hx \in Int /\ Whole.ly \in Int /\ Whole.hy \in Int
  BY WholeIs
<1>5. Whole.lx # Whole.hx
  <2> SUFFICES ASSUME Whole.lx = Whole.hx PROVE FALSE
    OBVIOUS
  <2>1. \A i \in 1 .. n : Ring[i][1] = Ring[1][1]
    BY <1>2, <1>3, <1>4
  <2> QED BY <1>1, <2>1, SimpleNotFlat DEF n
<1>6. Whole.ly # Whole.hy
  <2> SUFFICES ASSUME Whole.ly = Whole.hy PROVE FALSE
    OBVIOUS
  <2>1. \A i \in 1 .. n : Ring[i][2] = Ring[1][2]
    BY <1>2, <1>3, <1>4
  <2> QED BY <1>1, <2>1, SimpleNotFlat DEF n
<1> QED BY <1>1, <1>5, <1>6 DEF FlatBox, n

(* What the answer for all pairs says of the ring.                         *)
LEMMA AnswerIsExact ==
  ASSUME RingInv, DoneInv, pc = "done"
  PROVE  (errors = {} => Simple(Ring)) /\ (Simple(Ring) => errors \subseteq {"WrongOrientation"})
<1>1. /\ Ring \in Seq(Points) /\ DOMAIN lines = 1 .. Len(Ring)
      /\ \A i, j \in 1 .. Len(Ring) : Hit(i, j) <=> SidesHit(Ring, i, j)
  BY LinesAre
<1>2. ASSUME errors = {} PROVE Simple(Ring)
  <2>1. /\ Len(Ring) >= 3 /\ NoHit
        /\ errors = Found \cup (IF Found = {} /\ ~RobustIsCcw(Ring) THEN {"WrongOrientation"} ELSE {})
    BY <1>2 DEF DoneInv
  <2>2. Found = {} /\ RobustIsCcw(Ring)
    BY <1>2, <2>1
  <2>3. Distinct(Ring)
    BY <2>1, <2>2, FoundNone
  <2>4. Unhit(Ring)
    BY <1>1, <2>1 DEF NoHit, Unhit
  <2> QED BY <1>1, <2>1, <2>2, <2>3, <2>4, UnhitIsSimple, FlatTriangle
<1>3. ASSUME Simple(Ring) PROVE errors \subseteq {"WrongOrientation"}
  <2>1. Len(Ring) >= 3 /\ ~FlatBox
    BY <1>3, SimpleHasWidth
  <2>2. Found = {}
    BY <1>1, <1>3, <2>1, FoundNone, SimpleDistinct
  <2>3. ~SomeHit
    BY <1>1, <1>3, SimpleMisses DEF SomeHit
  <2>4. ~(Len(Ring) < 3)
    BY <2>1, LinesAre
  <2> QED BY <2>1, <2>2, <2>3, <2>4 DEF DoneInv
<1> QED BY <1>2, <1>3

(* Whatever the thresholds, and so whichever search the ring is given to,  *)
(* the validator's check of a shell passes only simple closed curves and   *)
(* has nothing but the winding against one.  check_ring_validity and       *)
(* sweep_ring_self_intersects.                                             *)
THEOREM ValidatorIsExact == Spec => []ValidatorExact
<1>1. Spec => []ValidatorInv
  <2>1. ValidatorInv /\ [Next]_vars => ValidatorInv'
    BY ValidatorNext
  <2> QED BY ValidatorInit, <2>1, PTL DEF Spec
<1>2. ValidatorInv => ValidatorExact
  <2> SUFFICES ASSUME ValidatorInv, pc = "done", ~tuning.gate
               PROVE  (errors = {} => Simple(Ring)) /\ (Simple(Ring) => errors \subseteq {"WrongOrientation"})
    BY DEF ValidatorExact
  <2>1. RingInv /\ DoneInv
    BY DEF ValidatorInv
  <2> QED BY <2>1, AnswerIsExact
<1> QED BY <1>1, <1>2, PTL

(***************************************************************************)
(* The gate's searches against the pairwise scan, for every sequence of    *)
(* rings and every setting of the thresholds that choose the search.       *)
(***************************************************************************)
Drawing == [a : Points, b : Points, starts : BOOLEAN]

SidesOf(r) == [i \in DOMAIN r |-> [a |-> r[i], b |-> After(r, i), starts |-> i = 1]]

(* Lines that go on from each other wherever no ring starts.               *)
Drawn(ls) ==
  /\ ls \in Seq(Drawing)
  /\ \A k \in 2 .. Len(ls) : ~ls[k].starts => ls[k].a = ls[k - 1].b

(***************************************************************************)
(* The lines of several rings.                                             *)
(***************************************************************************)

(* The sides of a ring are drawn in one go.                                *)
LEMMA SidesDrawn ==
  ASSUME NEW r \in Seq(Points) \ {<<>>}
  PROVE  Drawn(SidesOf(r)) /\ Len(SidesOf(r)) >= 1 /\ SidesOf(r)[1].starts
<1> DEFINE n == Len(r)
           f(i) == [a |-> r[i], b |-> After(r, i), starts |-> i = 1]
           ls == SidesOf(r)
<1>1. n \in Nat /\ n >= 1 /\ ls = [i \in 1 .. n |-> f(i)]
  BY DEF SidesOf
<1>2. \A i \in 1 .. n : f(i) \in Drawing
  <2> SUFFICES ASSUME NEW i \in 1 .. n PROVE f(i) \in Drawing
    OBVIOUS
  <2>1. r[i] \in Points /\ After(r, i) \in Points
    BY RingFacts
  <2> QED BY <2>1 DEF Drawing
<1>3. \A i \in 2 .. n : f(i).a = f(i - 1).b
  <2> SUFFICES ASSUME NEW i \in 2 .. n PROVE r[i] = After(r, i - 1)
    OBVIOUS
  <2>1. i - 1 \in 1 .. n /\ i - 1 # n /\ i - 1 + 1 = i
    BY <1>1
  <2>2. After(r, i - 1) = r[Suc(r, i - 1)]
    BY <2>1, RingFacts
  <2>3. Suc(r, i - 1) = i
    BY <2>1 DEF Suc
  <2> QED BY <2>2, <2>3
<1>4. f(1).starts
  OBVIOUS
<1> HIDE DEF n, f, ls
<1>5. ls \in Seq(Drawing) /\ Len(ls) = n
  BY <1>1, <1>2
<1>6. \A i \in 2 .. n : ls[i].a = ls[i - 1].b
  BY <1>1, <1>3
<1>7. ls[1].starts
  BY <1>1, <1>4
<1> QED BY <1>1, <1>5, <1>6, <1>7 DEF Drawn, ls

(* So are the sides of one ring after those of others.                     *)
LEMMA JoinDrawn ==
  ASSUME NEW u, NEW v, Drawn(u), Drawn(v), Len(v) >= 1, v[1].starts
  PROVE  Drawn(u \o v) /\ Len(u \o v) >= 1
<1> DEFINE m == Len(u)
           n == Len(v)
           w == u \o v
<1>1. u \in Seq(Drawing) /\ v \in Seq(Drawing) /\ m \in Nat /\ n \in Nat /\ n >= 1
  BY DEF Drawn
<1>2. w \in Seq(Drawing) /\ Len(w) = m + n
  BY <1>1
<1>3. /\ \A k \in 1 .. m : w[k] = u[k]
      /\ \A k \in (m + 1) .. (m + n) : w[k] = v[k - m]
  BY <1>1
<1>4. /\ \A k \in 2 .. m : ~u[k].starts => u[k].a = u[k - 1].b
      /\ \A k \in 2 .. n : ~v[k].starts => v[k].a = v[k - 1].b
  BY DEF Drawn
<1> HIDE DEF m, n, w
<1>5. ASSUME NEW k \in 2 .. (m + n), ~w[k].starts PROVE w[k].a = w[k - 1].b
  <2>1. CASE k \in 2 .. m
    <3>1. k \in 1 .. m /\ k - 1 \in 1 .. m
      BY <1>1, <2>1
    <3> QED BY <1>3, <1>4, <1>5, <2>1, <3>1
  <2>2. CASE k = m + 1
    <3>1. k \in (m + 1) .. (m + n) /\ k - m = 1
      BY <1>1, <2>2
    <3> QED BY <1>3, <1>5, <3>1
  <2>3. CASE k > m + 1
    <3>1. /\ k \in (m + 1) .. (m + n) /\ k - 1 \in (m + 1) .. (m + n)
          /\ k - m \in 2 .. n /\ k - 1 - m = k - m - 1
      BY <1>1, <2>3
    <3> QED BY <1>3, <1>4, <1>5, <3>1
  <2> QED BY <1>1, <2>1, <2>2, <2>3
<1> QED BY <1>1, <1>2, <1>5 DEF Drawn, w

(* The greatest of a set of naturals up to m + 1 that holds m + 1.         *)
LEMMA GreatestIs ==
  ASSUME NEW m \in Nat, NEW s \in SUBSET (1 .. m), m \in s
  PROVE  Max(s) = m
<1>1. \A y \in s : m >= y
  OBVIOUS
<1>2. \A x \in s : (\A y \in s : x >= y) => x = m
  <2> SUFFICES ASSUME NEW x \in s, \A y \in s : x >= y PROVE x = m
    OBVIOUS
  <2>1. x >= m /\ m >= x /\ x \in Int
    OBVIOUS
  <2> QED BY <2>1
<1> QED BY <1>1, <1>2, Zenon DEF Max

(* LinesOf gathers the sides of all rings.                                 *)
LEMMA LinesDrawn ==
  ASSUME NEW rs \in Seq(Seq(Points) \ {<<>>}), rs # <<>>
  PROVE  Drawn(LinesOf(rs)) /\ Len(LinesOf(rs)) >= 1
<1> DEFINE n == Len(rs)
           part(it, s) == IF s = {} THEN <<>> ELSE it[s \ {Max(s)}] \o SidesOf(rs[Max(s)])
           Iter(it, m) == it = [s \in SUBSET (1 .. m) |-> part(it, s)]
<1>1. n \in Nat /\ n >= 1 /\ DOMAIN rs = 1 .. n /\ \A i \in 1 .. n : rs[i] \in Seq(Points) \ {<<>>}
  OBVIOUS
<1>2. LinesOf(rs) = (CHOOSE it : Iter(it, n))[1 .. n]
  <2>1. DOMAIN rs = 1 .. n
    BY <1>1
  <2> QED BY <2>1 DEF LinesOf, FoldLeft, MapThenFoldSet, SidesOf
<1> HIDE DEF n
<1>3. \A m \in 0 .. n : \E it : Iter(it, m)
  <2> DEFINE T == {m \in 0 .. n : ~\E it : Iter(it, m)}
  <2> SUFFICES ASSUME NEW k \in T PROVE FALSE
    OBVIOUS
  <2>1. T \in SUBSET (0 .. n) /\ T \in SUBSET Nat
    <3>1. \A m \in 0 .. n : m \in Nat
      BY <1>1
    <3> QED BY <3>1, Zenon
  <2>2. PICK m \in T : \A i \in T : m <= i
    <3> HIDE DEF T
    <3> QED BY <2>1, LeastNatural
  <2>3. CASE m = 0
    <3> DEFINE it == [s \in SUBSET (1 .. 0) |-> <<>>]
    <3>1. \A s \in SUBSET (1 .. 0) : s = {}
      OBVIOUS
    <3>2. \A s \in SUBSET (1 .. 0) : part(it, s) = <<>>
      BY <3>1
    <3> HIDE DEF part
    <3>3. it = [s \in SUBSET (1 .. 0) |-> part(it, s)]
      BY <3>2
    <3> QED BY <2>2, <2>3, <3>3
  <2>4. CASE m # 0
    <3>1. m \in Nat /\ m - 1 \in 0 .. n /\ m - 1 \notin T
      <4> HIDE DEF T
      <4> QED BY <1>1, <2>1, <2>2, <2>4
    <3>2. PICK f : Iter(f, m - 1)
      <4>1. \E f : Iter(f, m - 1)
        BY <3>1, Zenon
      <4> QED BY <4>1, Zenon
    <3> DEFINE g == [s \in SUBSET (1 .. m) |->
                       IF m \in s THEN f[s \ {m}] \o SidesOf(rs[m]) ELSE f[s]]
    <3>3. ASSUME NEW s \in SUBSET (1 .. m), m \notin s
          PROVE  s \in SUBSET (1 .. (m - 1)) /\ g[s] = f[s]
      BY <3>1, <3>3
    <3>4. ASSUME NEW s \in SUBSET (1 .. m) PROVE g[s] = part(g, s)
      <4>1. CASE m \in s
        <5>1. Max(s) = m /\ s # {}
          BY <3>1, <4>1, GreatestIs
        <5>2. s \ {m} \in SUBSET (1 .. m) /\ m \notin s \ {m}
          OBVIOUS
        <5>3. g[s \ {m}] = f[s \ {m}]
          BY <3>3, <5>2
        <5> HIDE DEF g
        <5>4. part(g, s) = f[s \ {m}] \o SidesOf(rs[m])
          BY <5>1, <5>3
        <5> QED BY <4>1, <5>4 DEF g
      <4>2. CASE m \notin s
        <5>1. s \in SUBSET (1 .. (m - 1)) /\ g[s] = f[s]
          BY <3>3, <4>2
        <5>2. f[s] = part(f, s)
          <6>1. f = [r \in SUBSET (1 .. (m - 1)) |-> part(f, r)]
            BY <3>2
          <6> HIDE DEF part
          <6> QED BY <5>1, <6>1
        <5>3. CASE s = {}
          BY <5>1, <5>2, <5>3
        <5>4. CASE s # {}
          <6>1. s \ {Max(s)} \in SUBSET (1 .. m) /\ m \notin s \ {Max(s)}
            BY <4>2
          <6>2. g[s \ {Max(s)}] = f[s \ {Max(s)}]
            BY <3>3, <6>1
          <6> HIDE DEF g
          <6> QED BY <5>1, <5>2, <5>4, <6>2
        <5> QED BY <5>3, <5>4
      <4> QED BY <4>1, <4>2
    <3>5. g = [s \in SUBSET (1 .. m) |-> g[s]]
      BY Zenon DEF g
    <3> HIDE DEF g, part
    <3>6. Iter(g, m)
      BY <3>4, <3>5, Zenon
    <3> QED BY <2>2, <3>6
  <2> QED BY <2>3, <2>4
<1> DEFINE it == CHOOSE it : Iter(it, n)
<1>4. Iter(it, n)
  <2>1. n \in 0 .. n
    BY <1>1
  <2> HIDE DEF Iter
  <2> QED BY <1>3, <2>1, Zenon
<1>5. \A s \in SUBSET (1 .. n) : it[s] = part(it, s)
  <2> HIDE DEF it, part
  <2> QED BY <1>4, Zenon
<1> HIDE DEF it
<1>6. \A m \in 0 .. n : Drawn(it[1 .. m]) /\ (m # 0 => Len(it[1 .. m]) >= 1)
  <2> DEFINE T == {m \in 0 .. n : ~(Drawn(it[1 .. m]) /\ (m # 0 => Len(it[1 .. m]) >= 1))}
  <2> SUFFICES ASSUME NEW least \in T PROVE FALSE
    OBVIOUS
  <2>1. T \in SUBSET (0 .. n) /\ T \in SUBSET Nat
    <3>1. \A m \in 0 .. n : m \in Nat
      BY <1>1
    <3> QED BY <3>1, Zenon
  <2>2. PICK m \in T : \A i \in T : m <= i
    <3> HIDE DEF T
    <3> QED BY <2>1, LeastNatural
  <2>3. CASE m = 0
    <3>1. 1 .. m = {} /\ {} \in SUBSET (1 .. n)
      BY <2>3
    <3>2. it[1 .. m] = <<>>
      BY <1>5, <3>1
    <3>3. Drawn(<<>>)
      BY DEF Drawn
    <3> QED BY <2>2, <2>3, <3>2, <3>3
  <2>4. CASE m # 0
    <3>1. m \in Nat /\ m \in 1 .. n /\ m - 1 \in 0 .. n /\ m - 1 \notin T
      <4> HIDE DEF T
      <4> QED BY <1>1, <2>1, <2>2, <2>4
    <3>2. Drawn(it[1 .. (m - 1)])
      BY <3>1
    <3>3. /\ 1 .. m \in SUBSET (1 .. n) /\ 1 .. m # {} /\ m \in 1 .. m
          /\ (1 .. m) \ {m} = 1 .. (m - 1)
      <4>1. m \in 1 .. m /\ \A k \in 1 .. m : k \in 1 .. n
        BY <1>1, <3>1
      <4>2. \A k : k \in (1 .. m) \ {m} <=> k \in 1 .. (m - 1)
        BY <3>1
      <4>3. (1 .. m) \ {m} = 1 .. (m - 1)
        BY <4>2, Zenon
      <4> QED BY <4>1, <4>3, Zenon
    <3>4. Max(1 .. m) = m
      BY <3>1, <3>3, GreatestIs
    <3>5. it[1 .. m] = it[1 .. (m - 1)] \o SidesOf(rs[m])
      BY <1>5, <3>3, <3>4
    <3>6. Drawn(SidesOf(rs[m])) /\ Len(SidesOf(rs[m])) >= 1 /\ SidesOf(rs[m])[1].starts
      BY <1>1, <3>1, SidesDrawn
    <3>7. Drawn(it[1 .. m]) /\ Len(it[1 .. m]) >= 1
      BY <3>2, <3>5, <3>6, JoinDrawn
    <3> QED BY <2>2, <3>7
  <2> QED BY <2>3, <2>4
<1>7. n \in 0 .. n /\ n # 0
  BY <1>1
<1> QED BY <1>2, <1>6, <1>7 DEF it

(***************************************************************************)
(* Pairs of lines.                                                         *)
(***************************************************************************)

(* The lines a search is given.                                            *)
Given == Drawn(lines) /\ Len(lines) >= 1 /\ Regular

(* A line has two ends that differ.                                        *)
LEMMA GivenLines ==
  ASSUME Given
  PROVE  /\ Len(lines) \in Nat /\ Len(lines) >= 1 /\ DOMAIN lines = 1 .. Len(lines)
         /\ \A i \in DOMAIN lines :
              /\ lines[i].a \in Points /\ lines[i].b \in Points /\ lines[i].a # lines[i].b
              /\ Side(lines[i].a, lines[i].b) \in Lines
              /\ Box(lines[i]) = Box(Side(lines[i].a, lines[i].b))
<1>1. Len(lines) \in Nat /\ Len(lines) >= 1 /\ DOMAIN lines = 1 .. Len(lines)
  BY DEF Given, Drawn
<1> SUFFICES ASSUME NEW i \in DOMAIN lines
             PROVE  /\ lines[i].a \in Points /\ lines[i].b \in Points /\ lines[i].a # lines[i].b
                    /\ Side(lines[i].a, lines[i].b) \in Lines
                    /\ Box(lines[i]) = Box(Side(lines[i].a, lines[i].b))
  BY <1>1
<1>2. lines[i] \in Drawing /\ lines[i].a # lines[i].b
  BY <1>1 DEF Given, Drawn, Regular
<1>3. lines[i].a \in Points /\ lines[i].b \in Points
  BY <1>2 DEF Drawing
<1>4. Side(lines[i].a, lines[i].b) \in Lines
  BY <1>3 DEF Side, Lines
<1>5. Box(lines[i]) = Box(Side(lines[i].a, lines[i].b))
  BY DEF Box, Side
<1> QED BY <1>2, <1>3, <1>4, <1>5

(* A pair that counts is not of neighbours, and its boxes meet.            *)
LEMMA PairIs ==
  ASSUME Given, NEW i \in DOMAIN lines, NEW j \in DOMAIN lines, NEW same \in BOOLEAN,
         PairIntersects(i, j, same)
  PROVE  i # j /\ ~(same /\ (j = i + 1 \/ i = j + 1)) /\ ~Apart(Box(lines[i]), Box(lines[j]))
<1> DEFINE l == Side(lines[i].a, lines[i].b)
           m == Side(lines[j].a, lines[j].b)
<1>1. /\ l \in Lines /\ m \in Lines
      /\ Box(lines[i]) = Box(l) /\ Box(lines[j]) = Box(m)
  BY GivenLines
<1>2. /\ ProperlyCross(lines[i], lines[j]) <=> ProperlyCross(l, m)
  <2>1. lines[i].a = l.a /\ lines[i].b = l.b /\ lines[j].a = m.a /\ lines[j].b = m.b
    BY DEF Side
  <2> HIDE DEF l, m
  <2> QED BY <2>1, SameEnds
<1>3. i # j /\ ~(same /\ (j = i + 1 \/ i = j + 1))
  BY DEF PairIntersects
<1>4. CASE ProperlyCross(lines[i], lines[j])
  BY <1>1, <1>2, <1>3, <1>4, CrossMeets
<1>5. CASE ~ProperlyCross(lines[i], lines[j])
  <2>1. Ambiguous(lines[i], lines[j])
    BY <1>5 DEF PairIntersects, LeanPairIntersects
  <2> QED BY <1>3, <2>1 DEF Ambiguous
<1> QED BY <1>4, <1>5

(* The test of a pair takes the lines in either order, but for two of one  *)
(* ring that meet end to start.                                            *)
LEMMA PairTurns ==
  ASSUME Given, NEW i \in DOMAIN lines, NEW j \in DOMAIN lines, NEW same \in BOOLEAN,
         PairIntersects(i, j, same), same => lines[i].b # lines[j].a
  PROVE  PairIntersects(j, i, same)
<1> DEFINE l == Side(lines[i].a, lines[i].b)
           m == Side(lines[j].a, lines[j].b)
<1>1. /\ l \in Lines /\ m \in Lines /\ l.a # l.b /\ m.a # m.b
      /\ lines[i].a = l.a /\ lines[i].b = l.b /\ lines[j].a = m.a /\ lines[j].b = m.b
  BY GivenLines DEF Side
<1>2. /\ ProperlyCross(lines[i], lines[j]) <=> ProperlyCross(l, m)
      /\ Ambiguous(lines[i], lines[j]) <=> Ambiguous(l, m)
      /\ LeanPairIntersects(lines[i], lines[j]) <=> LeanPairIntersects(l, m)
      /\ ProperlyCross(lines[j], lines[i]) <=> ProperlyCross(m, l)
      /\ Ambiguous(lines[j], lines[i]) <=> Ambiguous(m, l)
      /\ LeanPairIntersects(lines[j], lines[i]) <=> LeanPairIntersects(m, l)
  <2> HIDE DEF l, m
  <2>1. /\ ProperlyCross(lines[i], lines[j]) <=> ProperlyCross(l, m)
        /\ Ambiguous(lines[i], lines[j]) <=> Ambiguous(l, m)
        /\ LeanPairIntersects(lines[i], lines[j]) <=> LeanPairIntersects(l, m)
    BY <1>1, SameEnds
  <2>2. /\ ProperlyCross(lines[j], lines[i]) <=> ProperlyCross(m, l)
        /\ Ambiguous(lines[j], lines[i]) <=> Ambiguous(m, l)
        /\ LeanPairIntersects(lines[j], lines[i]) <=> LeanPairIntersects(m, l)
    BY <1>1, SameEnds
  <2> QED BY <2>1, <2>2
<1>3. /\ i # j /\ ~(same /\ (j = i + 1 \/ i = j + 1))
      /\ \/ ProperlyCross(l, m)
         \/ same /\ \/ LeanPairIntersects(l, m)
                    \/ Ambiguous(l, m) /\ SharesRepeatedVertex(lines[i], lines[j])
  BY <1>2 DEF PairIntersects
<1>4. PairIntersects(j, i, same) <=>
        \/ ProperlyCross(m, l)
        \/ same /\ \/ LeanPairIntersects(m, l)
                   \/ Ambiguous(m, l) /\ SharesRepeatedVertex(lines[j], lines[i])
  BY <1>2, <1>3 DEF PairIntersects
<1> HIDE DEF l, m
<1>5. /\ ProperlyCross(l, m) => ProperlyCross(m, l)
      /\ Ambiguous(l, m) => Ambiguous(m, l)
  <2>1. ProperlyCross(l, m) => ProperlyCross(m, l)
    BY <1>1, SidesAre DEF ProperlyCross
  <2>2. ASSUME Ambiguous(l, m) PROVE Ambiguous(m, l)
    <3>1. /\ Sides4(l, m)[1] = Sides4(m, l)[3] /\ Sides4(l, m)[2] = Sides4(m, l)[4]
          /\ Sides4(l, m)[3] = Sides4(m, l)[1] /\ Sides4(l, m)[4] = Sides4(m, l)[2]
      BY DEF Sides4
    <3>2. \E k \in 1 .. 4 : Sides4(m, l)[k] = 0
      <4>1. PICK k \in 1 .. 4 : Sides4(l, m)[k] = 0
        BY <2>2 DEF Ambiguous
      <4>2. k = 1 \/ k = 2 \/ k = 3 \/ k = 4
        OBVIOUS
      <4>3. 1 \in 1 .. 4 /\ 2 \in 1 .. 4 /\ 3 \in 1 .. 4 /\ 4 \in 1 .. 4
        OBVIOUS
      <4> QED BY <3>1, <4>1, <4>2, <4>3, Zenon
    <3>3. ~Apart(Box(m), Box(l))
      BY <2>2 DEF Ambiguous, Apart
    <3> QED BY <3>2, <3>3 DEF Ambiguous
  <2> QED BY <2>1, <2>2
<1>6. CASE ProperlyCross(l, m)
  BY <1>4, <1>5, <1>6
<1>7. CASE ~ProperlyCross(l, m)
  <2>1. same /\ Ambiguous(l, m) /\ Ambiguous(m, l) /\ ~Apart(Box(l), Box(m))
    BY <1>3, <1>5, <1>7 DEF LeanPairIntersects, Ambiguous
  <2>2. CASE l.a = m.a \/ l.b = m.b \/ l.a = m.b
    <3>1. SharesRepeatedVertex(lines[j], lines[i])
      BY <1>1, <2>2 DEF SharesRepeatedVertex
    <3> QED BY <1>4, <2>1, <3>1
  <2>3. CASE l.a # m.a /\ l.b # m.b /\ l.a # m.b
    <3>1. l.b # m.a
      BY <1>1, <2>1
    <3>2. LeanPairIntersects(l, m)
      BY <1>1, <1>3, <1>7, <2>3, <3>1 DEF SharesRepeatedVertex
    <3>3. Meet(m, l)
      BY <1>1, <2>1, <3>2, LeanMeets, MeetSymmetric
    <3>4. LeanPairIntersects(m, l)
      BY <1>1, <2>3, <3>1, <3>3, MeetHits
    <3> QED BY <1>4, <2>1, <3>4
  <2> QED BY <2>2, <2>3
<1> QED BY <1>6, <1>7

(***************************************************************************)
(* The numbers of the rings.                                               *)
(***************************************************************************)

(* A ring ends where a line does not go on from the one before.            *)
LEMMA RingNumberIs ==
  ASSUME Given
  PROVE  /\ \A k \in DOMAIN lines : RingNumber(k) \in Nat
         /\ RingNumber(1) = 0
         /\ \A k \in 2 .. Len(lines) :
              RingNumber(k) = RingNumber(k - 1) + (IF lines[k].a # lines[k - 1].b THEN 1 ELSE 0)
<1> DEFINE n == Len(lines)
           Break(k) == lines[k].a # lines[k - 1].b
           Breaks(k) == {j \in 2 .. k : Break(j)}
<1>1. n \in Nat /\ n >= 1 /\ DOMAIN lines = 1 .. n
  BY GivenLines
<1>2. \A k : RingNumber(k) = Cardinality(Breaks(k))
  BY Zenon DEF RingNumber
<1> HIDE DEF n, Break
<1>3. ASSUME NEW k \in 1 .. n PROVE IsFiniteSet(Breaks(k)) /\ Cardinality(Breaks(k)) \in Nat
  <2>1. Breaks(k) \in SUBSET (1 .. k) /\ k \in Nat
    BY <1>1
  <2>2. IsFiniteSet(1 .. k)
    BY <2>1, Intervals
  <2> QED BY <2>1, <2>2, FS_Subset, FS_CardinalityType
<1>4. Breaks(1) = {}
  OBVIOUS
<1>5. ASSUME NEW k \in 2 .. n
      PROVE  Cardinality(Breaks(k)) = Cardinality(Breaks(k - 1)) + (IF Break(k) THEN 1 ELSE 0)
  <2>1. k - 1 \in 1 .. n /\ k \notin Breaks(k - 1) /\ k \in 2 .. k
    BY <1>1
  <2>2. CASE Break(k)
    <3>1. Breaks(k) = Breaks(k - 1) \cup {k}
      BY <1>1, <2>2
    <3> HIDE DEF Breaks
    <3> QED BY <1>3, <2>1, <2>2, <3>1, FS_AddElement
  <2>3. CASE ~Break(k)
    <3>1. Breaks(k) = Breaks(k - 1)
      BY <1>1, <2>3
    <3> HIDE DEF Breaks
    <3> QED BY <1>3, <2>1, <2>3, <3>1
  <2> QED BY <2>2, <2>3
<1>6. Cardinality(Breaks(1)) = 0
  BY <1>4, FS_EmptySet
<1> HIDE DEF Breaks
<1> QED BY <1>1, <1>2, <1>3, <1>5, <1>6 DEF n, Break

(* Lines of one number, and those between, go on from each other.          *)
LEMMA SameRing ==
  ASSUME Given, NEW i \in DOMAIN lines, NEW j \in DOMAIN lines, i < j, RingNumber(i) = RingNumber(j)
  PROVE  \A k \in (i + 1) .. j : lines[k].a = lines[k - 1].b /\ RingNumber(k) = RingNumber(i)
<1> DEFINE n == Len(lines)
           Breaks(k) == {m \in 2 .. k : lines[m].a # lines[m - 1].b}
<1>1. n \in Nat /\ DOMAIN lines = 1 .. n
  BY GivenLines
<1>2. \A k : RingNumber(k) = Cardinality(Breaks(k))
  BY Zenon DEF RingNumber
<1> HIDE DEF n
<1>3. IsFiniteSet(Breaks(j))
  <2>1. Breaks(j) \in SUBSET (1 .. j) /\ j \in Nat
    BY <1>1
  <2>2. IsFiniteSet(1 .. j)
    BY <2>1, Intervals
  <2> QED BY <2>1, <2>2, FS_Subset
<1>4. ASSUME NEW k \in i .. j, NEW m \in k .. j PROVE Breaks(k) \in SUBSET Breaks(m)
  BY <1>1
<1>5. i \in i .. j /\ j \in i .. j /\ j \in j .. j /\ \A k \in (i + 1) .. j : k \in i .. j /\ k \in i .. k /\ j \in k .. j
  BY <1>1
<1>6. Breaks(i) = Breaks(j)
  <2>1. Breaks(i) \in SUBSET Breaks(j)
    BY <1>4, <1>5
  <2>2. Cardinality(Breaks(i)) = Cardinality(Breaks(j))
    BY <1>2
  <2> HIDE DEF Breaks
  <2> QED BY <1>3, <2>1, <2>2, FS_Subset
<1>7. ASSUME NEW k \in (i + 1) .. j PROVE lines[k].a = lines[k - 1].b /\ RingNumber(k) = RingNumber(i)
  <2>1. Breaks(i) \in SUBSET Breaks(k) /\ Breaks(k) \in SUBSET Breaks(j)
    BY <1>1, <1>4, <1>5
  <2>2. Breaks(k) = Breaks(i)
    BY <1>6, <2>1
  <2>3. k \in 2 .. k /\ k \notin 2 .. i
    BY <1>1
  <2>4. k \notin Breaks(k)
    BY <2>2, <2>3
  <2> QED BY <1>2, <2>2, <2>3, <2>4
<1> QED BY <1>7

(***************************************************************************)
(* Monotone chains.                                                        *)
(***************************************************************************)

(* The coordinates a chain of a quadrant goes up in.                       *)
Across(q, p) == IF q \in {0, 1} THEN p[1] ELSE -p[1]
Up(q, p) == IF q \in {0, 3} THEN p[2] ELSE -p[2]

(* The lines s to e go on from each other and rise in both.                *)
Run(q, s, e) ==
  /\ \A k \in s .. e : /\ Across(q, lines[k].a) <= Across(q, lines[k].b)
                       /\ Up(q, lines[k].a) <= Up(q, lines[k].b)
  /\ \A k \in (s + 1) .. e : lines[k].a = lines[k - 1].b

(* A line rises in the coordinates of its quadrant.                        *)
LEMMA QuadrantRises ==
  ASSUME NEW l, l.a \in Points, l.b \in Points
  PROVE  /\ Quadrant(l) \in 0 .. 3
         /\ Across(Quadrant(l), l.a) <= Across(Quadrant(l), l.b)
         /\ Up(Quadrant(l), l.a) <= Up(Quadrant(l), l.b)
<1> DEFINE a1 == l.a[1]  a2 == l.a[2]  b1 == l.b[1]  b2 == l.b[2]
<1>1. a1 \in Int /\ a2 \in Int /\ b1 \in Int /\ b2 \in Int
  BY Points2
<1>2. /\ (b1 - a1 > 0 /\ b2 - a2 >= 0) => Quadrant(l) = 0
      /\ (b1 - a1 > 0 /\ ~(b2 - a2 >= 0)) => Quadrant(l) = 1
      /\ (b1 - a1 < 0 /\ b2 - a2 > 0) => Quadrant(l) = 3
      /\ (b1 - a1 < 0 /\ ~(b2 - a2 > 0)) => Quadrant(l) = 2
      /\ (~(b1 - a1 > 0) /\ ~(b1 - a1 < 0) /\ b2 - a2 > 0) => Quadrant(l) = 0
      /\ (~(b1 - a1 > 0) /\ ~(b1 - a1 < 0) /\ ~(b2 - a2 > 0)) => Quadrant(l) = 2
  BY <1>1 DEF Quadrant
<1>3. /\ \A q : Across(q, l.a) = (IF q \in {0, 1} THEN a1 ELSE -a1)
      /\ \A q : Across(q, l.b) = (IF q \in {0, 1} THEN b1 ELSE -b1)
      /\ \A q : Up(q, l.a) = (IF q \in {0, 3} THEN a2 ELSE -a2)
      /\ \A q : Up(q, l.b) = (IF q \in {0, 3} THEN b2 ELSE -b2)
  BY DEF Across, Up
<1> DEFINE q == Quadrant(l)
<1>4. /\ Across(q, l.a) = (IF q \in {0, 1} THEN a1 ELSE -a1)
      /\ Across(q, l.b) = (IF q \in {0, 1} THEN b1 ELSE -b1)
      /\ Up(q, l.a) = (IF q \in {0, 3} THEN a2 ELSE -a2)
      /\ Up(q, l.b) = (IF q \in {0, 3} THEN b2 ELSE -b2)
  BY <1>3
<1>5. (q = 0 /\ b1 >= a1 /\ b2 >= a2) \/ (q = 1 /\ b1 >= a1 /\ b2 <= a2)
        \/ (q = 2 /\ b1 <= a1 /\ b2 <= a2) \/ (q = 3 /\ b1 <= a1 /\ b2 >= a2)
  <2> HIDE DEF a1, a2, b1, b2
  <2> QED BY <1>1, <1>2
<1> HIDE DEF a1, a2, b1, b2, q
<1>6. /\ q \in 0 .. 3
      /\ Across(q, l.a) <= Across(q, l.b) /\ Up(q, l.a) <= Up(q, l.b)
  <2>1. CASE q = 0 /\ b1 >= a1 /\ b2 >= a2
    BY <1>1, <1>4, <2>1
  <2>2. CASE q = 1 /\ b1 >= a1 /\ b2 <= a2
    BY <1>1, <1>4, <2>2
  <2>3. CASE q = 2 /\ b1 <= a1 /\ b2 <= a2
    BY <1>1, <1>4, <2>3
  <2>4. CASE q = 3 /\ b1 <= a1 /\ b2 >= a2
    BY <1>1, <1>4, <2>4
  <2> QED BY <1>5, <2>1, <2>2, <2>3, <2>4
<1> QED BY <1>6 DEF q

(* The ends of the given lines, as integers.                               *)
LEMMA EndsAre ==
  ASSUME Given, NEW q, NEW k \in DOMAIN lines
  PROVE  /\ Across(q, lines[k].a) \in Int /\ Across(q, lines[k].b) \in Int
         /\ Up(q, lines[k].a) \in Int /\ Up(q, lines[k].b) \in Int
<1>1. /\ lines[k].a[1] \in Int /\ lines[k].a[2] \in Int
      /\ lines[k].b[1] \in Int /\ lines[k].b[2] \in Int
  BY GivenLines, Points2
<1> QED BY <1>1 DEF Across, Up

(* In a run, an earlier line ends before a later one starts.               *)
LEMMA RunRises ==
  ASSUME Given, NEW q, NEW s \in DOMAIN lines, NEW e \in DOMAIN lines, Run(q, s, e),
         NEW i \in s .. e, NEW j \in s .. e, i < j
  PROVE  /\ Across(q, lines[i].b) <= Across(q, lines[j].a)
         /\ Up(q, lines[i].b) <= Up(q, lines[j].a)
<1> DEFINE n == Len(lines)
           A(k) == Across(q, lines[k].a)
           B(k) == Across(q, lines[k].b)
           C(k) == Up(q, lines[k].a)
           D(k) == Up(q, lines[k].b)
<1>1. n \in Nat /\ DOMAIN lines = 1 .. n
  BY GivenLines
<1>2. \A k \in 1 .. n : A(k) \in Int /\ B(k) \in Int /\ C(k) \in Int /\ D(k) \in Int
  BY <1>1, EndsAre
<1>3. /\ \A k \in s .. e : A(k) <= B(k) /\ C(k) <= D(k)
      /\ \A k \in (s + 1) .. e : A(k) = B(k - 1) /\ C(k) = D(k - 1)
  BY DEF Run
<1> HIDE DEF n, A, B, C, D
<1> DEFINE T == {k \in Nat : k > i /\ k <= e /\ ~(B(i) <= A(k) /\ D(i) <= C(k))}
<1>4. ASSUME NEW k \in T PROVE FALSE
  <2>1. PICK m \in T : \A p \in T : m <= p
    <3>1. T \in SUBSET Nat
      OBVIOUS
    <3> HIDE DEF T
    <3> QED BY <3>1, LeastNatural
  <2>2. m \in Nat /\ m > i /\ m <= e /\ ~(B(i) <= A(m) /\ D(i) <= C(m)) /\ m \in (s + 1) .. e
    BY <1>1
  <2>3. A(m) = B(m - 1) /\ C(m) = D(m - 1) /\ m - 1 \in s .. e /\ m - 1 \in 1 .. n /\ i \in 1 .. n
    BY <1>1, <1>3, <2>2
  <2>4. CASE m - 1 = i
    <3>1. A(m) = B(i) /\ C(m) = D(i) /\ B(i) \in Int /\ D(i) \in Int
      BY <1>2, <2>3, <2>4
    <3> QED BY <2>2, <3>1
  <2>5. CASE m - 1 # i
    <3>1. m - 1 \in Nat /\ m - 1 > i /\ m - 1 <= e /\ ~(m <= m - 1)
      BY <1>1, <2>2, <2>5
    <3>2. B(i) <= A(m - 1) /\ D(i) <= C(m - 1)
      BY <2>1, <3>1
    <3>3. /\ A(m - 1) <= B(m - 1) /\ C(m - 1) <= D(m - 1)
          /\ A(m - 1) \in Int /\ B(m - 1) \in Int /\ C(m - 1) \in Int /\ D(m - 1) \in Int
          /\ B(i) \in Int /\ D(i) \in Int
      BY <1>2, <1>3, <2>3
    <3>4. B(i) <= A(m) /\ D(i) <= C(m)
      BY <2>3, <3>2, <3>3
    <3> QED BY <2>2, <3>4
  <2> QED BY <2>4, <2>5
<1>5. j \in Nat /\ j > i /\ j <= e
  BY <1>1
<1>6. B(i) <= A(j) /\ D(i) <= C(j)
  BY <1>4, <1>5
<1> QED BY <1>6 DEF A, B, C, D

IntBox(s) == s.lx \in Int /\ s.hx \in Int /\ s.ly \in Int /\ s.hy \in Int

Within(s, t) == t.lx <= s.lx /\ s.hx <= t.hx /\ t.ly <= s.ly /\ s.hy <= t.hy

(* What lies in boxes that lie apart lies apart.                           *)
LEMMA WithinApart ==
  ASSUME NEW s, NEW t, NEW u, NEW v, IntBox(s), IntBox(t), IntBox(u), IntBox(v),
         Within(s, t), Within(u, v), Apart(t, v)
  PROVE  Apart(s, u)
BY DEF IntBox, Within, Apart

(* The box of a line of a run is read off its ends.                        *)
LEMMA RunBox ==
  ASSUME Given, NEW q, NEW k \in DOMAIN lines,
         Across(q, lines[k].a) <= Across(q, lines[k].b), Up(q, lines[k].a) <= Up(q, lines[k].b)
  PROVE  /\ IntBox(Box(lines[k]))
         /\ Box(lines[k]).lx = IF q \in {0, 1} THEN lines[k].a[1] ELSE lines[k].b[1]
         /\ Box(lines[k]).hx = IF q \in {0, 1} THEN lines[k].b[1] ELSE lines[k].a[1]
         /\ Box(lines[k]).ly = IF q \in {0, 3} THEN lines[k].a[2] ELSE lines[k].b[2]
         /\ Box(lines[k]).hy = IF q \in {0, 3} THEN lines[k].b[2] ELSE lines[k].a[2]
<1> DEFINE a1 == lines[k].a[1]  a2 == lines[k].a[2]  b1 == lines[k].b[1]  b2 == lines[k].b[2]
<1>1. a1 \in Int /\ a2 \in Int /\ b1 \in Int /\ b2 \in Int
  BY GivenLines, Points2
<1>2. /\ Box(lines[k]).lx = Lower(a1, b1) /\ Box(lines[k]).hx = Upper(a1, b1)
      /\ Box(lines[k]).ly = Lower(a2, b2) /\ Box(lines[k]).hy = Upper(a2, b2)
  BY DEF Box
<1>3. /\ (IF q \in {0, 1} THEN a1 ELSE -a1) <= (IF q \in {0, 1} THEN b1 ELSE -b1)
      /\ (IF q \in {0, 3} THEN a2 ELSE -a2) <= (IF q \in {0, 3} THEN b2 ELSE -b2)
  BY DEF Across, Up
<1> HIDE DEF a1, a2, b1, b2
<1>4. /\ Lower(a1, b1) = IF q \in {0, 1} THEN a1 ELSE b1
      /\ Upper(a1, b1) = IF q \in {0, 1} THEN b1 ELSE a1
      /\ Lower(a2, b2) = IF q \in {0, 3} THEN a2 ELSE b2
      /\ Upper(a2, b2) = IF q \in {0, 3} THEN b2 ELSE a2
  BY <1>1, <1>3 DEF Lower, Upper
<1>5. IntBox(Box(lines[k]))
  <2>1. /\ Lower(a1, b1) \in Int /\ Upper(a1, b1) \in Int
        /\ Lower(a2, b2) \in Int /\ Upper(a2, b2) \in Int
    BY <1>1 DEF Lower, Upper
  <2> QED BY <1>2, <2>1 DEF IntBox
<1> QED BY <1>2, <1>4, <1>5 DEF a1, a2, b1, b2

(* Lines of a run that do not follow each other lie apart.                 *)
LEMMA RunApart ==
  ASSUME Given, NEW q, NEW s \in DOMAIN lines, NEW e \in DOMAIN lines, Run(q, s, e),
         NEW i \in s .. e, NEW j \in s .. e, i + 1 < j
  PROVE  Apart(Box(lines[i]), Box(lines[j]))
<1> DEFINE p == i + 1
<1>1. /\ i \in DOMAIN lines /\ j \in DOMAIN lines /\ p \in DOMAIN lines
      /\ p \in s .. e /\ p \in (s + 1) .. e /\ p < j /\ p - 1 = i /\ i < j
  BY GivenLines
<1>2. /\ Across(q, lines[p].b) <= Across(q, lines[j].a)
      /\ Up(q, lines[p].b) <= Up(q, lines[j].a)
  BY <1>1, RunRises
<1>3. /\ Across(q, lines[p].a) <= Across(q, lines[p].b) /\ Up(q, lines[p].a) <= Up(q, lines[p].b)
      /\ Across(q, lines[i].a) <= Across(q, lines[i].b) /\ Up(q, lines[i].a) <= Up(q, lines[i].b)
      /\ Across(q, lines[j].a) <= Across(q, lines[j].b) /\ Up(q, lines[j].a) <= Up(q, lines[j].b)
      /\ lines[p].a = lines[i].b
  BY <1>1 DEF Run
<1>4. lines[p].a # lines[p].b /\ lines[p].a \in Points /\ lines[p].b \in Points
  BY <1>1, GivenLines
<1>5. lines[p].a[1] # lines[p].b[1] \/ lines[p].a[2] # lines[p].b[2]
  BY <1>4 DEF Points
<1>6. Across(q, lines[p].a) # Across(q, lines[p].b) \/ Up(q, lines[p].a) # Up(q, lines[p].b)
  <2>1. /\ lines[p].a[1] \in Int /\ lines[p].a[2] \in Int
        /\ lines[p].b[1] \in Int /\ lines[p].b[2] \in Int
    BY <1>4, Points2
  <2> QED BY <1>5, <2>1 DEF Across, Up
<1>7. /\ Across(q, lines[i].b) \in Int /\ Across(q, lines[p].b) \in Int /\ Across(q, lines[j].a) \in Int
      /\ Up(q, lines[i].b) \in Int /\ Up(q, lines[p].b) \in Int /\ Up(q, lines[j].a) \in Int
  BY <1>1, EndsAre
<1>8. Across(q, lines[i].b) < Across(q, lines[j].a) \/ Up(q, lines[i].b) < Up(q, lines[j].a)
  <2> HIDE DEF p
  <2> QED BY <1>2, <1>3, <1>6, <1>7
<1>9. /\ lines[i].b[1] \in Int /\ lines[i].b[2] \in Int
      /\ lines[j].a[1] \in Int /\ lines[j].a[2] \in Int
  BY <1>1, GivenLines, Points2
<1>10. CASE Across(q, lines[i].b) < Across(q, lines[j].a)
  <2>1. CASE q \in {0, 1}
    <3>1. Box(lines[i]).hx = lines[i].b[1] /\ Box(lines[j]).lx = lines[j].a[1]
      BY <1>1, <1>3, <2>1, RunBox
    <3> QED BY <1>10, <2>1, <3>1 DEF Across, Apart
  <2>2. CASE q \notin {0, 1}
    <3>1. Box(lines[i]).lx = lines[i].b[1] /\ Box(lines[j]).hx = lines[j].a[1]
      BY <1>1, <1>3, <2>2, RunBox
    <3>2. lines[j].a[1] < lines[i].b[1]
      BY <1>9, <1>10, <2>2 DEF Across
    <3> QED BY <3>1, <3>2 DEF Apart
  <2> QED BY <2>1, <2>2
<1>11. CASE Up(q, lines[i].b) < Up(q, lines[j].a)
  <2>1. CASE q \in {0, 3}
    <3>1. Box(lines[i]).hy = lines[i].b[2] /\ Box(lines[j]).ly = lines[j].a[2]
      BY <1>1, <1>3, <2>1, RunBox
    <3> QED BY <1>11, <2>1, <3>1 DEF Up, Apart
  <2>2. CASE q \notin {0, 3}
    <3>1. Box(lines[i]).ly = lines[i].b[2] /\ Box(lines[j]).hy = lines[j].a[2]
      BY <1>1, <1>3, <2>2, RunBox
    <3>2. lines[j].a[2] < lines[i].b[2]
      BY <1>9, <1>11, <2>2 DEF Up
    <3> QED BY <3>1, <3>2 DEF Apart
  <2> QED BY <2>1, <2>2
<1> QED BY <1>8, <1>10, <1>11

(* The box read off the ends of a run has all its lines in it.             *)
LEMMA RunWithin ==
  ASSUME Given, NEW c, NEW s \in DOMAIN lines, NEW e \in DOMAIN lines, Run(c.quad, s, e),
         NEW k \in s .. e
  PROVE  /\ IntBox(SubBox(c, s, e)) /\ IntBox(Box(lines[k]))
         /\ Within(Box(lines[k]), SubBox(c, s, e))
<1> DEFINE q == c.quad
           p == lines[s].a
           r == lines[e].b
<1>1. k \in DOMAIN lines /\ s \in s .. e /\ e \in s .. e /\ s <= k /\ k <= e /\ s \in Int /\ e \in Int /\ k \in Int
  BY GivenLines
<1>2. /\ Across(q, lines[k].a) <= Across(q, lines[k].b) /\ Up(q, lines[k].a) <= Up(q, lines[k].b)
      /\ Across(q, lines[s].a) <= Across(q, lines[s].b) /\ Up(q, lines[s].a) <= Up(q, lines[s].b)
      /\ Across(q, lines[e].a) <= Across(q, lines[e].b) /\ Up(q, lines[e].a) <= Up(q, lines[e].b)
  BY <1>1 DEF Run
<1>3. Across(q, p) <= Across(q, lines[k].a) /\ Up(q, p) <= Up(q, lines[k].a)
  <2>1. CASE k = s
    BY <1>1, <2>1, EndsAre
  <2>2. CASE k # s
    <3>1. s < k
      BY <1>1, <2>2
    <3>2. Across(q, lines[s].b) <= Across(q, lines[k].a) /\ Up(q, lines[s].b) <= Up(q, lines[k].a)
      BY <1>1, <3>1, RunRises
    <3>3. /\ Across(q, lines[s].a) \in Int /\ Across(q, lines[s].b) \in Int /\ Across(q, lines[k].a) \in Int
          /\ Up(q, lines[s].a) \in Int /\ Up(q, lines[s].b) \in Int /\ Up(q, lines[k].a) \in Int
      BY <1>1, EndsAre
    <3> QED BY <1>2, <3>2, <3>3
  <2> QED BY <2>1, <2>2
<1>4. Across(q, lines[k].b) <= Across(q, r) /\ Up(q, lines[k].b) <= Up(q, r)
  <2>1. CASE k = e
    BY <1>1, <2>1, EndsAre
  <2>2. CASE k # e
    <3>1. k < e
      BY <1>1, <2>2
    <3>2. Across(q, lines[k].b) <= Across(q, lines[e].a) /\ Up(q, lines[k].b) <= Up(q, lines[e].a)
      BY <1>1, <3>1, RunRises
    <3>3. /\ Across(q, lines[e].a) \in Int /\ Across(q, lines[e].b) \in Int /\ Across(q, lines[k].b) \in Int
          /\ Up(q, lines[e].a) \in Int /\ Up(q, lines[e].b) \in Int /\ Up(q, lines[k].b) \in Int
      BY <1>1, EndsAre
    <3> QED BY <1>2, <3>2, <3>3
  <2> QED BY <2>1, <2>2
<1> DEFINE x == SubBox(c, s, e)
           y == Box(lines[k])
           a == lines[k].a
           b == lines[k].b
<1>5. /\ p[1] \in Int /\ p[2] \in Int /\ r[1] \in Int /\ r[2] \in Int
      /\ a[1] \in Int /\ a[2] \in Int /\ b[1] \in Int /\ b[2] \in Int
  BY <1>1, GivenLines, Points2
<1>6. /\ x.lx = (IF q \in {0, 1} THEN p[1] ELSE r[1]) /\ x.hx = (IF q \in {0, 1} THEN r[1] ELSE p[1])
      /\ x.ly = (IF q \in {0, 3} THEN p[2] ELSE r[2]) /\ x.hy = (IF q \in {0, 3} THEN r[2] ELSE p[2])
  BY DEF SubBox
<1>7. /\ y.lx = (IF q \in {0, 1} THEN a[1] ELSE b[1]) /\ y.hx = (IF q \in {0, 1} THEN b[1] ELSE a[1])
      /\ y.ly = (IF q \in {0, 3} THEN a[2] ELSE b[2]) /\ y.hy = (IF q \in {0, 3} THEN b[2] ELSE a[2])
      /\ IntBox(y)
  BY <1>1, <1>2, RunBox
<1>8. /\ Across(q, p) <= Across(q, a) /\ Up(q, p) <= Up(q, a)
      /\ Across(q, b) <= Across(q, r) /\ Up(q, b) <= Up(q, r)
  BY <1>3, <1>4
<1> HIDE DEF q, p, r, x, y, a, b
<1>9. /\ q \in {0, 1} => x.lx <= y.lx /\ y.hx <= x.hx
      /\ q \notin {0, 1} => x.lx <= y.lx /\ y.hx <= x.hx
      /\ q \in {0, 3} => x.ly <= y.ly /\ y.hy <= x.hy
      /\ q \notin {0, 3} => x.ly <= y.ly /\ y.hy <= x.hy
  BY <1>5, <1>6, <1>7, <1>8 DEF Across, Up
<1>10. Within(y, x)
  BY <1>9 DEF Within
<1>11. IntBox(x)
  BY <1>5, <1>6 DEF IntBox
<1> QED BY <1>7, <1>10, <1>11 DEF x, y, q

(***************************************************************************)
(* The recursion over two chains.                                          *)
(***************************************************************************)

(* A chain of the walk: a run of one ring, in its box.                     *)
Fine(c) ==
  /\ c.from \in DOMAIN lines /\ c.to \in DOMAIN lines /\ c.from <= c.to
  /\ Run(c.quad, c.from, c.to)
  /\ IntBox(c.box)
  /\ \A k \in c.from .. c.to : RingNumber(k) = c.ring /\ Within(Box(lines[k]), c.box)

(* Some pair of lines of two parts intersects.                             *)
Some(p, q, same) == \E i \in p[1] .. p[2], j \in q[1] .. q[2] : PairIntersects(i, j, same)

(* A part of a chain is a run.                                             *)
LEMMA PartIs ==
  ASSUME Given, NEW c, Fine(c), NEW p \in Parts(c)
  PROVE  /\ p = <<p[1], p[2]>> /\ p[1] \in DOMAIN lines /\ p[2] \in DOMAIN lines /\ p[1] <= p[2]
         /\ p[1] \in Int /\ p[2] \in Int
         /\ p[1] \in c.from .. c.to /\ p[2] \in c.from .. c.to /\ Run(c.quad, p[1], p[2])
<1>1. p \in (c.from .. c.to) \X (c.from .. c.to) /\ p[1] <= p[2]
  BY DEF Parts
<1>2. /\ c.from \in Int /\ c.to \in Int /\ DOMAIN lines = 1 .. Len(lines) /\ Len(lines) \in Nat
      /\ c.from \in DOMAIN lines /\ c.to \in DOMAIN lines
  BY GivenLines DEF Fine
<1> DEFINE s == p[1]
           e == p[2]
           n == Len(lines)
<1>3. p = <<s, e>> /\ s \in c.from .. c.to /\ e \in c.from .. c.to /\ s <= e
  BY <1>1
<1> HIDE DEF s, e, n
<1>4. s \in Int /\ e \in Int /\ s \in DOMAIN lines /\ e \in DOMAIN lines
  BY <1>2, <1>3 DEF n
<1>5. /\ \A k \in s .. e : k \in c.from .. c.to
      /\ \A k \in (s + 1) .. e : k \in (c.from + 1) .. c.to
  BY <1>2, <1>3, <1>4
<1>6. Run(c.quad, s, e)
  BY <1>5 DEF Fine, Run
<1> QED BY <1>1, <1>3, <1>4, <1>6 DEF s, e

(* A part with more than one line falls into two.                          *)
LEMMA HalvesAre ==
  ASSUME Given, NEW c, Fine(c), NEW p \in Parts(c), p[1] < p[2]
  PROVE  LET mid == (p[1] + p[2] - 1) \div 2
         IN  /\ mid \in Int /\ p[1] <= mid /\ mid < p[2]
             /\ <<p[1], mid>> \in Parts(c) /\ <<mid + 1, p[2]>> \in Parts(c)
             /\ \A i : i \in p[1] .. p[2] <=> i \in p[1] .. mid \/ i \in (mid + 1) .. p[2]
<1> DEFINE s == p[1]
           e == p[2]
           mid == (s + e - 1) \div 2
<1>1. /\ s \in Int /\ e \in Int /\ s \in c.from .. c.to /\ e \in c.from .. c.to /\ s < e
      /\ c.from \in Int /\ c.to \in Int
  <2>1. c.from \in Int /\ c.to \in Int
    BY GivenLines DEF Fine
  <2> QED BY <2>1, PartIs
<1> HIDE DEF s, e
<1>2. mid \in Int /\ s <= mid /\ mid < e
  BY <1>1
<1> HIDE DEF mid
<1>3. mid \in c.from .. c.to /\ mid + 1 \in c.from .. c.to /\ mid + 1 <= e
  BY <1>1, <1>2
<1>4. <<s, mid>> \in Parts(c) /\ <<mid + 1, e>> \in Parts(c)
  BY <1>1, <1>2, <1>3 DEF Parts
<1>5. \A i : i \in s .. e <=> i \in s .. mid \/ i \in (mid + 1) .. e
  BY <1>1, <1>2
<1> QED BY <1>2, <1>4, <1>5 DEF mid, s, e

(* Parts whose boxes lie apart have no pair that intersects.               *)
LEMMA ApartParts ==
  ASSUME Given, NEW c, NEW d, Fine(c), Fine(d), NEW p \in Parts(c), NEW q \in Parts(d),
         NEW same \in BOOLEAN, Apart(SubBox(c, p[1], p[2]), SubBox(d, q[1], q[2]))
  PROVE  ~Some(p, q, same)
<1> SUFFICES ASSUME NEW i \in p[1] .. p[2], NEW j \in q[1] .. q[2], PairIntersects(i, j, same)
             PROVE  FALSE
  BY DEF Some
<1>1. /\ p[1] \in DOMAIN lines /\ p[2] \in DOMAIN lines /\ Run(c.quad, p[1], p[2])
      /\ q[1] \in DOMAIN lines /\ q[2] \in DOMAIN lines /\ Run(d.quad, q[1], q[2])
  BY PartIs
<1>2. i \in DOMAIN lines /\ j \in DOMAIN lines
  BY <1>1, GivenLines
<1>3. /\ IntBox(SubBox(c, p[1], p[2])) /\ IntBox(Box(lines[i]))
      /\ Within(Box(lines[i]), SubBox(c, p[1], p[2]))
  BY <1>1, RunWithin
<1>4. /\ IntBox(SubBox(d, q[1], q[2])) /\ IntBox(Box(lines[j]))
      /\ Within(Box(lines[j]), SubBox(d, q[1], q[2]))
  BY <1>1, RunWithin
<1>5. Apart(Box(lines[i]), Box(lines[j]))
  BY <1>3, <1>4, WithinApart
<1> QED BY <1>2, <1>5, PairIs

(* One step of the recursion, from what it says of shorter parts.          *)
Half(f, c, d, r) ==
  LET s0 == r[1][1]  e0 == r[1][2]  s1 == r[2][1]  e1 == r[2][2]
      mid0 == (s0 + e0 - 1) \div 2
      mid1 == (s1 + e1 - 1) \div 2
  IN  IF s0 = e0 /\ s1 = e1 THEN PairIntersects(s0, s1, c.ring = d.ring)
      ELSE IF Apart(SubBox(c, s0, e0), SubBox(d, s1, e1)) THEN FALSE
      ELSE IF e0 - s0 >= e1 - s1
      THEN f[<<<<s0, mid0>>, r[2]>>] \/ f[<<<<mid0 + 1, e0>>, r[2]>>]
      ELSE f[<<r[1], <<s1, mid1>>>>] \/ f[<<r[1], <<mid1 + 1, e1>>>>]

Span(p, q) == (p[2] - p[1]) + (q[2] - q[1])

(* One level of the recursion over two chains is right if all smaller      *)
(* spans are.                                                              *)
LEMMA HalfIs ==
  ASSUME Given, NEW c, NEW d, Fine(c), Fine(d), NEW f, NEW p \in Parts(c), NEW q \in Parts(d),
         \A u \in Parts(c), v \in Parts(d) :
           Span(u, v) < Span(p, q) => (f[<<u, v>>] <=> Some(u, v, c.ring = d.ring))
  PROVE  Half(f, c, d, <<p, q>>) <=> Some(p, q, c.ring = d.ring)
<1> DEFINE same == c.ring = d.ring
           s0 == p[1]  e0 == p[2]  s1 == q[1]  e1 == q[2]
           mid0 == (s0 + e0 - 1) \div 2
           mid1 == (s1 + e1 - 1) \div 2
           F(u, v) == f[<<u, v>>]
<1>1. /\ s0 \in Int /\ e0 \in Int /\ s0 <= e0 /\ s1 \in Int /\ e1 \in Int /\ s1 <= e1
      /\ same \in BOOLEAN
  BY PartIs
<1>2. Half(f, c, d, <<p, q>>) =
        IF s0 = e0 /\ s1 = e1 THEN PairIntersects(s0, s1, same)
        ELSE IF Apart(SubBox(c, s0, e0), SubBox(d, s1, e1)) THEN FALSE
        ELSE IF e0 - s0 >= e1 - s1
        THEN F(<<s0, mid0>>, q) \/ F(<<mid0 + 1, e0>>, q)
        ELSE F(p, <<s1, mid1>>) \/ F(p, <<mid1 + 1, e1>>)
  <2>1. <<p, q>>[1] = p /\ <<p, q>>[2] = q
    OBVIOUS
  <2> QED BY <2>1, Zenon DEF Half
<1>3. Some(p, q, same) <=> \E i \in s0 .. e0, j \in s1 .. e1 : PairIntersects(i, j, same)
  BY Zenon DEF Some
<1>4. CASE s0 = e0 /\ s1 = e1
  <2>1. \A i : (i \in s0 .. e0 <=> i = s0) /\ (i \in s1 .. e1 <=> i = s1)
    BY <1>1, <1>4
  <2> QED BY <1>2, <1>3, <1>4, <2>1, Zenon
<1>5. CASE ~(s0 = e0 /\ s1 = e1) /\ Apart(SubBox(c, s0, e0), SubBox(d, s1, e1))
  <2>1. ~Some(p, q, same)
    BY <1>1, <1>5, ApartParts
  <2> QED BY <1>2, <1>5, <2>1, Zenon
<1>6. CASE /\ ~(s0 = e0 /\ s1 = e1) /\ ~Apart(SubBox(c, s0, e0), SubBox(d, s1, e1))
           /\ e0 - s0 >= e1 - s1
  <2>1. s0 < e0
    BY <1>1, <1>6
  <2>2. /\ mid0 \in Int /\ s0 <= mid0 /\ mid0 < e0
        /\ <<s0, mid0>> \in Parts(c) /\ <<mid0 + 1, e0>> \in Parts(c)
        /\ \A i : i \in s0 .. e0 <=> i \in s0 .. mid0 \/ i \in (mid0 + 1) .. e0
    BY <2>1, HalvesAre
  <2> HIDE DEF mid0
  <2>3. Span(<<s0, mid0>>, q) < Span(p, q) /\ Span(<<mid0 + 1, e0>>, q) < Span(p, q)
    <3>1. /\ Span(<<s0, mid0>>, q) = (mid0 - s0) + (e1 - s1)
          /\ Span(<<mid0 + 1, e0>>, q) = (e0 - (mid0 + 1)) + (e1 - s1)
          /\ Span(p, q) = (e0 - s0) + (e1 - s1)
      BY DEF Span
    <3> HIDE DEF s0, e0, s1, e1
    <3> QED BY <1>1, <2>2, <3>1
  <2>4. /\ F(<<s0, mid0>>, q) <=> Some(<<s0, mid0>>, q, same)
        /\ F(<<mid0 + 1, e0>>, q) <=> Some(<<mid0 + 1, e0>>, q, same)
    BY <2>2, <2>3, Zenon
  <2>5. /\ Some(<<s0, mid0>>, q, same)
             <=> \E i \in s0 .. mid0, j \in s1 .. e1 : PairIntersects(i, j, same)
        /\ Some(<<mid0 + 1, e0>>, q, same)
             <=> \E i \in (mid0 + 1) .. e0, j \in s1 .. e1 : PairIntersects(i, j, same)
    <3>1. /\ <<s0, mid0>>[1] = s0 /\ <<s0, mid0>>[2] = mid0
          /\ <<mid0 + 1, e0>>[1] = mid0 + 1 /\ <<mid0 + 1, e0>>[2] = e0
      OBVIOUS
    <3> QED BY <3>1, Zenon DEF Some
  <2>6. Half(f, c, d, <<p, q>>) <=> F(<<s0, mid0>>, q) \/ F(<<mid0 + 1, e0>>, q)
    <3> HIDE DEF F, s0, e0, s1, e1
    <3> QED BY <1>2, <1>6, Zenon
  <2>7. Some(p, q, same) <=> Some(<<s0, mid0>>, q, same) \/ Some(<<mid0 + 1, e0>>, q, same)
    <3> HIDE DEF s0, e0, s1, e1, same
    <3> QED BY <1>3, <2>2, <2>5, Zenon
  <2> QED BY <2>4, <2>6, <2>7
<1>7. CASE /\ ~(s0 = e0 /\ s1 = e1) /\ ~Apart(SubBox(c, s0, e0), SubBox(d, s1, e1))
           /\ ~(e0 - s0 >= e1 - s1)
  <2>1. s1 < e1
    BY <1>1, <1>7
  <2>2. /\ mid1 \in Int /\ s1 <= mid1 /\ mid1 < e1
        /\ <<s1, mid1>> \in Parts(d) /\ <<mid1 + 1, e1>> \in Parts(d)
        /\ \A i : i \in s1 .. e1 <=> i \in s1 .. mid1 \/ i \in (mid1 + 1) .. e1
    BY <2>1, HalvesAre
  <2> HIDE DEF mid1
  <2>3. Span(p, <<s1, mid1>>) < Span(p, q) /\ Span(p, <<mid1 + 1, e1>>) < Span(p, q)
    <3>1. /\ Span(p, <<s1, mid1>>) = (e0 - s0) + (mid1 - s1)
          /\ Span(p, <<mid1 + 1, e1>>) = (e0 - s0) + (e1 - (mid1 + 1))
          /\ Span(p, q) = (e0 - s0) + (e1 - s1)
      BY DEF Span
    <3> HIDE DEF s0, e0, s1, e1
    <3> QED BY <1>1, <2>2, <3>1
  <2>4. /\ F(p, <<s1, mid1>>) <=> Some(p, <<s1, mid1>>, same)
        /\ F(p, <<mid1 + 1, e1>>) <=> Some(p, <<mid1 + 1, e1>>, same)
    BY <2>2, <2>3, Zenon
  <2>5. /\ Some(p, <<s1, mid1>>, same)
             <=> \E i \in s0 .. e0, j \in s1 .. mid1 : PairIntersects(i, j, same)
        /\ Some(p, <<mid1 + 1, e1>>, same)
             <=> \E i \in s0 .. e0, j \in (mid1 + 1) .. e1 : PairIntersects(i, j, same)
    <3>1. /\ <<s1, mid1>>[1] = s1 /\ <<s1, mid1>>[2] = mid1
          /\ <<mid1 + 1, e1>>[1] = mid1 + 1 /\ <<mid1 + 1, e1>>[2] = e1
      OBVIOUS
    <3> QED BY <3>1, Zenon DEF Some
  <2>6. Half(f, c, d, <<p, q>>) <=> F(p, <<s1, mid1>>) \/ F(p, <<mid1 + 1, e1>>)
    <3> HIDE DEF F, s0, e0, s1, e1
    <3> QED BY <1>2, <1>7, Zenon
  <2>7. Some(p, q, same) <=> Some(p, <<s1, mid1>>, same) \/ Some(p, <<mid1 + 1, e1>>, same)
    <3> HIDE DEF s0, e0, s1, e1, same
    <3> QED BY <1>3, <2>2, <2>5, Zenon
  <2> QED BY <2>4, <2>6, <2>7
<1> QED BY <1>4, <1>5, <1>6, <1>7

(* The recursion finds whether two chains have a pair that intersects.     *)
LEMMA OverlapsIs ==
  ASSUME Given, NEW c, NEW d, Fine(c), Fine(d)
  PROVE  ComputeOverlaps(c, d) <=>
           \E i \in c.from .. c.to, j \in d.from .. d.to : PairIntersects(i, j, c.ring = d.ring)
<1> DEFINE same == c.ring = d.ring
           A == Parts(c)
           B == Parts(d)
           P == A \X B
           R(f) == f = [r \in P |-> Half(f, c, d, r)]
           p == <<c.from, c.to>>
           q == <<d.from, d.to>>
           w == [r \in P |-> Some(r[1], r[2], same)]
           rec == CHOOSE f : R(f)
<1>1. ComputeOverlaps(c, d) = rec[<<p, q>>]
  BY Zenon DEF ComputeOverlaps, Half
<1>2. p \in A /\ q \in B
  BY GivenLines DEF Fine, Parts
<1>3. \A u \in A, v \in B : Span(u, v) \in Nat
  <2> SUFFICES ASSUME NEW u \in A, NEW v \in B PROVE Span(u, v) \in Nat
    OBVIOUS
  <2>1. /\ u[1] \in Int /\ u[2] \in Int /\ u[1] <= u[2]
        /\ v[1] \in Int /\ v[2] \in Int /\ v[1] <= v[2]
    BY PartIs
  <2> QED BY <2>1 DEF Span
<1>4. ASSUME NEW f, NEW u \in A, NEW v \in B,
             \A x \in A, y \in B : Span(x, y) < Span(u, v) => (f[<<x, y>>] <=> Some(x, y, same))
      PROVE  Half(f, c, d, <<u, v>>) <=> Some(u, v, same)
  BY <1>4, HalfIs
<1> HIDE DEF A, B, same
<1>5. \A u \in A, v \in B : w[<<u, v>>] = Some(u, v, same)
  <2> SUFFICES ASSUME NEW u \in A, NEW v \in B PROVE w[<<u, v>>] = Some(u, v, same)
    OBVIOUS
  <2>1. <<u, v>> \in P /\ <<u, v>>[1] = u /\ <<u, v>>[2] = v
    OBVIOUS
  <2> QED BY <2>1, Zenon
<1>6. R(w)
  <2>1. \A r \in P : w[r] = Half(w, c, d, r)
    <3> SUFFICES ASSUME NEW r \in P PROVE w[r] = Half(w, c, d, r)
      OBVIOUS
    <3>1. PICK u \in A, v \in B : r = <<u, v>>
      OBVIOUS
    <3>2. Half(w, c, d, <<u, v>>) <=> Some(u, v, same)
      <4> HIDE DEF w
      <4> QED BY <1>4, <1>5
    <3>3. Half(w, c, d, <<u, v>>) = Some(u, v, same)
      <4>1. Half(w, c, d, <<u, v>>) \in BOOLEAN /\ Some(u, v, same) \in BOOLEAN
        <5>1. \A x \in A, y \in B : w[<<x, y>>] \in BOOLEAN
          BY <1>5 DEF Some
        <5> QED BY DEF Half, Some, PairIntersects
      <4> QED BY <3>2, <4>1
    <3> HIDE DEF w
    <3> QED BY <1>5, <3>1, <3>3, Zenon
  <2>2. w = [r \in P |-> w[r]]
    BY Zenon
  <2> HIDE DEF w, P
  <2> QED BY <2>1, <2>2, Zenon
<1>7. R(rec)
  <2> HIDE DEF R, w
  <2> QED BY <1>6, Zenon
<1> HIDE DEF rec, w
<1>8. \A u \in A, v \in B : rec[<<u, v>>] = Half(rec, c, d, <<u, v>>)
  <2>1. \A u \in A, v \in B : <<u, v>> \in P
    OBVIOUS
  <2>2. \A r \in P : rec[r] = Half(rec, c, d, r)
    <3> HIDE DEF P
    <3> QED BY <1>7, Zenon
  <2> QED BY <2>1, <2>2, Zenon
<1> DEFINE T == {m \in Nat : \E u \in A, v \in B :
                   m = Span(u, v) /\ ~(rec[<<u, v>>] <=> Some(u, v, same))}
<1>9. ASSUME NEW k \in T PROVE FALSE
  <2>1. PICK m \in T : \A i \in T : m <= i
    <3>1. T \in SUBSET Nat
      OBVIOUS
    <3> HIDE DEF T
    <3> QED BY <3>1, LeastNatural
  <2>2. PICK u \in A, v \in B : m = Span(u, v) /\ ~(rec[<<u, v>>] <=> Some(u, v, same))
    OBVIOUS
  <2>3. ASSUME NEW x \in A, NEW y \in B, Span(x, y) < Span(u, v)
        PROVE  rec[<<x, y>>] <=> Some(x, y, same)
    <3>1. Span(x, y) \notin T
      <4>1. Span(x, y) \in Nat /\ m \in Nat /\ ~(m <= Span(x, y))
        BY <1>3, <2>2, <2>3
      <4> HIDE DEF T
      <4> QED BY <2>1, <4>1
    <3> QED BY <1>3, <3>1
  <2> QED BY <1>4, <1>8, <2>2, <2>3
<1>10. rec[<<p, q>>] <=> Some(p, q, same)
  <2>1. Span(p, q) \in Nat /\ Span(p, q) \notin T
    BY <1>2, <1>3, <1>9
  <2> QED BY <1>2, <2>1
<1>11. Some(p, q, same) <=>
         \E i \in c.from .. c.to, j \in d.from .. d.to : PairIntersects(i, j, same)
  <2>1. p[1] = c.from /\ p[2] = c.to /\ q[1] = d.from /\ q[2] = d.to
    OBVIOUS
  <2> QED BY <2>1, Zenon DEF Some
<1> QED BY <1>1, <1>10, <1>11 DEF same

(***************************************************************************)
(* One order of each pair is enough.                                       *)
(***************************************************************************)

(* What the scans ask of a pair.                                           *)
Cross(i, j) == PairIntersects(i, j, RingNumber(i) = RingNumber(j))

(* Such a pair is of two lines, and their boxes meet.                      *)
LEMMA CrossIs ==
  ASSUME Given, NEW i \in DOMAIN lines, NEW j \in DOMAIN lines, Cross(i, j)
  PROVE  i # j /\ ~Apart(Box(lines[i]), Box(lines[j]))
<1>1. (RingNumber(i) = RingNumber(j)) \in BOOLEAN
  OBVIOUS
<1> QED BY <1>1, PairIs DEF Cross

(* Lines of one ring that start in one point intersect, in either order.   *)
LEMMA SharedStart ==
  ASSUME Given, NEW i \in DOMAIN lines, NEW j \in DOMAIN lines,
         i # j, j # i + 1, i # j + 1, lines[i].a = lines[j].a
  PROVE  PairIntersects(i, j, TRUE)
<1> DEFINE l == Side(lines[i].a, lines[i].b)
           m == Side(lines[j].a, lines[j].b)
<1>1. /\ l \in Lines /\ m \in Lines /\ l.a = m.a
      /\ lines[i].a = l.a /\ lines[i].b = l.b /\ lines[j].a = m.a /\ lines[j].b = m.b
  BY GivenLines DEF Side
<1> HIDE DEF l, m
<1>2. Ambiguous(lines[i], lines[j]) <=> Ambiguous(l, m)
  BY <1>1, SameEnds
<1>3. ~Apart(Box(l), Box(m))
  <2> DEFINE x == l.a[1]
             y == l.a[2]
  <2>1. x \in Int /\ y \in Int
    BY <1>1, SidesAre, Points2
  <2>2. /\ Box(l).lx <= x /\ x <= Box(l).hx /\ Box(l).ly <= y /\ y <= Box(l).hy
        /\ Box(m).lx <= x /\ x <= Box(m).hx /\ Box(m).ly <= y /\ y <= Box(m).hy
    BY <1>1, BoxIs
  <2> HIDE DEF x, y
  <2> QED BY <1>1, <2>1, <2>2, ShareBoxes
<1>4. Sides4(l, m)[1] = 0
  <2>1. Orient(l.a, l.b, l.a) = 0
    BY <1>1, SidesAre, OrientIs
  <2> QED BY <1>1, <2>1, SidesAre
<1>5. Ambiguous(l, m)
  BY <1>3, <1>4 DEF Ambiguous
<1>6. SharesRepeatedVertex(lines[i], lines[j])
  BY DEF SharesRepeatedVertex
<1> QED BY <1>2, <1>5, <1>6 DEF PairIntersects

(* The sweep meets a pair in one order, and the scan in the order of the   *)
(* lines: if the one finds nothing, nor does the other.  The orders differ *)
(* on lines that meet end to start, and then the line after the first      *)
(* starts where the second does.                                           *)
LEMMA OneOrderEnough ==
  ASSUME Given, \A i, j \in DOMAIN lines : i # j => ~Cross(i, j) \/ ~Cross(j, i)
  PROVE  SmallClean
<1> SUFFICES ASSUME NEW i \in DOMAIN lines, NEW j \in DOMAIN lines, i < j, Cross(i, j)
             PROVE  FALSE
  BY DEF SmallClean, Cross
<1> DEFINE n == Len(lines)
           same == RingNumber(i) = RingNumber(j)
<1>1. n \in Nat /\ DOMAIN lines = 1 .. n /\ i \in Int /\ j \in Int
  BY GivenLines
<1>2. PairIntersects(i, j, same) /\ same \in BOOLEAN
  BY DEF Cross
<1>3. ~PairIntersects(j, i, same)
  <2>1. ~Cross(j, i)
    BY <1>1
  <2>2. (RingNumber(j) = RingNumber(i)) <=> same
    OBVIOUS
  <2> QED BY <2>1, <2>2, Zenon DEF Cross
<1>4. same /\ lines[i].b = lines[j].a
  BY <1>2, <1>3, PairTurns
<1>5. j # i + 1
  BY <1>2, <1>4, PairIs
<1> DEFINE p == i + 1
<1>6. p \in (i + 1) .. j /\ p \in DOMAIN lines /\ p \in Int /\ p - 1 = i /\ p < j
  BY <1>1, <1>5
<1>7. lines[p].a = lines[i].b /\ RingNumber(p) = RingNumber(i)
  BY <1>4, <1>6, SameRing
<1>8. j # p + 1
  <2> SUFFICES ASSUME j = p + 1 PROVE FALSE
    OBVIOUS
  <2>1. j \in (i + 1) .. j /\ j - 1 = p
    BY <1>1, <1>6
  <2>2. lines[j].a = lines[p].b
    BY <1>4, <2>1, SameRing
  <2> QED BY <1>4, <1>6, <1>7, <2>2, GivenLines
<1> HIDE DEF p
<1>9. p # j /\ j # p + 1 /\ p # j + 1 /\ lines[p].a = lines[j].a
  BY <1>1, <1>4, <1>6, <1>7, <1>8
<1>10. PairIntersects(p, j, TRUE) /\ PairIntersects(j, p, TRUE)
  BY <1>6, <1>9, SharedStart
<1>11. (RingNumber(p) = RingNumber(j)) = TRUE /\ (RingNumber(j) = RingNumber(p)) = TRUE
  BY <1>4, <1>7
<1>12. Cross(p, j) /\ Cross(j, p)
  BY <1>10, <1>11 DEF Cross
<1> QED BY <1>6, <1>9, <1>12

(***************************************************************************)
(* The walk.                                                               *)
(***************************************************************************)
Boxes == [lx : Int, hx : Int, ly : Int, hy : Int]

Chain == [from : Nat, to : Nat, quad : 0 .. 3, box : Boxes, ring : Nat]

(* Chains cs, in order, that have the first k lines.                       *)
Built(cs, k) ==
  /\ cs \in Seq(Chain)
  /\ \A c \in DOMAIN cs : Fine(cs[c]) /\ cs[c].to <= k
  /\ \A c, d \in DOMAIN cs : c < d => cs[c].to < cs[d].from
  /\ \A i \in 1 .. k : \E c \in DOMAIN cs : i \in cs[c].from .. cs[c].to

(* Where the walk is after k lines.                                        *)
Walked(cs, o, k) ==
  /\ k \in 0 .. Len(lines)
  /\ k = 0 => cs = <<>>
  /\ k > 0 => o \in Chain /\ Fine(o) /\ o.to = k /\ Built(cs, o.from - 1)

(* The box of a given line.                                                *)
LEMMA GivenBoxes ==
  ASSUME Given, NEW k \in DOMAIN lines
  PROVE  /\ Box(lines[k]) \in Boxes /\ IntBox(Box(lines[k])) /\ Quadrant(lines[k]) \in 0 .. 3
         /\ Run(Quadrant(lines[k]), k, k)
<1>1. /\ lines[k].a[1] \in Int /\ lines[k].a[2] \in Int /\ lines[k].b[1] \in Int /\ lines[k].b[2] \in Int
      /\ lines[k].a \in Points /\ lines[k].b \in Points /\ k \in Int
  BY GivenLines, Points2
<1>2. Box(lines[k]) \in Boxes
  BY <1>1 DEF Box, Boxes, Lower, Upper
<1>3. IntBox(Box(lines[k]))
  BY <1>2 DEF IntBox, Boxes
<1>4. /\ Quadrant(lines[k]) \in 0 .. 3
      /\ Across(Quadrant(lines[k]), lines[k].a) <= Across(Quadrant(lines[k]), lines[k].b)
      /\ Up(Quadrant(lines[k]), lines[k].a) <= Up(Quadrant(lines[k]), lines[k].b)
  BY <1>1, QuadrantRises
<1>5. (\A i : i \in k .. k <=> i = k) /\ (\A i : i \notin (k + 1) .. k)
  BY <1>1
<1>6. Run(Quadrant(lines[k]), k, k)
  BY <1>4, <1>5, Zenon DEF Run
<1> QED BY <1>2, <1>3, <1>4, <1>6

(* A box joined with another has in it what it had.                        *)
LEMMA JoinHolds ==
  ASSUME NEW s \in Boxes, NEW t \in Boxes
  PROVE  /\ Join(s, t) \in Boxes /\ IntBox(Join(s, t))
         /\ Within(t, Join(s, t))
         /\ \A u : IntBox(u) /\ Within(u, s) => Within(u, Join(s, t))
<1>1. /\ s.lx \in Int /\ s.hx \in Int /\ s.ly \in Int /\ s.hy \in Int
      /\ t.lx \in Int /\ t.hx \in Int /\ t.ly \in Int /\ t.hy \in Int
  BY DEF Boxes
<1>2. Join(s, t) \in Boxes
  BY <1>1 DEF Join, Boxes, Lower, Upper
<1>3. IntBox(Join(s, t))
  BY <1>2 DEF IntBox, Boxes
<1>4. Within(t, Join(s, t))
  BY <1>1 DEF Within, Join, Lower, Upper
<1>5. ASSUME NEW u, IntBox(u), Within(u, s) PROVE Within(u, Join(s, t))
  BY <1>1, <1>5 DEF Within, IntBox, Join, Lower, Upper
<1> QED BY <1>2, <1>3, <1>4, <1>5

(* A chain of one line.                                                    *)
LEMMA SingleFine ==
  ASSUME Given, NEW k \in DOMAIN lines, NEW c,
         c = [from |-> k, to |-> k, quad |-> Quadrant(lines[k]), box |-> Box(lines[k]),
              ring |-> RingNumber(k)]
  PROVE  c \in Chain /\ Fine(c)
<1>1. /\ c.from = k /\ c.to = k /\ c.quad = Quadrant(lines[k]) /\ c.box = Box(lines[k])
      /\ c.ring = RingNumber(k)
  OBVIOUS
<1>2. /\ k \in Nat /\ Quadrant(lines[k]) \in 0 .. 3 /\ Box(lines[k]) \in Boxes /\ IntBox(Box(lines[k]))
      /\ RingNumber(k) \in Nat /\ Run(Quadrant(lines[k]), k, k)
  BY GivenLines, GivenBoxes, RingNumberIs
<1>3. c \in Chain
  BY <1>2 DEF Chain
<1>4. \A i : i \in k .. k <=> i = k
  BY <1>2
<1>5. Within(Box(lines[k]), Box(lines[k]))
  BY <1>2 DEF Within, IntBox
<1>6. k <= k
  BY <1>2
<1>7. Fine(c)
  BY <1>1, <1>2, <1>4, <1>5, <1>6, Zenon DEF Fine
<1> QED BY <1>3, <1>7

(* A chain whose box grows.                                                *)
LEMMA GrownFine ==
  ASSUME Given, NEW o \in Chain, Fine(o), NEW b \in Boxes, NEW c, c = [o EXCEPT !.box = Join(@, b)]
  PROVE  /\ c \in Chain /\ Fine(c)
         /\ c.from = o.from /\ c.to = o.to /\ c.quad = o.quad /\ c.ring = o.ring
         /\ c.box = Join(o.box, b)
<1>1. o.box \in Boxes /\ Join(o.box, b) \in Boxes /\ IntBox(Join(o.box, b))
  BY JoinHolds DEF Chain
<1>2. /\ c.from = o.from /\ c.to = o.to /\ c.quad = o.quad /\ c.ring = o.ring
      /\ c.box = Join(o.box, b) /\ c \in Chain
  BY <1>1 DEF Chain
<1>3. ASSUME NEW k \in o.from .. o.to
      PROVE  RingNumber(k) = c.ring /\ Within(Box(lines[k]), c.box)
  <2>1. k \in DOMAIN lines
    BY GivenLines DEF Fine
  <2>2. IntBox(Box(lines[k]))
    BY <2>1, GivenBoxes
  <2>3. RingNumber(k) = o.ring /\ Within(Box(lines[k]), o.box)
    BY DEF Fine
  <2> QED BY <1>1, <1>2, <2>2, <2>3, JoinHolds
<1>4. Fine(c)
  <2>1. /\ o.from \in DOMAIN lines /\ o.to \in DOMAIN lines /\ o.from <= o.to
        /\ Run(o.quad, o.from, o.to)
    BY DEF Fine
  <2> QED BY <1>1, <1>2, <1>3, <2>1, Zenon DEF Fine
<1> QED BY <1>2, <1>4

(* A chain that takes the next line.                                       *)
LEMMA LongerFine ==
  ASSUME Given, NEW o \in Chain, Fine(o), NEW k \in DOMAIN lines, o.to = k - 1,
         lines[k].a = lines[k - 1].b, Quadrant(lines[k]) = o.quad, NEW c,
         c = [[o EXCEPT !.box = Join(@, Box(lines[k]))] EXCEPT !.to = k]
  PROVE  c \in Chain /\ Fine(c) /\ c.from = o.from /\ c.to = k
<1> DEFINE n == Len(lines)
           g == [o EXCEPT !.box = Join(@, Box(lines[k]))]
           m == o.from
<1>1. Box(lines[k]) \in Boxes /\ k \in Nat /\ k \in Int /\ n \in Nat /\ DOMAIN lines = 1 .. n
  BY GivenBoxes, GivenLines
<1>2. /\ g \in Chain /\ Fine(g) /\ g.from = m /\ g.to = k - 1 /\ g.quad = o.quad /\ g.ring = o.ring
      /\ g.box = Join(o.box, Box(lines[k]))
  BY <1>1, GrownFine
<1>3. /\ c.from = m /\ c.to = k /\ c.quad = o.quad /\ c.ring = o.ring /\ c.box = g.box /\ c \in Chain
  <2> HIDE DEF g
  <2>1. c = [g EXCEPT !.to = k]
    BY DEF g
  <2> QED BY <1>1, <1>2, <2>1 DEF Chain
<1> HIDE DEF g
<1>4. /\ m \in DOMAIN lines /\ m \in Int /\ m <= k - 1
      /\ Run(o.quad, m, k - 1) /\ IntBox(g.box)
      /\ \A i \in m .. (k - 1) : RingNumber(i) = o.ring /\ Within(Box(lines[i]), g.box)
  BY <1>1, <1>2 DEF Fine
<1> HIDE DEF m, n
<1>5. /\ \A i \in m .. k : i = k \/ i \in m .. (k - 1)
      /\ \A i \in (m + 1) .. k : i = k \/ i \in (m + 1) .. (k - 1)
      /\ m <= k /\ k \in 2 .. n /\ k - 1 \in m .. (k - 1)
  BY <1>1, <1>4
<1>6. Run(o.quad, m, k)
  <2>1. /\ Across(o.quad, lines[k].a) <= Across(o.quad, lines[k].b)
        /\ Up(o.quad, lines[k].a) <= Up(o.quad, lines[k].b)
    <3>1. lines[k].a \in Points /\ lines[k].b \in Points
      BY GivenLines
    <3> QED BY <3>1, QuadrantRises
  <2>2. /\ \A i \in m .. (k - 1) : /\ Across(o.quad, lines[i].a) <= Across(o.quad, lines[i].b)
                                   /\ Up(o.quad, lines[i].a) <= Up(o.quad, lines[i].b)
        /\ \A i \in (m + 1) .. (k - 1) : lines[i].a = lines[i - 1].b
    BY <1>4 DEF Run
  <2> QED BY <1>5, <2>1, <2>2, Zenon DEF Run
<1>7. RingNumber(k) = o.ring
  <2>1. RingNumber(k - 1) = o.ring
    BY <1>4, <1>5
  <2>2. RingNumber(k) = RingNumber(k - 1) + 0 /\ RingNumber(k - 1) \in Nat
    <3>1. k - 1 \in DOMAIN lines
      BY <1>1, <1>5
    <3> QED BY <1>5, <3>1, RingNumberIs DEF n
  <2> QED BY <2>1, <2>2
<1>8. Within(Box(lines[k]), g.box)
  <2>1. o.box \in Boxes
    BY DEF Chain
  <2> QED BY <1>1, <1>2, <2>1, JoinHolds
<1>9. Fine(c)
  BY <1>3, <1>4, <1>5, <1>6, <1>7, <1>8, Zenon DEF Fine
<1> QED BY <1>3, <1>9 DEF m

(* A chain that goes on where those before it end.                         *)
LEMMA AppendBuilt ==
  ASSUME Given, NEW cs, NEW c \in Chain, Fine(c), Built(cs, c.from - 1)
  PROVE  Built(Append(cs, c), c.to)
<1> DEFINE m == Len(cs)
           s == c.from
           e == c.to
           ds == Append(cs, c)
<1>1. cs \in Seq(Chain) /\ m \in Nat /\ DOMAIN cs = 1 .. m
  BY DEF Built
<1>2. /\ ds \in Seq(Chain) /\ DOMAIN ds = 1 .. (m + 1) /\ ds[m + 1] = c
      /\ \A i \in 1 .. m : ds[i] = cs[i]
  BY <1>1
<1>3. s \in Nat /\ e \in Nat /\ s <= e
  BY DEF Chain, Fine
<1>4. /\ \A i \in 1 .. m : Fine(cs[i]) /\ cs[i].to <= s - 1 /\ cs[i].to \in Nat
      /\ \A i, j \in 1 .. m : i < j => cs[i].to < cs[j].from
      /\ \A i \in 1 .. (s - 1) : \E j \in 1 .. m : i \in cs[j].from .. cs[j].to
  <2>1. \A i \in 1 .. m : cs[i] \in Chain
    BY <1>1
  <2>2. \A i \in 1 .. m : cs[i].to \in Nat
    BY <2>1 DEF Chain
  <2> HIDE DEF m
  <2> QED BY <1>1, <2>2 DEF Built
<1> HIDE DEF m, ds
<1>5. ASSUME NEW i \in 1 .. (m + 1) PROVE Fine(ds[i]) /\ ds[i].to <= e
  <2>1. CASE i = m + 1
    BY <1>2, <1>3, <2>1
  <2>2. CASE i # m + 1
    <3>1. i \in 1 .. m
      BY <1>1, <2>2
    <3>2. Fine(cs[i]) /\ cs[i].to <= s - 1 /\ cs[i].to \in Nat /\ ds[i] = cs[i]
      BY <1>2, <1>4, <3>1
    <3>3. cs[i].to <= e
      <4> HIDE DEF s, e
      <4> QED BY <1>3, <3>2
    <3> QED BY <3>2, <3>3
  <2> QED BY <2>1, <2>2
<1>6. ASSUME NEW i \in 1 .. (m + 1), NEW j \in 1 .. (m + 1), i < j PROVE ds[i].to < ds[j].from
  <2>1. i \in 1 .. m /\ (j = m + 1 \/ j \in 1 .. m)
    BY <1>1, <1>6
  <2>2. CASE j = m + 1
    <3>1. ds[i].to = cs[i].to /\ cs[i].to <= s - 1 /\ cs[i].to \in Nat /\ ds[j].from = s
      BY <1>2, <1>4, <2>1, <2>2
    <3>2. cs[i].to < s
      <4> HIDE DEF s
      <4> QED BY <1>3, <3>1
    <3> QED BY <3>1, <3>2
  <2>3. CASE j \in 1 .. m
    BY <1>2, <1>4, <1>6, <2>1, <2>3
  <2> QED BY <2>1, <2>2, <2>3
<1>7. ASSUME NEW i \in 1 .. e PROVE \E j \in 1 .. (m + 1) : i \in ds[j].from .. ds[j].to
  <2>1. CASE i \in 1 .. (s - 1)
    <3>1. PICK j \in 1 .. m : i \in cs[j].from .. cs[j].to
      BY <1>4, <2>1
    <3>2. j \in 1 .. (m + 1) /\ ds[j] = cs[j]
      BY <1>1, <1>2
    <3> QED BY <3>1, <3>2
  <2>2. CASE i \notin 1 .. (s - 1)
    <3>1. i \in s .. e /\ m + 1 \in 1 .. (m + 1)
      <4>1. m + 1 \in 1 .. (m + 1)
        BY <1>1
      <4>2. i \in s .. e
        <5> HIDE DEF s, e
        <5> QED BY <1>3, <2>2
      <4> QED BY <4>1, <4>2
    <3>2. i \in ds[m + 1].from .. ds[m + 1].to
      BY <1>2, <3>1
    <3> QED BY <3>1, <3>2
  <2> QED BY <2>1, <2>2
<1>8. Built(ds, e)
  BY <1>2, <1>5, <1>6, <1>7 DEF Built
<1> QED BY <1>8 DEF ds

(* Both builders end a ring where its number changes.                      *)
LEMMA RingStartsIs ==
  ASSUME Given, NEW k \in 2 .. Len(lines)
  PROVE  RingStarts(k) <=> lines[k].a # lines[k - 1].b
<1>1. k > 1 /\ k \in DOMAIN lines /\ lines[k].starts \in BOOLEAN
  <2>1. k > 1 /\ k \in DOMAIN lines
    BY GivenLines
  <2>2. lines \in Seq(Drawing)
    BY DEF Given, Drawn
  <2>3. lines[k] \in Drawing
    BY <2>1, <2>2
  <2> QED BY <2>1, <2>3 DEF Drawing
<1>2. ~lines[k].starts => lines[k].a = lines[k - 1].b
  BY DEF Given, Drawn
<1>3. tuning.fused => (lines[k].starts => lines[k].a # lines[k - 1].b)
  BY DEF Given, Regular
<1> QED BY <1>1, <1>2, <1>3 DEF RingStarts

(* A step of the walk.                                                     *)
LEMMA TakeWalks ==
  ASSUME Given, Walked(chains, open, at), at < Len(lines)
  PROVE  Walked(TakeLine(at + 1).closed, TakeLine(at + 1).open, at + 1)
<1> DEFINE k == at + 1
           n == Len(lines)
           l == lines[k]
           New(r) == [from |-> k, to |-> k, quad |-> Quadrant(l), box |-> Box(l), ring |-> r]
           grown == [open EXCEPT !.box = Join(@, Box(l))]
<1>1. n \in Nat /\ DOMAIN lines = 1 .. n /\ at \in 0 .. n /\ at \in Nat /\ k \in DOMAIN lines /\ k \in 0 .. n
  BY GivenLines DEF Walked
<1>2. /\ k = 1 => TakeLine(k) = [closed |-> <<>>, open |-> New(0)]
      /\ k # 1 /\ RingStarts(k)
           => TakeLine(k) = [closed |-> Append(chains, grown), open |-> New(open.ring + 1)]
      /\ k # 1 /\ ~RingStarts(k) /\ Quadrant(l) # open.quad
           => TakeLine(k) = [closed |-> Append(chains, grown), open |-> New(open.ring)]
      /\ k # 1 /\ ~RingStarts(k) /\ Quadrant(l) = open.quad
           => TakeLine(k) = [closed |-> chains, open |-> [grown EXCEPT !.to = k]]
  <2> HIDE DEF k
  <2> QED BY Zenon DEF TakeLine
<1>3. CASE k = 1
  <2>1. TakeLine(k) = [closed |-> <<>>, open |-> New(0)]
    BY <1>2, <1>3
  <2>2. New(0) \in Chain /\ Fine(New(0)) /\ New(0).to = k /\ New(0).from = k
    <3>1. RingNumber(k) = 0
      BY <1>3, RingNumberIs
    <3>2. New(0) = New(RingNumber(k))
      BY <3>1
    <3>3. New(RingNumber(k)) \in Chain /\ Fine(New(RingNumber(k)))
      <4> HIDE DEF k
      <4> QED BY <1>1, SingleFine
    <3>4. New(0).to = k /\ New(0).from = k
      OBVIOUS
    <3> HIDE DEF New
    <3> QED BY <3>2, <3>3, <3>4
  <2>3. Built(<<>>, 0)
    BY DEF Built
  <2>4. TakeLine(k).closed = <<>> /\ TakeLine(k).open = New(0)
    BY <2>1
  <2>5. k > 0 /\ k - 1 = 0 /\ k # 0
    BY <1>3
  <2> HIDE DEF k, New
  <2>6. /\ New(0) \in Chain /\ Fine(New(0)) /\ New(0).to = k /\ Built(<<>>, New(0).from - 1)
    BY <2>2, <2>3, <2>5
  <2>7. Walked(<<>>, New(0), k)
    BY <1>1, <2>5, <2>6 DEF Walked
  <2> QED BY <2>4, <2>7 DEF k
<1>4. CASE k # 1
  <2>1. /\ open \in Chain /\ Fine(open) /\ open.to = at /\ Built(chains, open.from - 1)
        /\ k \in 2 .. n /\ k - 1 = at /\ k > 0 /\ at \in DOMAIN lines
    BY <1>1, <1>4 DEF Walked
  <2>2. /\ grown \in Chain /\ Fine(grown) /\ grown.from = open.from /\ grown.to = at
        /\ grown.quad = open.quad /\ grown.ring = open.ring
    <3>1. Box(l) \in Boxes
      BY <1>1, GivenBoxes
    <3> HIDE DEF l
    <3> QED BY <2>1, <3>1, GrownFine
  <2>3. Built(Append(chains, grown), at)
    <3> HIDE DEF grown
    <3> QED BY <2>1, <2>2, AppendBuilt
  <2>4. open.ring = RingNumber(at) /\ open.ring \in Nat
    <3>1. at \in open.from .. open.to
      BY <1>1, <2>1 DEF Fine, Chain
    <3> QED BY <2>1, <3>1 DEF Fine, Chain
  <2>5. RingNumber(k) = open.ring + (IF lines[k].a # lines[k - 1].b THEN 1 ELSE 0)
    <3> HIDE DEF k
    <3> QED BY <2>1, <2>4, RingNumberIs
  <2>6. RingStarts(k) <=> lines[k].a # lines[k - 1].b
    <3> HIDE DEF k
    <3> QED BY <2>1, RingStartsIs
  <2>7. ASSUME NEW r, r = RingNumber(k), TakeLine(k) = [closed |-> Append(chains, grown), open |-> New(r)]
        PROVE  Walked(TakeLine(k).closed, TakeLine(k).open, k)
    <3>1. TakeLine(k).closed = Append(chains, grown) /\ TakeLine(k).open = New(r)
      BY <2>7
    <3>2. New(r) \in Chain /\ Fine(New(r))
      <4> HIDE DEF k
      <4> QED BY <1>1, <2>7, SingleFine
    <3>3. New(r).to = k /\ New(r).from = k
      OBVIOUS
    <3> HIDE DEF k, New, grown
    <3> QED BY <1>1, <2>1, <2>3, <3>1, <3>2, <3>3, <1>4 DEF Walked
  <2>8. CASE RingStarts(k)
    <3>1. RingNumber(k) = open.ring + 1
      BY <2>5, <2>6, <2>8
    <3> HIDE DEF New, grown
    <3> QED BY <1>2, <1>4, <2>7, <2>8, <3>1
  <2>9. CASE ~RingStarts(k) /\ Quadrant(l) # open.quad
    <3>1. RingNumber(k) = open.ring
      BY <2>4, <2>5, <2>6, <2>9
    <3> HIDE DEF New, grown
    <3> QED BY <1>2, <1>4, <2>7, <2>9, <3>1
  <2>10. CASE ~RingStarts(k) /\ Quadrant(l) = open.quad
    <3> DEFINE c == [grown EXCEPT !.to = k]
    <3>1. TakeLine(k).closed = chains /\ TakeLine(k).open = c
      <4> HIDE DEF New, grown, c, l
      <4>1. TakeLine(k) = [closed |-> chains, open |-> c]
        BY <1>2, <1>4, <2>10 DEF c
      <4> QED BY <4>1
    <3>2. c \in Chain /\ Fine(c) /\ c.from = open.from /\ c.to = k
      <4>1. lines[k].a = lines[k - 1].b
        BY <2>6, <2>10
      <4> HIDE DEF k
      <4> QED BY <1>1, <2>1, <2>10, <4>1, LongerFine
    <3> HIDE DEF c, k, New, grown
    <3> QED BY <1>1, <1>4, <2>1, <3>1, <3>2 DEF Walked
  <2> QED BY <2>8, <2>9, <2>10
<1> QED BY <1>3, <1>4

(***************************************************************************)
(* What two chains have to do with the pairwise scan.                      *)
(***************************************************************************)

(* No line of chain c intersects a line of a later chain.                  *)
NoHitFrom(c) ==
  \A d \in DOMAIN chains : c < d =>
    \A i \in chains[c].from .. chains[c].to, j \in chains[d].from .. chains[d].to : ~Cross(i, j)

(* Two chains overlap if the scan finds a pair of their lines, and then    *)
(* their boxes meet.                                                       *)
LEMMA ChainsCross ==
  ASSUME Given, Built(chains, Len(lines)), NEW c \in DOMAIN chains, NEW d \in DOMAIN chains, c < d
  PROVE  /\ ComputeOverlaps(chains[c], chains[d]) => ~SmallClean
         /\ \A i \in chains[c].from .. chains[c].to, j \in chains[d].from .. chains[d].to :
              Cross(i, j) => /\ ComputeOverlaps(chains[c], chains[d])
                             /\ ~Apart(chains[c].box, chains[d].box)
<1> DEFINE x == chains[c]
           y == chains[d]
<1>1. Fine(x) /\ Fine(y) /\ x.to < y.from
  BY DEF Built
<1> HIDE DEF x, y
<1>2. ASSUME NEW i \in x.from .. x.to, NEW j \in y.from .. y.to
      PROVE  /\ i \in DOMAIN lines /\ j \in DOMAIN lines /\ i < j
             /\ RingNumber(i) = x.ring /\ RingNumber(j) = y.ring
             /\ IntBox(Box(lines[i])) /\ IntBox(x.box) /\ Within(Box(lines[i]), x.box)
             /\ IntBox(Box(lines[j])) /\ IntBox(y.box) /\ Within(Box(lines[j]), y.box)
  <2>1. /\ x.from \in DOMAIN lines /\ x.to \in DOMAIN lines
        /\ y.from \in DOMAIN lines /\ y.to \in DOMAIN lines
    BY <1>1 DEF Fine
  <2>2. i \in DOMAIN lines /\ j \in DOMAIN lines /\ i < j
    BY <1>1, <2>1, GivenLines
  <2> QED BY <1>1, <2>2, GivenBoxes DEF Fine
<1>3. ASSUME NEW i \in x.from .. x.to, NEW j \in y.from .. y.to
      PROVE  Cross(i, j) <=> PairIntersects(i, j, x.ring = y.ring)
  <2>1. RingNumber(i) = x.ring /\ RingNumber(j) = y.ring
    BY <1>2
  <2> QED BY <2>1, Zenon DEF Cross
<1>4. ComputeOverlaps(x, y) <=>
        \E i \in x.from .. x.to, j \in y.from .. y.to : PairIntersects(i, j, x.ring = y.ring)
  BY <1>1, OverlapsIs
<1>5. ASSUME ComputeOverlaps(x, y) PROVE ~SmallClean
  <2>1. PICK i \in x.from .. x.to, j \in y.from .. y.to : PairIntersects(i, j, x.ring = y.ring)
    BY <1>4, <1>5
  <2>2. i \in DOMAIN lines /\ j \in DOMAIN lines /\ i < j /\ Cross(i, j)
    BY <1>2, <1>3, <2>1
  <2> QED BY <2>2 DEF SmallClean, Cross
<1>6. ASSUME NEW i \in x.from .. x.to, NEW j \in y.from .. y.to, Cross(i, j)
      PROVE  ComputeOverlaps(x, y) /\ ~Apart(x.box, y.box)
  <2>1. ComputeOverlaps(x, y)
    BY <1>3, <1>4, <1>6
  <2>2. ~Apart(Box(lines[i]), Box(lines[j]))
    <3>1. PairIntersects(i, j, x.ring = y.ring)
      BY <1>3, <1>6
    <3>2. (x.ring = y.ring) \in BOOLEAN /\ i \in DOMAIN lines /\ j \in DOMAIN lines
      BY <1>2
    <3> QED BY <3>1, <3>2, PairIs
  <2> QED BY <1>2, <2>1, <2>2, WithinApart
<1> QED BY <1>5, <1>6 DEF x, y

(* If no two chains have a pair that intersects, no two lines do: lines of *)
(* one chain follow each other or lie apart.                               *)
LEMMA ChainsClean ==
  ASSUME Given, Built(chains, Len(lines)), \A c \in DOMAIN chains : NoHitFrom(c)
  PROVE  SmallClean
<1> SUFFICES ASSUME NEW i \in DOMAIN lines, NEW j \in DOMAIN lines, i < j, Cross(i, j)
             PROVE  FALSE
  BY DEF SmallClean, Cross
<1>1. DOMAIN lines = 1 .. Len(lines)
  BY GivenLines
<1>2. PICK c \in DOMAIN chains : i \in chains[c].from .. chains[c].to
  BY <1>1 DEF Built
<1>3. PICK d \in DOMAIN chains : j \in chains[d].from .. chains[d].to
  BY <1>1 DEF Built
<1>4. /\ c \in Int /\ d \in Int
      /\ chains[c].from \in Int /\ chains[c].to \in Int /\ chains[d].from \in Int /\ chains[d].to \in Int
  <2>1. chains \in Seq(Chain)
    BY DEF Built
  <2>2. c \in Int /\ d \in Int /\ chains[c] \in Chain /\ chains[d] \in Chain
    BY <2>1
  <2> QED BY <2>2 DEF Chain
<1>5. CASE c < d
  BY <1>2, <1>3, <1>5 DEF NoHitFrom
<1>6. CASE d < c
  <2>1. chains[d].to < chains[c].from
    BY <1>6 DEF Built
  <2> QED BY <1>1, <1>2, <1>3, <1>4, <2>1
<1>7. CASE c = d
  <2> DEFINE x == chains[c]
  <2>1. Fine(x) /\ i \in x.from .. x.to /\ j \in x.from .. x.to
    BY <1>2, <1>3, <1>7 DEF Built
  <2> HIDE DEF x
  <2>2. /\ x.from \in DOMAIN lines /\ x.to \in DOMAIN lines /\ Run(x.quad, x.from, x.to)
        /\ RingNumber(i) = x.ring /\ RingNumber(j) = x.ring
    BY <2>1 DEF Fine
  <2>3. PairIntersects(i, j, TRUE)
    <3>1. (RingNumber(i) = RingNumber(j)) = TRUE
      BY <2>2
    <3> QED BY <3>1, Zenon DEF Cross
  <2>4. j # i + 1 /\ ~Apart(Box(lines[i]), Box(lines[j]))
    BY <2>3, PairIs
  <2>5. i + 1 < j
    BY <1>1, <2>4
  <2> QED BY <2>1, <2>2, <2>4, <2>5, RunApart
<1> QED BY <1>4, <1>5, <1>6, <1>7

(***************************************************************************)
(* The invariant.                                                          *)
(***************************************************************************)

(* The sweep has tested every pair it has passed; a line that left the     *)
(* active set ends before the last left end met.                           *)
SweepPassed ==
  /\ at \in 0 .. Len(lines) /\ active \subseteq DOMAIN lines
  /\ \A k \in 1 .. at : \/ Order[k] \in active
                        \/ Box(lines[Order[k]]).hx < Box(lines[Order[at]]).lx
  /\ \A k, m \in 1 .. at : k < m => ~Cross(Order[k], Order[m])

(* The answers the searches may end with.                                  *)
Answers ==
  /\ search \in {"pairs", "tree"} => clean = SmallClean
  /\ search = "grid" /\ SmallClean => clean
  /\ search = "sweep" /\ clean => SmallClean

SearchInv ==
  /\ pc \in {"scan", "walk", "pairs", "sweep", "grid", "tree", "done"}
  /\ pc \in {"scan", "walk"} => search = "none" /\ active = {} /\ Walked(chains, open, at)
  /\ pc \in {"pairs", "sweep", "grid", "tree"} => search = pc /\ Built(chains, Len(lines))
  /\ pc = "sweep" => SweepPassed
  /\ pc = "tree" => /\ todo \subseteq DOMAIN chains
                    /\ \A c \in DOMAIN chains \ todo : NoHitFrom(c)
  /\ pc = "done" /\ search # "none" => Answers

GateInv == tuning.gate /\ Regular => Given /\ SearchInv

(* What the lines alone decide stays as they stay.                         *)
LEMMA LinesStay ==
  ASSUME lines' = lines, tuning' = tuning
  PROVE  /\ Regular' = Regular /\ Given' = Given /\ SmallClean' = SmallClean /\ Order' = Order
         /\ \A i, j : Cross(i, j)' = Cross(i, j)
         /\ \A cs, k : Built(cs, k)' = Built(cs, k)
         /\ \A cs, o, k : Walked(cs, o, k)' = Walked(cs, o, k)
<1>1. Regular' = Regular
  BY Zenon DEF Regular
<1>2. Given' = Given
  BY <1>1, Zenon DEF Given
<1>3. \A k : RingNumber(k)' = RingNumber(k)
  BY Zenon DEF RingNumber
<1>4. \A i, j, same : PairIntersects(i, j, same)' = PairIntersects(i, j, same)
  BY Zenon DEF PairIntersects
<1>5. \A i, j : Cross(i, j)' = Cross(i, j)
  BY <1>3, <1>4, Zenon DEF Cross
<1>6. SmallClean' = SmallClean
  BY <1>3, <1>4, Zenon DEF SmallClean
<1>7. \A c : Fine(c)' = Fine(c)
  BY <1>3, Zenon DEF Fine, Run
<1>8. \A cs, k : Built(cs, k)' = Built(cs, k)
  BY <1>7, Zenon DEF Built
<1>9. \A cs, o, k : Walked(cs, o, k)' = Walked(cs, o, k)
  BY <1>7, <1>8, Zenon DEF Walked
<1>10. Order' = Order
  BY OrderStays
<1> QED BY <1>1, <1>2, <1>5, <1>6, <1>8, <1>9, <1>10

(***************************************************************************)
(* The steps.                                                              *)
(***************************************************************************)

(* A search that ends.                                                     *)
LEMMA VerdictKeeps ==
  ASSUME Given, NEW v \in BOOLEAN, Verdict(v), search' = search,
         search \in {"pairs", "tree"} => v = SmallClean,
         search = "grid" /\ SmallClean => v,
         search = "sweep" /\ v => SmallClean
  PROVE  (Given /\ SearchInv)'
<1>1. lines' = lines /\ tuning' = tuning /\ pc' = "done" /\ clean' = v
  BY DEF Verdict
<1>2. Given' = Given /\ SmallClean' = SmallClean
  BY <1>1, LinesStay
<1> QED BY <1>1, <1>2 DEF SearchInv, Answers

(* A scan that does not end the search leaves it to the walk.              *)
LEMMA GateScanKeeps ==
  ASSUME Given, SearchInv, Scan
  PROVE  (Given /\ SearchInv)'
<1>1. /\ pc = "scan" /\ search = "none" /\ search' = search /\ chains' = chains /\ open' = open
  BY DEF Scan, SearchInv
<1>2. CASE tuning.fused /\ Implausible
  <2>1. Verdict(FALSE)
    BY <1>2 DEF Scan
  <2> QED BY <1>1, <2>1, VerdictKeeps
<1>3. CASE ~(tuning.fused /\ Implausible)
  <2>1. /\ pc' = "walk" /\ lines' = lines /\ tuning' = tuning /\ at' = at /\ active' = active
    BY <1>3 DEF Scan
  <2>2. Given' = Given /\ \A cs, o, k : Walked(cs, o, k)' = Walked(cs, o, k)
    BY <2>1, LinesStay
  <2>3. active = {} /\ Walked(chains, open, at)
    BY <1>1 DEF SearchInv
  <2> QED BY <1>1, <2>1, <2>2, <2>3 DEF SearchInv
<1> QED BY <1>2, <1>3

(* The walk takes a line.                                                  *)
LEMMA PushKeeps ==
  ASSUME Given, SearchInv, PushLine
  PROVE  (Given /\ SearchInv)'
<1>1. /\ pc = "walk" /\ at < Len(lines) /\ pc' = pc /\ search' = search /\ active' = active
      /\ lines' = lines /\ tuning' = tuning /\ at' = at + 1
      /\ chains' = TakeLine(at + 1).closed /\ open' = TakeLine(at + 1).open
  BY DEF PushLine
<1>2. Given' = Given /\ \A cs, o, k : Walked(cs, o, k)' = Walked(cs, o, k)
  BY <1>1, LinesStay
<1>3. search = "none" /\ active = {} /\ Walked(chains, open, at)
  BY <1>1 DEF SearchInv
<1>4. Walked(chains', open', at')
  BY <1>1, <1>3, TakeWalks
<1> QED BY <1>1, <1>2, <1>3, <1>4 DEF SearchInv

(* The walk ends and a search starts.                                      *)
LEMMA FinishKeeps ==
  ASSUME Given, SearchInv, Finish
  PROVE  (Given /\ SearchInv)'
<1>1. /\ pc = "walk" /\ at = Len(lines) /\ active' = active /\ lines' = lines /\ tuning' = tuning
      /\ at' = 0 /\ pc' = search' /\ search' \in {"pairs", "sweep", "grid"}
      /\ chains' = Append(chains, open)
  BY DEF Finish
<1>2. /\ Given' = Given /\ \A cs, k : Built(cs, k)' = Built(cs, k)
  BY <1>1, LinesStay
<1>3. active = {} /\ Walked(chains, open, at)
  BY <1>1 DEF SearchInv
<1>4. Len(lines) \in Nat /\ Len(lines) > 0
  BY GivenLines
<1>5. Built(Append(chains, open), Len(lines))
  <2>1. open \in Chain /\ Fine(open) /\ open.to = Len(lines) /\ Built(chains, open.from - 1)
    BY <1>1, <1>3, <1>4 DEF Walked
  <2> QED BY <2>1, AppendBuilt
<1>6. SweepPassed'
  <2>1. 1 .. 0 = {}
    OBVIOUS
  <2> QED BY <1>1, <1>3, <1>4, <2>1 DEF SweepPassed
<1> QED BY <1>1, <1>2, <1>5, <1>6 DEF SearchInv

(* The pairwise scan itself.                                               *)
LEMMA GatePairsKeeps ==
  ASSUME Given, SearchInv, Pairs
  PROVE  (Given /\ SearchInv)'
<1>1. search = "pairs" /\ Verdict(SmallClean) /\ search' = search
  BY DEF Pairs, SearchInv
<1>2. SmallClean \in BOOLEAN
  BY DEF SmallClean
<1> HIDE DEF SmallClean
<1> QED BY <1>1, <1>2, VerdictKeeps

(* The sweep answers once every pair has been passed.                      *)
LEMMA EdgeSweepEndsKeeps ==
  ASSUME Given, SearchInv, EdgeSweepEnds
  PROVE  (Given /\ SearchInv)'
<1>1. pc = "sweep" /\ search = "sweep" /\ at = Len(lines) /\ Verdict(TRUE) /\ search' = search
  BY DEF EdgeSweepEnds, SearchInv
<1>2. Len(lines) \in Nat /\ DOMAIN lines = 1 .. Len(lines)
  BY GivenLines
<1>3. \A k, m \in DOMAIN lines : k < m => ~Cross(Order[k], Order[m])
  BY <1>1, <1>2 DEF SearchInv, SweepPassed
<1>4. Placed
  BY <1>2, GivenBoxes DEF Placed, IntBox
<1>5. ASSUME NEW i \in DOMAIN lines, NEW j \in DOMAIN lines, i # j
      PROVE  ~Cross(i, j) \/ ~Cross(j, i)
  <2>1. PICK k \in DOMAIN lines : Order[k] = i
    BY <1>4, OrderIs
  <2>2. PICK m \in DOMAIN lines : Order[m] = j
    BY <1>4, OrderIs
  <2>3. k < m \/ m < k
    BY <1>2, <1>5, <2>1, <2>2
  <2> QED BY <1>3, <2>1, <2>2, <2>3
<1>6. SmallClean
  BY <1>5, OneOrderEnough
<1> QED BY <1>1, <1>6, VerdictKeeps

(* A step of the sweep tests the new line against those still active.      *)
LEMMA EdgeSweepKeeps ==
  ASSUME Given, SearchInv, EdgeSweep
  PROVE  (Given /\ SearchInv)'
<1> DEFINE n == Len(lines)
           j == Order[at + 1]
           H(i) == ~Apart(Box(lines[i]), Box(lines[j]))
                     /\ PairIntersects(i, j, RingNumber(i) = RingNumber(j))
<1>1. pc = "sweep" /\ search = "sweep" /\ at < n /\ chains' = chains /\ open' = open
  BY DEF EdgeSweep, SearchInv
<1>2. n \in Nat /\ DOMAIN lines = 1 .. n
  BY GivenLines
<1>3. /\ at \in 0 .. n /\ active \subseteq DOMAIN lines
      /\ \A k \in 1 .. at : \/ Order[k] \in active
                            \/ Box(lines[Order[k]]).hx < Box(lines[Order[at]]).lx
      /\ \A k, m \in 1 .. at : k < m => ~Cross(Order[k], Order[m])
      /\ Built(chains, n)
  BY <1>1 DEF SearchInv, SweepPassed
<1>4. Placed
  BY <1>2, GivenBoxes DEF Placed, IntBox
<1>5. at + 1 \in DOMAIN lines /\ j \in DOMAIN lines /\ at \in Nat
  <2>1. at + 1 \in DOMAIN lines /\ at \in Nat
    BY <1>1, <1>2, <1>3
  <2> QED BY <1>4, <2>1, OrderIs
<1>6. CASE Cardinality(active) > tuning.dense
  <2>1. /\ pc' = "grid" /\ search' = "grid" /\ lines' = lines /\ tuning' = tuning
    BY <1>6 DEF EdgeSweep
  <2>2. Given' = Given /\ \A cs, k : Built(cs, k)' = Built(cs, k)
    BY <2>1, LinesStay
  <2> QED BY <1>1, <1>3, <2>1, <2>2 DEF SearchInv
<1>7. CASE ~(Cardinality(active) > tuning.dense) /\ \E i \in Retained(j) : H(i)
  <2>1. Verdict(FALSE) /\ search' = search
    BY <1>7 DEF EdgeSweep
  <2> QED BY <1>1, <2>1, VerdictKeeps
<1>8. CASE ~(Cardinality(active) > tuning.dense) /\ ~\E i \in Retained(j) : H(i)
  <2>1. /\ active' = Retained(j) \cup {j} /\ at' = at + 1 /\ pc' = pc /\ search' = search
        /\ lines' = lines /\ tuning' = tuning
    BY <1>8 DEF EdgeSweep
  <2>2. Retained(j) = {p \in active : Box(lines[p]).hx >= Box(lines[j]).lx}
    BY DEF Retained
  <2>3. ASSUME NEW k \in 1 .. at
        PROVE  /\ Order[k] \in DOMAIN lines /\ Order[k] # j
               /\ Order[k] \in Retained(j) \/ Box(lines[Order[k]]).hx < Box(lines[j]).lx
    <3>1. k \in DOMAIN lines /\ at \in DOMAIN lines /\ k < at + 1
      BY <1>2, <1>3
    <3>2. /\ Order[k] \in DOMAIN lines /\ Order[at] \in DOMAIN lines
          /\ Box(lines[Order[at]]).lx <= Box(lines[j]).lx /\ Order[k] # j
      <4>1. at < at + 1 /\ at + 1 \in DOMAIN lines
        BY <1>5
      <4> QED BY <1>5, <3>1, <4>1, <1>4, OrderIs
    <3>3. /\ Box(lines[Order[k]]).hx \in Int /\ Box(lines[Order[at]]).lx \in Int
          /\ Box(lines[j]).lx \in Int
      BY <1>5, <3>2, GivenBoxes DEF IntBox
    <3>4. CASE Order[k] \in active
      BY <2>2, <3>2, <3>3, <3>4
    <3>5. CASE Box(lines[Order[k]]).hx < Box(lines[Order[at]]).lx
      BY <3>2, <3>3, <3>5
    <3> QED BY <1>3, <3>2, <3>4, <3>5
  <2>4. ASSUME NEW k \in 1 .. at, Cross(Order[k], j) PROVE FALSE
    <3>1. /\ Order[k] \in DOMAIN lines
          /\ Order[k] \in Retained(j) \/ Box(lines[Order[k]]).hx < Box(lines[j]).lx
      BY <2>3
    <3>2. ~Apart(Box(lines[Order[k]]), Box(lines[j]))
      <4> HIDE DEF j
      <4> QED BY <1>5, <2>4, <3>1, CrossIs
    <3>3. Order[k] \in Retained(j)
      BY <3>1, <3>2 DEF Apart
    <3>4. H(Order[k])
      <4> HIDE DEF j
      <4> QED BY <2>4, <3>2 DEF Cross
    <3> HIDE DEF H, j
    <3> QED BY <1>8, <3>3, <3>4
  <2>5. at' \in 0 .. n /\ active' \subseteq DOMAIN lines
    BY <1>1, <1>2, <1>3, <1>5, <2>1, <2>2
  <2>6. ASSUME NEW k \in 1 .. at'
        PROVE  Order[k] \in active' \/ Box(lines[Order[k]]).hx < Box(lines[Order[at']]).lx
    <3>1. Order[at'] = j /\ (k = at + 1 \/ k \in 1 .. at)
      BY <1>5, <2>1
    <3>2. CASE k = at + 1
      BY <2>1, <3>2
    <3>3. CASE k \in 1 .. at
      BY <2>1, <2>3, <3>1, <3>3
    <3> QED BY <3>1, <3>2, <3>3
  <2>7. ASSUME NEW k \in 1 .. at', NEW m \in 1 .. at', k < m
        PROVE  ~Cross(Order[k], Order[m])
    <3>1. k \in 1 .. at /\ (m = at + 1 \/ m \in 1 .. at)
      BY <1>5, <2>1, <2>7
    <3>2. CASE m = at + 1
      BY <2>4, <3>1, <3>2
    <3>3. CASE m \in 1 .. at
      BY <1>3, <2>7, <3>1, <3>3
    <3> QED BY <3>1, <3>2, <3>3
  <2>8. /\ Given' = Given /\ Order' = Order /\ \A i, k : Cross(i, k)' = Cross(i, k)
        /\ \A cs, k : Built(cs, k)' = Built(cs, k)
    BY <2>1, LinesStay
  <2> HIDE DEF j, H
  <2>9. SweepPassed'
    BY <2>1, <2>5, <2>6, <2>7, <2>8 DEF SweepPassed
  <2> QED BY <1>1, <1>3, <2>1, <2>8, <2>9 DEF SearchInv
<1> QED BY <1>6, <1>7, <1>8

(* The grid rejects only what the pairwise scan rejects.                   *)
LEMMA GateGridKeeps ==
  ASSUME Given, SearchInv, Grid
  PROVE  (Given /\ SearchInv)'
<1> DEFINE cells == [c \in DOMAIN chains |-> ChainCells(chains[c])]
           found == \E c, d \in DOMAIN chains :
                      /\ c < d /\ cells[c] \cap cells[d] # {}
                      /\ ComputeOverlaps(chains[c], chains[d])
<1>1. /\ pc = "grid" /\ search = "grid" /\ chains' = chains /\ Built(chains, Len(lines))
  BY DEF Grid, SearchInv
<1>2. CASE Crowded(cells)
  <2>1. /\ pc' = "tree" /\ search' = "tree" /\ todo' = DOMAIN chains
        /\ lines' = lines /\ tuning' = tuning
    BY <1>2 DEF Grid
  <2>2. Given' = Given /\ \A cs, k : Built(cs, k)' = Built(cs, k)
    BY <2>1, LinesStay
  <2>3. Built(chains, Len(lines))'
    BY <1>1, <2>1, <2>2
  <2>4. DOMAIN chains' \ todo' = {} /\ todo' \subseteq DOMAIN chains'
    BY <1>1, <2>1
  <2> QED BY <2>1, <2>2, <2>3, <2>4 DEF SearchInv
<1>3. CASE ~Crowded(cells)
  <2>1. Verdict(~found) /\ search' = search
    BY <1>3 DEF Grid
  <2>2. found => ~SmallClean
    BY <1>1, ChainsCross
  <2>3. (~found) \in BOOLEAN
    OBVIOUS
  <2> HIDE DEF found
  <2> QED BY <1>1, <2>1, <2>2, <2>3, VerdictKeeps
<1> QED BY <1>2, <1>3

(* The tree search has found no pair on the chains it is done with.        *)
LEMMA TreeChainKeeps ==
  ASSUME Given, SearchInv, TreeChain
  PROVE  (Given /\ SearchInv)'
<1>1. /\ pc = "tree" /\ search = "tree" /\ chains' = chains /\ search' = search
      /\ Built(chains, Len(lines)) /\ todo \subseteq DOMAIN chains
      /\ \A c \in DOMAIN chains \ todo : NoHitFrom(c)
  BY DEF TreeChain, SearchInv
<1> DEFINE H(c, d) == c < d /\ ~Apart(chains[c].box, chains[d].box)
                        /\ ComputeOverlaps(chains[c], chains[d])
<1>2. PICK c \in todo :
        IF \E d \in DOMAIN chains : H(c, d) THEN Verdict(FALSE)
        ELSE IF todo = {c} THEN Verdict(TRUE)
        ELSE todo' = todo \ {c} /\ UNCHANGED <<rings, lines, tuning, pc, at, active, clean, errors>>
  BY DEF TreeChain
<1>3. c \in DOMAIN chains
  BY <1>1
<1>4. CASE \E d \in DOMAIN chains : H(c, d)
  <2>1. ~SmallClean
    BY <1>1, <1>3, <1>4, ChainsCross
  <2>2. Verdict(FALSE)
    BY <1>2, <1>4
  <2>3. SmallClean = FALSE
    BY <2>1 DEF SmallClean
  <2> QED BY <1>1, <2>2, <2>3, VerdictKeeps
<1>5. CASE ~\E d \in DOMAIN chains : H(c, d)
  <2>1. NoHitFrom(c)
    <3> SUFFICES ASSUME NEW d \in DOMAIN chains, c < d,
                        NEW i \in chains[c].from .. chains[c].to,
                        NEW j \in chains[d].from .. chains[d].to, Cross(i, j)
                 PROVE  FALSE
      BY DEF NoHitFrom
    <3>1. H(c, d)
      BY <1>1, <1>3, ChainsCross
    <3> QED BY <1>5, <3>1
  <2>2. CASE todo = {c}
    <3>1. \A d \in DOMAIN chains : NoHitFrom(d)
      BY <1>1, <2>1, <2>2
    <3>2. SmallClean
      BY <1>1, <3>1, ChainsClean
    <3>3. Verdict(TRUE)
      BY <1>2, <1>5, <2>2
    <3> QED BY <1>1, <3>2, <3>3, VerdictKeeps
  <2>3. CASE todo # {c}
    <3>1. /\ todo' = todo \ {c} /\ lines' = lines /\ tuning' = tuning /\ pc' = pc
      BY <1>2, <1>5, <2>3
    <3>2. /\ Given' = Given /\ \A cs, k : Built(cs, k)' = Built(cs, k)
          /\ \A i, j : Cross(i, j)' = Cross(i, j)
      BY <3>1, LinesStay
    <3>3. Built(chains, Len(lines))'
      BY <1>1, <3>1, <3>2
    <3>4. todo' \subseteq DOMAIN chains' /\ \A d \in DOMAIN chains' \ todo' : NoHitFrom(d)
      BY <1>1, <2>1, <3>1
    <3>5. \A d : NoHitFrom(d)' = NoHitFrom(d)
      BY <1>1, <3>2, Zenon DEF NoHitFrom
    <3> QED BY <1>1, <3>1, <3>2, <3>3, <3>4, <3>5 DEF SearchInv
  <2> QED BY <2>2, <2>3
<1> QED BY <1>4, <1>5

(* The gate starts at the scan with the lines of its rings.                *)
LEMMA GateInit == Init => GateInv
<1> SUFFICES ASSUME Init, tuning.gate, Regular PROVE Given /\ SearchInv
  BY DEF GateInv
<1>1. rings \in Seq(Seq(Points) \ {<<>>}) /\ rings # <<>>
  BY InputsAreRings DEF Init
<1>2. Drawn(lines) /\ Len(lines) >= 1
  BY <1>1, LinesDrawn DEF Init
<1>3. Given
  BY <1>2 DEF Given
<1>4. pc = "scan" /\ search = "none" /\ chains = <<>> /\ at = 0 /\ active = {}
  BY DEF Init
<1>5. Walked(chains, open, at)
  BY <1>3, <1>4, GivenLines DEF Walked
<1> QED BY <1>3, <1>4, <1>5 DEF SearchInv

(* Every step keeps the invariant: the validator's steps are not the       *)
(* gate's.                                                                 *)
LEMMA GateNext == GateInv /\ [Next]_vars => GateInv'
<1> SUFFICES ASSUME GateInv, [Next]_vars, tuning.gate', Regular' PROVE (Given /\ SearchInv)'
  BY DEF GateInv
<1>1. lines' = lines /\ tuning' = tuning
  BY DEF vars, Next, Gate, Validator, Scan, PushLine, Finish, Pairs, EdgeSweep, EdgeSweepEnds, Grid,
         TreeChain, Verdict, RingScan, RingPairs, RingSweep, RingSweepEnds, SegGrid, RingTree,
         Wind, Find
<1>2. /\ Regular' = Regular /\ Given' = Given /\ SmallClean' = SmallClean /\ Order' = Order
      /\ \A i, j : Cross(i, j)' = Cross(i, j)
      /\ \A cs, k : Built(cs, k)' = Built(cs, k)
      /\ \A cs, o, k : Walked(cs, o, k)' = Walked(cs, o, k)
  BY <1>1, LinesStay
<1>3. Given /\ SearchInv
  BY <1>1, <1>2 DEF GateInv
<1>4. CASE UNCHANGED vars
  <2>1. /\ pc' = pc /\ search' = search /\ chains' = chains /\ open' = open /\ at' = at
        /\ active' = active /\ todo' = todo /\ clean' = clean
    BY <1>4 DEF vars
  <2>2. \A c : NoHitFrom(c)' = NoHitFrom(c)
    BY <1>2, <2>1, Zenon DEF NoHitFrom
  <2>3. SweepPassed' = SweepPassed
    BY <1>1, <1>2, <2>1, Zenon DEF SweepPassed
  <2>4. Answers' = Answers
    BY <1>2, <2>1, Zenon DEF Answers
  <2>5. Built(chains, Len(lines))' = Built(chains, Len(lines))
    BY <1>1, <1>2, <2>1
  <2>6. Walked(chains, open, at)' = Walked(chains, open, at)
    BY <1>2, <2>1
  <2>7. SearchInv'
    BY <1>3, <2>1, <2>2, <2>3, <2>4, <2>5, <2>6 DEF SearchInv
  <2> QED BY <1>2, <1>3, <2>7
<1>5. CASE Next
  <2>1. ~Validator
    BY <1>3 DEF SearchInv, Validator, RingScan, RingPairs, RingSweep, RingSweepEnds, SegGrid, RingTree
  <2>2. Gate
    BY <1>5, <2>1 DEF Next
  <2> QED
    BY <1>3, <2>2, GateScanKeeps, PushKeeps, FinishKeeps, GatePairsKeeps, EdgeSweepKeeps,
       EdgeSweepEndsKeeps, GateGridKeeps, TreeChainKeeps DEF Gate
<1> QED BY <1>4, <1>5

(* The validator's check enters none of the gate's searches.               *)
NoSearch ==
  ~tuning.gate => search = "none" /\ pc \in {"ring", "done"} \cup Searching

(* Without the gate none of its searches is started.                       *)
LEMMA NoSearchStays == (Init => NoSearch) /\ (NoSearch /\ [Next]_vars => NoSearch')
<1>1. Init => NoSearch
  BY DEF Init, NoSearch
<1>2. ASSUME NoSearch, [Next]_vars PROVE NoSearch'
  <2>1. CASE UNCHANGED vars
    BY <1>2, <2>1 DEF vars, NoSearch, Searching
  <2>2. CASE Gate
    <3>1. tuning' = tuning
      BY <2>2 DEF Gate, Scan, PushLine, Finish, Pairs, EdgeSweep, EdgeSweepEnds, Grid, TreeChain, Verdict
    <3>2. tuning.gate
      BY <1>2, <2>2 DEF NoSearch, Searching, Gate, Scan, PushLine, Finish, Pairs, EdgeSweep,
                        EdgeSweepEnds, Grid, TreeChain
    <3> QED BY <3>1, <3>2 DEF NoSearch
  <2>3. CASE Validator
    <3>1. /\ tuning' = tuning /\ search' = search
          /\ pc' \in {"done", "ringpairs", "ringsweep", "seggrid", "ringtree"}
      BY <2>3 DEF Validator, RingScan, RingPairs, RingSweep, RingSweepEnds, SegGrid, RingTree, Wind, Find
    <3> QED BY <1>2, <3>1 DEF NoSearch, Searching
  <2> QED BY <1>2, <2>1, <2>2, <2>3 DEF Next
<1> QED BY <1>1, <1>2

(* Whichever search the gate ends in, its answer agrees with the pairwise  *)
(* scan as far as the code relies on: the tree's is the same, the grid     *)
(* rejects nothing more and the sweep passes nothing more.                 *)
(* has_no_intersections_from_chains, rec_overlaps, edge_sweep.             *)
THEOREM SearchesAgree == Spec => []NoPathStrays
<1>1. GateInv /\ NoSearch => NoPathStrays
  <2> SUFFICES ASSUME GateInv, NoSearch, Searched, Regular
               PROVE  /\ search \in {"pairs", "tree"} => clean = SmallClean
                      /\ search = "grid" /\ SmallClean => clean
                      /\ search = "sweep" /\ clean => SmallClean
    BY DEF NoPathStrays
  <2>1. CASE tuning.gate
    BY <2>1 DEF GateInv, SearchInv, Searched, Answers
  <2> QED BY <2>1 DEF NoSearch, Searched
<1> QED BY <1>1, GateInit, GateNext, NoSearchStays, PTL DEF Spec
=============================================================================
