-------------------------- MODULE MergeShells_proofs --------------------------
(***************************************************************************)
(* Proofs about MergeShells, for every set of lists of repaired shells.    *)
(***************************************************************************)
EXTENDS MergeShells, FunctionTheorems, FiniteSetTheorems, SequenceTheorems, TLAPS

(***************************************************************************)
(* Lists of shells and how often a ring occurs in them.                    *)
(***************************************************************************)

Places(list, r) == {k \in DOMAIN list : list[k].ring = r}

(* RemoveAt closes the gap it leaves.                                      *)
LEMMA RemoveAtIs ==
  ASSUME NEW S, NEW s \in Seq(S), NEW i \in 1 .. Len(s)
  PROVE  /\ RemoveAt(s, i) \in Seq(S)
         /\ Len(RemoveAt(s, i)) = Len(s) - 1
         /\ \A k \in 1 .. (Len(s) - 1) :
              RemoveAt(s, i)[k] = IF k < i THEN s[k] ELSE s[k + 1]
<1> DEFINE a == SubSeq(s, 1, i - 1)
           b == SubSeq(s, i + 1, Len(s))
<1>1. /\ a \in Seq(S) /\ Len(a) = i - 1
      /\ \A k \in 1 .. (i - 1) : a[k] = s[k]
  OBVIOUS
<1>2. /\ b \in Seq(S) /\ Len(b) = Len(s) - i
      /\ \A k \in 1 .. (Len(s) - i) : b[k] = s[i + k]
  OBVIOUS
<1>3. RemoveAt(s, i) = a \o b
  BY DEF RemoveAt
<1> HIDE DEF a, b
<1>4. /\ a \o b \in Seq(S)
      /\ Len(a \o b) = Len(a) + Len(b)
      /\ \A k \in 1 .. Len(a) + Len(b) :
           (a \o b)[k] = IF k <= Len(a) THEN a[k] ELSE b[k - Len(a)]
  BY <1>1, <1>2, ConcatProperties
<1>5. ASSUME NEW k \in 1 .. (Len(s) - 1)
      PROVE  RemoveAt(s, i)[k] = IF k < i THEN s[k] ELSE s[k + 1]
  <2>1. CASE k < i
    BY <1>1, <1>2, <1>3, <1>4, <2>1
  <2>2. CASE ~(k < i)
    <3>1. /\ ~(k <= Len(a)) /\ k \in 1 .. Len(a) + Len(b)
          /\ k - Len(a) \in 1 .. (Len(s) - i) /\ i + (k - Len(a)) = k + 1
      BY <1>1, <1>2, <2>2
    <3> QED BY <1>2, <1>3, <1>4, <2>2, <3>1
  <2> QED BY <2>1, <2>2
<1> QED
  BY <1>1, <1>2, <1>3, <1>4, <1>5

(* The places of a ring in a list are finitely many.                       *)
LEMMA PlacesFinite ==
  ASSUME NEW s \in Seq(Shells), NEW r
  PROVE  /\ IsFiniteSet(Places(s, r))
         /\ Copies(s, r) = Cardinality(Places(s, r))
         /\ Copies(s, r) \in Nat
<1>1. IsFiniteSet(1 .. Len(s)) /\ DOMAIN s = 1 .. Len(s)
  BY FS_Interval
<1>2. Places(s, r) \in SUBSET (1 .. Len(s))
  BY <1>1 DEF Places
<1>3. IsFiniteSet(Places(s, r))
  BY <1>1, <1>2, FS_Subset
<1>4. Copies(s, r) = Cardinality(Places(s, r))
  BY DEF Copies, Places
<1> QED
  BY <1>3, <1>4, FS_CardinalityType

(* Taking a shell out takes one copy of its ring out.                      *)
LEMMA CopiesRemoved ==
  ASSUME NEW s \in Seq(Shells), NEW i \in 1 .. Len(s), NEW r
  PROVE  Copies(RemoveAt(s, i), r) = Copies(s, r) - (IF s[i].ring = r THEN 1 ELSE 0)
<1> DEFINE t == RemoveAt(s, i)
           P == Places(s, r) \ {i}
           Q == Places(t, r)
           f == [k \in Q |-> IF k < i THEN k ELSE k + 1]
<1>1. /\ t \in Seq(Shells) /\ Len(t) = Len(s) - 1
      /\ \A k \in 1 .. (Len(s) - 1) : t[k] = IF k < i THEN s[k] ELSE s[k + 1]
  BY RemoveAtIs
<1> HIDE DEF t
<1>2. /\ IsFiniteSet(Q) /\ Copies(t, r) = Cardinality(Q)
      /\ IsFiniteSet(Places(s, r)) /\ Copies(s, r) = Cardinality(Places(s, r))
  BY <1>1, PlacesFinite
<1>3. f \in [Q -> P]
  BY <1>1 DEF Places
<1>4. \A a, b \in Q : f[a] = f[b] => a = b
  BY <1>1 DEF Places
<1>5. ASSUME NEW m \in P PROVE \E k \in Q : f[k] = m
  <2>1. CASE m < i
    <3>1. m \in Q /\ f[m] = m
      BY <1>1, <2>1 DEF Places
    <3> QED BY <3>1
  <2>2. CASE m > i
    <3>1. m - 1 \in Q /\ f[m - 1] = m
      BY <1>1, <2>2 DEF Places
    <3> QED BY <3>1
  <2> QED BY <2>1, <2>2 DEF Places
<1>6. f \in Bijection(Q, P)
  BY <1>3, <1>4, <1>5, Fun_IsBij, Zenon
<1>7. Cardinality(P) = Cardinality(Q)
  BY <1>2, <1>6, FS_Bijection, Fun_ExistsBij
<1>8. Cardinality(P) = IF i \in Places(s, r) THEN Cardinality(Places(s, r)) - 1
                                             ELSE Cardinality(Places(s, r))
  BY <1>2, FS_RemoveElement
<1>9. i \in Places(s, r) <=> s[i].ring = r
  BY DEF Places
<1>10. Cardinality(Places(s, r)) \in Nat
  BY <1>2, FS_CardinalityType
<1> QED
  BY <1>2, <1>7, <1>8, <1>9, <1>10 DEF t

(***************************************************************************)
(* Sorting by size is a permutation, and sorts.                            *)
(***************************************************************************)

(* Counting an interval.                                                   *)
LEMMA Intervals ==
  ASSUME NEW n \in Nat
  PROVE  /\ IsFiniteSet(1 .. n) /\ Cardinality(1 .. n) = n
         /\ IsFiniteSet(0 .. (n - 1)) /\ Cardinality(0 .. (n - 1)) = n
<1>1. 1 \in Int /\ 0 \in Int /\ n \in Int /\ n - 1 \in Int
  OBVIOUS
<1>2. IsFiniteSet(1 .. n) /\ Cardinality(1 .. n) = IF 1 > n THEN 0 ELSE n - 1 + 1
  BY <1>1, FS_Interval, Zenon
<1>3. IsFiniteSet(0 .. (n - 1)) /\ Cardinality(0 .. (n - 1)) = IF 0 > n - 1 THEN 0 ELSE n - 1 - 0 + 1
  BY <1>1, FS_Interval, Zenon
<1> QED
  BY <1>2, <1>3

(* The shells of a list, their sizes and what comes before one of them.    *)
LEMMA BeforeFacts ==
  ASSUME NEW s \in Seq(Shells)
  PROVE  /\ \A i \in DOMAIN s : s[i] \in Shells /\ Size(s[i]) \in Int
         /\ \A i \in DOMAIN s : /\ IsFiniteSet(Before(s, i))
                                /\ Cardinality(Before(s, i)) \in 0 .. (Len(s) - 1)
         /\ \A i, j \in DOMAIN s : i # j => i \in Before(s, j) \/ j \in Before(s, i)
         /\ \A i, j \in DOMAIN s : j \in Before(s, i) =>
              Cardinality(Before(s, j)) < Cardinality(Before(s, i))
<1> DEFINE D == 1 .. Len(s)
<1>1. DOMAIN s = D /\ IsFiniteSet(D) /\ Cardinality(D) = Len(s)
  BY Intervals
<1>2. \A i \in D : s[i] \in Shells /\ Size(s[i]) \in Int
  BY DEF Shells, Boxes, Size
<1>3. ASSUME NEW i \in D
      PROVE  /\ Before(s, i) \in SUBSET (D \ {i})
             /\ IsFiniteSet(Before(s, i))
             /\ Cardinality(Before(s, i)) \in Nat
             /\ Cardinality(Before(s, i)) <= Len(s) - 1
  <2>1. Before(s, i) \in SUBSET (D \ {i})
    BY <1>1, <1>2 DEF Before
  <2>2. IsFiniteSet(D \ {i}) /\ Cardinality(D \ {i}) = Len(s) - 1
    BY <1>1, FS_RemoveElement
  <2> QED BY <2>1, <2>2, FS_Subset, FS_CardinalityType
<1>4. \A i, j \in D : i # j => i \in Before(s, j) \/ j \in Before(s, i)
  BY <1>1, <1>2 DEF Before
<1>5. ASSUME NEW i \in D, NEW j \in D, j \in Before(s, i)
      PROVE  Cardinality(Before(s, j)) < Cardinality(Before(s, i))
  <2>1. Before(s, j) \in SUBSET Before(s, i) /\ j \notin Before(s, j)
    BY <1>1, <1>2, <1>5 DEF Before
  <2> QED
    BY <1>3, <1>5, <2>1, FS_Subset, FS_CardinalityType
<1> QED
  BY <1>1, <1>2, <1>3, <1>4, <1>5

(* BySize moves every shell to one place, larger ones first.               *)
LEMMA SortPermutes ==
  ASSUME NEW s \in Seq(Shells)
  PROVE  /\ BySize(s) \in Seq(Shells) /\ Len(BySize(s)) = Len(s)
         /\ \E p \in Bijection(DOMAIN s, DOMAIN s) :
              \A k \in DOMAIN s : BySize(s)[k] = s[p[k]]
         /\ \A i, j \in DOMAIN s : i < j => Size(BySize(s)[i]) >= Size(BySize(s)[j])
<1> DEFINE D == 1 .. Len(s)
           E == 0 .. (Len(s) - 1)
           rank == [i \in D |-> Cardinality(Before(s, i))]
           p == [k \in D |-> CHOOSE i \in D : Cardinality(Before(s, i)) = k - 1]
<1>1. /\ DOMAIN s = D /\ IsFiniteSet(D) /\ Cardinality(D) = Len(s)
      /\ IsFiniteSet(E) /\ Cardinality(E) = Len(s)
  BY Intervals
<1>2. /\ \A i \in D : s[i] \in Shells /\ Size(s[i]) \in Int
      /\ \A i \in D : Cardinality(Before(s, i)) \in E
      /\ \A i, j \in D : i # j => i \in Before(s, j) \/ j \in Before(s, i)
      /\ \A i, j \in D : j \in Before(s, i) =>
           Cardinality(Before(s, j)) < Cardinality(Before(s, i))
  BY <1>1, BeforeFacts
<1>3. rank \in [D -> E] /\ \A i, j \in D : rank[i] = rank[j] => i = j
  BY <1>2
<1>4. rank \in Injection(D, E)
  BY <1>3, Fun_IsInj, Zenon
<1>5. rank \in Surjection(D, E)
  BY <1>1, <1>4, FS_Injection
<1>6. ASSUME NEW k \in D PROVE p[k] \in D /\ Cardinality(Before(s, p[k])) = k - 1
  <2>1. k - 1 \in E
    OBVIOUS
  <2>2. PICK i \in D : rank[i] = k - 1
    BY <1>5, <2>1 DEF Surjection
  <2>3. Cardinality(Before(s, i)) = k - 1
    BY <2>2
  <2> QED BY <2>3
<1> HIDE DEF p, rank
<1>7. p \in [D -> D]
  BY <1>6 DEF p
<1>8. \A i, j \in D : p[i] = p[j] => i = j
  BY <1>6
<1>9. p \in Injection(D, D)
  BY <1>7, <1>8, Fun_IsInj, Zenon
<1>10. p \in Bijection(D, D)
  BY <1>1, <1>9, FS_Injection DEF Bijection
<1>11. BySize(s) = [k \in D |-> s[p[k]]]
  BY <1>1 DEF BySize, p
<1>12. BySize(s) \in Seq(Shells) /\ Len(BySize(s)) = Len(s)
  BY <1>2, <1>6, <1>11
<1>13. ASSUME NEW i \in D, NEW j \in D, i < j
       PROVE  Size(BySize(s)[i]) >= Size(BySize(s)[j])
  <2>1. p[j] \notin Before(s, p[i])
    BY <1>2, <1>6, <1>13
  <2>2. ~(Size(s[p[j]]) > Size(s[p[i]]))
    BY <1>1, <1>6, <2>1 DEF Before
  <2>3. Size(s[p[i]]) \in Int /\ Size(s[p[j]]) \in Int
    BY <1>2, <1>6
  <2>4. BySize(s)[i] = s[p[i]] /\ BySize(s)[j] = s[p[j]]
    BY <1>11
  <2> QED BY <2>2, <2>3, <2>4
<1> QED
  BY <1>1, <1>10, <1>11, <1>12, <1>13

(* A set of naturals with a member has a least one.                        *)
LEMMA LeastNatural ==
  ASSUME NEW T \in SUBSET Nat, T # {}
  PROVE  \E j \in T : \A k \in T : j <= k
<1>1. PICK j \in T : \A k \in T : ~(<<k, j>> \in OpToRel(<, Nat))
  BY WFMin, NatLessThanWellFounded
<1>2. \A k \in T : ~(k < j)
  BY <1>1 DEF OpToRel
<1> QED
  BY <1>2

(* The sorted list has the rings the list had.                             *)
LEMMA CopiesSorted ==
  ASSUME NEW s \in Seq(Shells), NEW r
  PROVE  Copies(BySize(s), r) = Copies(s, r)
<1> DEFINE t == BySize(s)
           P == Places(s, r)
           Q == Places(t, r)
<1>1. t \in Seq(Shells) /\ Len(t) = Len(s) /\ DOMAIN t = DOMAIN s
  BY SortPermutes
<1>2. PICK p \in Bijection(DOMAIN s, DOMAIN s) : \A k \in DOMAIN s : t[k] = s[p[k]]
  BY SortPermutes
<1> HIDE DEF t
<1>3. /\ p \in [DOMAIN s -> DOMAIN s]
      /\ \A a, b \in DOMAIN s : p[a] = p[b] => a = b
      /\ \A m \in DOMAIN s : \E k \in DOMAIN s : p[k] = m
  BY Fun_BijectionProperties
<1> DEFINE f == [k \in Q |-> p[k]]
<1>4. f \in [Q -> P]
  BY <1>1, <1>2, <1>3 DEF Places
<1>5. \A a, b \in Q : f[a] = f[b] => a = b
  BY <1>1, <1>3 DEF Places
<1>6. ASSUME NEW m \in P PROVE \E k \in Q : f[k] = m
  <2>1. PICK k \in DOMAIN s : p[k] = m
    BY <1>3 DEF Places
  <2>2. k \in Q
    BY <1>1, <1>2, <2>1 DEF Places
  <2> QED BY <2>1, <2>2
<1>7. f \in Bijection(Q, P)
  BY <1>4, <1>5, <1>6, Fun_IsBij, Zenon
<1>8. IsFiniteSet(Q) /\ Copies(t, r) = Cardinality(Q) /\ Copies(s, r) = Cardinality(P)
  BY <1>1, PlacesFinite
<1> QED
  BY <1>7, <1>8, FS_Bijection, Fun_ExistsBij DEF t

(***************************************************************************)
(* The list worked on: its shells come from the input, and a ring occurs   *)
(* in it as often as in the input, less some pairs.                        *)
(***************************************************************************)

TypedInv == /\ input \in Seq(Shells)
            /\ shells \in Seq(Shells)
            /\ at \in Nat \ {0}

CopiesInv == \A r \in Rings : /\ Copies(shells, r) <= Copies(input, r)
                              /\ Copies(shells, r) % 2 = Copies(input, r) % 2

FromInputInv == \A k \in DOMAIN shells : \E m \in DOMAIN input : shells[k] = input[m]

CancelInv == TypedInv /\ CopiesInv /\ FromInputInv

(* CancelPair takes out two shells of one ring.                            *)
LEMMA PairRemoved ==
  ASSUME TypedInv, CancelPair
  PROVE  /\ shells' \in Seq(Shells)
         /\ \A r \in Rings : \/ Copies(shells', r) = Copies(shells, r)
                             \/ Copies(shells', r) = Copies(shells, r) - 2
         /\ \A k \in DOMAIN shells' : \E m \in DOMAIN shells : shells'[k] = shells[m]
<1> DEFINE twin == CHOOSE j \in Twins(at) : \A k \in Twins(at) : j <= k
           t == RemoveAt(shells, twin)
<1>1. shells' = RemoveAt(t, at)
  BY DEF CancelPair
<1>2. Twins(at) \in SUBSET Nat /\ Twins(at) # {}
  BY DEF CancelPair, Twins, TypedInv
<1>3. twin \in Twins(at)
  <2>1. \E j \in Twins(at) : \A k \in Twins(at) : j <= k
    BY <1>2, LeastNatural
  <2> QED BY <2>1
<1> HIDE DEF twin
<1>4. /\ twin \in 1 .. Len(shells) /\ at < twin /\ at \in 1 .. (Len(shells) - 1)
      /\ shells[twin].ring = shells[at].ring
  BY <1>3 DEF Twins, TypedInv
<1>5. /\ t \in Seq(Shells) /\ Len(t) = Len(shells) - 1
      /\ \A k \in 1 .. (Len(shells) - 1) : t[k] = IF k < twin THEN shells[k] ELSE shells[k + 1]
  BY <1>4, RemoveAtIs DEF TypedInv
<1>6. ASSUME NEW r PROVE Copies(t, r) = Copies(shells, r) - (IF shells[twin].ring = r THEN 1 ELSE 0)
  BY <1>4, CopiesRemoved DEF TypedInv
<1>7. /\ at \in 1 .. Len(t) /\ t[at] = shells[at]
  BY <1>4, <1>5
<1> HIDE DEF t
<1>8. ASSUME NEW r PROVE Copies(shells', r) = Copies(t, r) - (IF t[at].ring = r THEN 1 ELSE 0)
  BY <1>1, <1>5, <1>7, CopiesRemoved
<1>9. ASSUME NEW r \in Rings
      PROVE  \/ Copies(shells', r) = Copies(shells, r)
             \/ Copies(shells', r) = Copies(shells, r) - 2
  <2>1. Copies(shells, r) \in Nat
    BY PlacesFinite DEF TypedInv
  <2> QED BY <1>4, <1>6, <1>7, <1>8, <2>1
<1>10. /\ shells' \in Seq(Shells) /\ Len(shells') = Len(t) - 1
       /\ \A k \in 1 .. (Len(t) - 1) : shells'[k] = IF k < at THEN t[k] ELSE t[k + 1]
  BY <1>1, <1>5, <1>7, RemoveAtIs
<1>11. ASSUME NEW k \in DOMAIN shells'
       PROVE  \E m \in DOMAIN shells : shells'[k] = shells[m]
  <2>1. k \in 1 .. (Len(t) - 1)
    BY <1>10
  <2>2. PICK l \in 1 .. Len(t) : shells'[k] = t[l]
    BY <1>5, <1>10, <2>1
  <2>3. PICK m \in 1 .. Len(shells) : t[l] = shells[m]
    BY <1>4, <1>5, <2>2
  <2> QED BY <2>2, <2>3 DEF TypedInv
<1> QED
  BY <1>9, <1>10, <1>11

(* Every list handed over is one of repaired shells.                       *)
LEMMA CancelInit == Init => CancelInv
<1> SUFFICES ASSUME Init PROVE CancelInv
  OBVIOUS
<1>1. TypedInv /\ shells = input
  BY ListsAssumption DEF Init, TypedInv
<1>2. CopiesInv
  BY <1>1, PlacesFinite DEF TypedInv, CopiesInv
<1>3. FromInputInv
  BY <1>1 DEF FromInputInv
<1> QED
  BY <1>1, <1>2, <1>3 DEF CancelInv

(* What a step that leaves the lists alone keeps.                          *)
LEMMA SameLists ==
  ASSUME CancelInv, input' = input, shells' = shells
  PROVE  CopiesInv' /\ FromInputInv'
<1>1. CopiesInv /\ FromInputInv
  BY DEF CancelInv
<1>2. CopiesInv'
  <2>1. \A r : Copies(shells', r) = Copies(shells, r) /\ Copies(input', r) = Copies(input, r)
    BY Zenon
  <2>2. Rings' = Rings
    BY DEF Rings
  <2> QED BY <1>1, <2>1, <2>2 DEF CopiesInv
<1>3. FromInputInv'
  BY <1>1 DEF FromInputInv
<1> QED
  BY <1>2, <1>3

(* Every step keeps the invariant of the lists.                            *)
LEMMA CancelNextInv == CancelInv /\ [Next]_vars => CancelInv'
<1> SUFFICES ASSUME CancelInv, [Next]_vars PROVE CancelInv'
  OBVIOUS
<1> USE DEF CancelInv
<1>1. CASE CancelPair
  <2>1. input' = input /\ Rings' = Rings
    BY <1>1 DEF CancelPair, Rings
  <2>2. at' \in Nat \ {0}
    BY <1>1 DEF CancelPair, TypedInv
  <2>3. TypedInv'
    BY <1>1, <2>1, <2>2, PairRemoved DEF TypedInv
  <2>4. CopiesInv'
    <3> SUFFICES ASSUME NEW r \in Rings
                 PROVE  /\ Copies(shells', r) <= Copies(input, r)
                        /\ Copies(shells', r) % 2 = Copies(input, r) % 2
      BY <2>1 DEF CopiesInv, Copies
    <3>1. /\ Copies(shells, r) \in Nat /\ Copies(input, r) \in Nat
          /\ Copies(shells', r) \in Nat
      BY <2>3, PlacesFinite DEF TypedInv
    <3>2. /\ Copies(shells, r) <= Copies(input, r)
          /\ Copies(shells, r) % 2 = Copies(input, r) % 2
      BY DEF CopiesInv
    <3>3. \/ Copies(shells', r) = Copies(shells, r)
          \/ Copies(shells', r) = Copies(shells, r) - 2
      BY <1>1, PairRemoved
    <3> QED BY <3>1, <3>2, <3>3
  <2>5. FromInputInv'
    BY <1>1, <2>1, PairRemoved DEF FromInputInv
  <2> QED BY <2>3, <2>4, <2>5
<1>2. CASE Sort
  <2>1. input' = input /\ Rings' = Rings /\ at' = at /\ shells' = BySize(shells)
    BY <1>2 DEF Sort, Rings
  <2>2. TypedInv'
    BY <2>1, SortPermutes DEF TypedInv
  <2>3. CopiesInv'
    <3>1. \A r \in Rings : Copies(shells', r) = Copies(shells, r)
      BY <2>1, CopiesSorted DEF TypedInv
    <3> QED BY <2>1, <3>1 DEF CopiesInv, Copies
  <2>4. FromInputInv'
    <3>1. PICK p \in Bijection(DOMAIN shells, DOMAIN shells) :
            \A k \in DOMAIN shells : BySize(shells)[k] = shells[p[k]]
      BY SortPermutes DEF TypedInv
    <3>2. p \in [DOMAIN shells -> DOMAIN shells]
      BY Fun_BijectionProperties
    <3>3. DOMAIN shells' = DOMAIN shells
      BY <2>1, SortPermutes DEF TypedInv
    <3> QED BY <2>1, <3>1, <3>2, <3>3 DEF FromInputInv
  <2> QED BY <2>2, <2>3, <2>4
<1>3. CASE CancelNext
  <2>1. input' = input /\ shells' = shells /\ at' = at + 1
    BY <1>3 DEF CancelNext
  <2>2. TypedInv'
    BY <2>1 DEF TypedInv
  <2> QED BY <2>1, <2>2, SameLists
<1>4. CASE Start \/ CancelEnd \/ Nest \/ Union \/ UNCHANGED vars
  <2>1. input' = input /\ shells' = shells /\ at' = at
    BY <1>4 DEF Start, CancelEnd, Nest, Union, vars
  <2>2. TypedInv'
    BY <2>1 DEF TypedInv
  <2> QED BY <2>1, <2>2, SameLists
<1> QED
  BY <1>1, <1>2, <1>3, <1>4 DEF Next

(* The invariant of the lists holds in every state.                        *)
LEMMA CancelAlways == Spec => []CancelInv
<1> QED
  BY CancelInit, CancelNextInv, PTL DEF Spec

(* Cancelling never changes the parity of a ring: whatever the order in    *)
(* which duplicates come and however the index of cancel_identical_shells  *)
(* is rewound, the even-odd rule sees the rings it was given.              *)
THEOREM DuplicatesCancelInPairs == Spec => []CancelsInPairs
<1>1. CancelInv => CancelsInPairs
  BY DEF CancelInv, CopiesInv, CancelsInPairs
<1> QED
  BY <1>1, CancelAlways, PTL

(***************************************************************************)
(* The area guard: the shells' area counts every cell they cover, so an    *)
(* answer that loses a cell of clear shells falls short of it.             *)
(***************************************************************************)

(* What a shell covers is finite.                                          *)
LEMMA RegionFinite ==
  ASSUME NEW s, s.ring \in Boxes
  PROVE  IsFiniteSet(Region(s))
<1>1. IsFiniteSet(Cells(s.ring))
  BY FS_Interval DEF Cells, Boxes
<1>2. Region(s) \in SUBSET Cells(s.ring)
  BY DEF Region
<1> QED
  BY <1>1, <1>2, FS_Subset

(* The region of finitely many shells is finite, and no larger than their  *)
(* area.                                                                   *)
LEMMA AreaCoversRegion ==
  ASSUME NEW list, IsFiniteSet(DOMAIN list),
         \A k \in DOMAIN list : IsFiniteSet(Region(list[k]))
  PROVE  /\ IsFiniteSet(RegionOf(list))
         /\ AreaOf(list) \in Nat
         /\ Cardinality(RegionOf(list)) <= AreaOf(list)
<1> DEFINE D == DOMAIN list
           R == RegionOf(list)
           P == UNION {{k} \X Region(list[k]) : k \in D}
           f == [p \in P |-> p[2]]
<1>1. IsFiniteSet(R)
  <2> DEFINE g == [k \in D |-> Region(list[k])]
             S == {Region(list[k]) : k \in D}
  <2>1. g \in Surjection(D, S)
    BY DEF Surjection
  <2>2. IsFiniteSet(S)
    BY <2>1, FS_Surjection
  <2>3. \A T \in S : IsFiniteSet(T)
    OBVIOUS
  <2>4. R = UNION S
    BY DEF RegionOf
  <2> QED BY <2>2, <2>3, <2>4, FS_UNION
<1>2. IsFiniteSet(P)
  <2>1. IsFiniteSet(D \X R)
    BY <1>1, FS_Product
  <2>2. P \in SUBSET (D \X R)
    BY DEF RegionOf
  <2> QED BY <2>1, <2>2, FS_Subset
<1>3. f \in [P -> R]
  BY DEF RegionOf
<1>4. ASSUME NEW c \in R PROVE \E p \in P : f[p] = c
  <2>1. PICK k \in D : c \in Region(list[k])
    BY DEF RegionOf
  <2>2. <<k, c>> \in P /\ f[<<k, c>>] = c
    BY <2>1
  <2> QED BY <2>2
<1>5. f \in Surjection(P, R)
  BY <1>3, <1>4, Fun_IsSurj, Zenon
<1>6. AreaOf(list) = Cardinality(P)
  BY DEF AreaOf
<1> HIDE DEF P, f, R
<1>7. Cardinality(R) <= Cardinality(P)
  BY <1>2, <1>5, FS_Surjection
<1> QED
  BY <1>1, <1>2, <1>6, <1>7, FS_CardinalityType DEF R

(* The shells kept are shells of the list at even places, each with holes  *)
(* of its own added.                                                       *)
LEMMA KeptFacts ==
  ASSUME NEW list \in Seq(Shells)
  PROVE  /\ DOMAIN Kept(list) = {i \in DOMAIN list : IsEven(list, i)}
         /\ IsFiniteSet(DOMAIN Kept(list))
         /\ \A i \in DOMAIN Kept(list) :
              /\ Kept(list)[i] = KeepShell(list, i)
              /\ Kept(list)[i].ring = list[i].ring
              /\ Region(Kept(list)[i]) \subseteq Region(list[i])
              /\ IsFiniteSet(Region(Kept(list)[i]))
<1> DEFINE E == {i \in DOMAIN list : IsEven(list, i)}
<1>1. DOMAIN Kept(list) = E /\ \A i \in E : Kept(list)[i] = KeepShell(list, i)
  BY DEF Kept
<1>2. IsFiniteSet(E)
  <2>1. IsFiniteSet(1 .. Len(list)) /\ E \in SUBSET (1 .. Len(list))
    BY FS_Interval
  <2> QED BY <2>1, FS_Subset
<1>3. ASSUME NEW i \in E
      PROVE  /\ KeepShell(list, i).ring = list[i].ring
             /\ Region(KeepShell(list, i)) \subseteq Region(list[i])
             /\ list[i].ring \in Boxes
  <2>1. list[i] \in [ring : Boxes, holes : SUBSET Boxes]
    BY DEF Shells
  <2>2. /\ KeepShell(list, i).ring = list[i].ring
        /\ list[i].holes \subseteq KeepShell(list, i).holes
    BY <2>1 DEF KeepShell, NewHoles
  <2> QED BY <2>1, <2>2 DEF Region
<1> QED
  BY <1>1, <1>2, <1>3, RegionFinite

(* An answer that loses part of a valid set of shells is overruled.        *)
LEMMA GuardOverrules ==
  ASSUME NEW u \in SUBSET RegionOf(kept), LooksValid(kept), IsFiniteSet(DOMAIN kept),
         \A k \in DOMAIN kept : IsFiniteSet(Region(kept[k]))
  PROVE  Guarded(u) = RegionOf(kept)
<1>1. /\ IsFiniteSet(RegionOf(kept)) /\ AreaOf(kept) \in Nat
      /\ Cardinality(RegionOf(kept)) <= AreaOf(kept)
  BY AreaCoversRegion
<1>2. CASE u = RegionOf(kept)
  BY <1>2 DEF Guarded
<1>3. CASE u # RegionOf(kept)
  <2>1. /\ Cardinality(u) <= Cardinality(RegionOf(kept))
        /\ Cardinality(u) # Cardinality(RegionOf(kept))
    BY <1>1, <1>3, FS_Subset
  <2>2. Cardinality(u) \in Nat /\ Cardinality(RegionOf(kept)) \in Nat
    BY <1>1, FS_Subset, FS_CardinalityType
  <2>3. Cardinality(u) < AreaOf(kept)
    BY <1>1, <2>1, <2>2
  <2> QED BY <2>3 DEF Guarded
<1> QED
  BY <1>2, <1>3

(* The engine runs once, on the shells the even-parent rule kept.          *)
KeptInv == /\ pc = "union" => kept = Kept(shells)
           /\ pc # "done" => engine = "unused"

(* Init and every step keep it.                                            *)
LEMMA KeptAlways == Spec => []KeptInv
<1>1. Init => KeptInv
  BY DEF Init, KeptInv
<1>2. KeptInv /\ [Next]_vars => KeptInv'
  <2> SUFFICES ASSUME KeptInv, [Next]_vars PROVE KeptInv'
    OBVIOUS
  <2>1. CASE Start
    BY <2>1 DEF KeptInv, Start, Return
  <2>2. CASE CancelPair \/ CancelNext \/ Sort
    BY <2>2 DEF KeptInv, CancelPair, CancelNext, Sort
  <2>3. CASE CancelEnd
    BY <2>3 DEF KeptInv, CancelEnd, Return
  <2>4. CASE Nest
    BY <2>4 DEF KeptInv, Nest, Return
  <2>5. CASE Union
    BY <2>5 DEF KeptInv, Union, Return
  <2>6. CASE UNCHANGED vars
    BY <2>6 DEF KeptInv, vars
  <2> QED BY <2>1, <2>2, <2>3, <2>4, <2>5, <2>6 DEF Next
<1> QED
  BY <1>1, <1>2, PTL DEF Spec

(* What Union returns: the region kept, or what is left of it when the     *)
(* shells kept are not clear of each other.                                *)
LEMMA UnionReturns ==
  ASSUME TypedInv, KeptInv, Union
  PROVE  /\ pc' = "done" /\ engine' # "unused"
         /\ kept = Kept(shells) /\ kept' = kept /\ input' = input /\ shells' = shells
         /\ result' \subseteq RegionOf(kept)
         /\ LooksValid(kept) \/ engine' # "lossy" => result' = RegionOf(kept)
<1>1. /\ pc = "union" /\ pc' = "done" /\ engine' # "unused"
      /\ kept = Kept(shells) /\ kept' = kept /\ input' = input /\ shells' = shells
  BY DEF Union, Return, KeptInv
<1>2. /\ IsFiniteSet(DOMAIN kept)
      /\ \A k \in DOMAIN kept : IsFiniteSet(Region(kept[k]))
  BY <1>1, KeptFacts DEF TypedInv
<1>3. \A u \in SUBSET RegionOf(kept) :
        /\ Guarded(u) \subseteq RegionOf(kept)
        /\ LooksValid(kept) => Guarded(u) = RegionOf(kept)
  BY <1>2, GuardOverrules DEF Guarded
<1>4. Guarded(RegionOf(kept)) = RegionOf(kept)
  BY DEF Guarded
<1>5. \/ /\ engine' = "exact" \/ engine' = "panic"
         /\ result' = RegionOf(kept)
      \/ /\ engine' = "lossy"
         /\ \E u \in SUBSET RegionOf(kept) : result' = Guarded(u)
  BY <1>4 DEF Union, Return
<1> QED
  BY <1>1, <1>3, <1>5

(* The area guard of merge_shells does its work: whatever the boolean      *)
(* engine loses or however it fails, when the shells kept were valid as a  *)
(* MultiPolygon the region returned is theirs.                             *)
THEOREM GuardKeepsArea == Spec => []ValidAreaKept
<1>1. Init => ValidAreaKept
  BY DEF Init, ValidAreaKept
<1>2. CancelInv /\ KeptInv /\ ValidAreaKept /\ [Next]_vars => ValidAreaKept'
  <2> SUFFICES ASSUME TypedInv, KeptInv, ValidAreaKept, [Next]_vars PROVE ValidAreaKept'
    BY DEF CancelInv
  <2>1. CASE Union
    BY <2>1, UnionReturns DEF ValidAreaKept
  <2>2. CASE Start \/ CancelPair \/ CancelNext \/ CancelEnd \/ Sort \/ Nest
    <3>1. pc # "done" /\ engine' = engine
      BY <2>2 DEF Start, CancelPair, CancelNext, CancelEnd, Sort, Nest
    <3> QED BY <3>1 DEF ValidAreaKept, KeptInv
  <2>3. CASE UNCHANGED vars
    BY <2>3 DEF ValidAreaKept, vars
  <2> QED BY <2>1, <2>2, <2>3 DEF Next
<1> QED
  BY <1>1, <1>2, CancelAlways, KeptAlways, PTL DEF Spec

(***************************************************************************)
(* Singly covered cells: the shell that alone covers a cell has no twin to *)
(* cancel with, no holder and no child that reaches the cell.              *)
(***************************************************************************)

(* Nothing is covered that no shell of the input covered.                  *)
LEMMA NothingAdded ==
  ASSUME TypedInv, FromInputInv
  PROVE  /\ RegionOf(shells) \subseteq RegionOf(input)
         /\ RegionOf(Kept(shells)) \subseteq RegionOf(shells)
<1>1. RegionOf(shells) \subseteq RegionOf(input)
  BY DEF RegionOf, FromInputInv
<1>2. ASSUME NEW c \in RegionOf(Kept(shells)) PROVE c \in RegionOf(shells)
  <2>1. PICK i \in DOMAIN Kept(shells) : c \in Region(Kept(shells)[i])
    BY DEF RegionOf
  <2>2. i \in DOMAIN shells /\ c \in Region(shells[i])
    BY <2>1, KeptFacts DEF TypedInv
  <2> QED BY <2>2 DEF RegionOf
<1> QED
  BY <1>1, <1>2

(* A ring strictly inside another covers no cell the other does not.       *)
LEMMA InsideCovers ==
  ASSUME NEW r \in Boxes, NEW s \in Boxes, Strictly(r, s)
  PROVE  Cells(r) \subseteq Cells(s)
  BY DEF Boxes, Strictly, Cells

(* The shell that alone covers a cell is still in the list, there alone.   *)
LEMMA LoneShellStays ==
  ASSUME CancelInv, NEW cell \in RegionOf(input), Cardinality(CoveredBy(cell)) = 1
  PROVE  \E i \in DOMAIN shells :
           /\ cell \in Region(shells[i])
           /\ \A j \in DOMAIN shells : cell \in Cells(shells[j].ring) => j = i
<1> USE DEF CancelInv
<1>1. PICK m \in DOMAIN input : cell \in Region(input[m])
  BY DEF RegionOf
<1>2. m \in CoveredBy(cell)
  BY <1>1 DEF CoveredBy, Region
<1>3. CoveredBy(cell) = {m}
  <2>1. IsFiniteSet(1 .. Len(input)) /\ CoveredBy(cell) \in SUBSET (1 .. Len(input))
    BY FS_Interval DEF CoveredBy, TypedInv
  <2>2. IsFiniteSet(CoveredBy(cell))
    BY <2>1, FS_Subset
  <2> QED BY <1>2, <2>2, FS_Singleton
<1> DEFINE r == input[m].ring
<1>4. Places(input, r) = {m}
  <2>1. \A k \in DOMAIN input : input[k].ring = r => k \in CoveredBy(cell)
    BY <1>1 DEF CoveredBy, Region
  <2> QED BY <1>3, <2>1 DEF Places
<1>5. Copies(input, r) = 1 /\ r \in Rings
  BY <1>4, PlacesFinite, FS_Singleton DEF TypedInv, Rings
<1>6. /\ Copies(shells, r) \in Nat /\ IsFiniteSet(Places(shells, r))
      /\ Copies(shells, r) = Cardinality(Places(shells, r))
  BY PlacesFinite DEF TypedInv
<1>7. Cardinality(Places(shells, r)) = 1
  <2>1. Copies(shells, r) <= 1 /\ Copies(shells, r) % 2 = 1 % 2
    BY <1>5 DEF CopiesInv
  <2> QED BY <1>6, <2>1
<1>8. PICK i : Places(shells, r) = {i}
  BY <1>6, <1>7, FS_Singleton
<1>9. ASSUME NEW j \in DOMAIN shells, cell \in Cells(shells[j].ring)
      PROVE  shells[j] = input[m]
  <2>1. PICK l \in DOMAIN input : shells[j] = input[l]
    BY DEF FromInputInv
  <2>2. l \in CoveredBy(cell)
    BY <1>9, <2>1 DEF CoveredBy
  <2> QED BY <1>3, <2>1, <2>2
<1>10. i \in DOMAIN shells /\ shells[i].ring = r
  BY <1>8 DEF Places
<1>11. cell \in Cells(shells[i].ring)
  BY <1>1, <1>10 DEF Region
<1>12. \A j \in DOMAIN shells : cell \in Cells(shells[j].ring) => j = i
  <2> SUFFICES ASSUME NEW j \in DOMAIN shells, cell \in Cells(shells[j].ring)
               PROVE  j = i
    OBVIOUS
  <2>1. j \in Places(shells, r)
    BY <1>9 DEF Places
  <2> QED BY <1>8, <2>1
<1> QED
  BY <1>1, <1>9, <1>10, <1>11, <1>12

(* It is kept, and no hole it gets reaches the cell.                       *)
LEMMA LoneShellKept ==
  ASSUME NEW list \in Seq(Shells), NEW i \in DOMAIN list, NEW cell \in Region(list[i]),
         \A j \in DOMAIN list : cell \in Cells(list[j].ring) => j = i
  PROVE  cell \in RegionOf(Kept(list))
<1>1. \A j \in DOMAIN list : list[j] \in [ring : Boxes, holes : SUBSET Boxes]
  BY DEF Shells
<1>2. Holders(list, i) = {}
  <2> SUFFICES ASSUME NEW j \in DOMAIN list, j < i, FullyInside(list[i].ring, list[j])
               PROVE  FALSE
    BY DEF Holders
  <2>1. Strictly(list[i].ring, list[j].ring)
    BY DEF FullyInside
  <2>2. cell \in Cells(list[i].ring)
    BY DEF Region
  <2>3. cell \in Cells(list[j].ring)
    BY <1>1, <2>1, <2>2, InsideCovers
  <2>4. j = i
    BY <2>3
  <2> QED BY <2>4
<1>3. IsEven(list, i)
  BY <1>2, FS_EmptySet DEF IsEven
<1>4. \A k \in DOMAIN list : ~IsEven(list, k) => cell \notin Cells(list[k].ring)
  BY <1>3
<1>5. KeepShell(list, i).ring = list[i].ring
  BY <1>1 DEF KeepShell
<1>6. \A h \in KeepShell(list, i).holes : cell \notin Cells(h)
  BY <1>1, <1>4 DEF KeepShell, NewHoles, Region
<1>7. cell \in Region(KeepShell(list, i))
  BY <1>5, <1>6 DEF Region
<1>8. i \in DOMAIN Kept(list) /\ Kept(list)[i] = KeepShell(list, i)
  BY <1>3 DEF Kept
<1> QED
  BY <1>7, <1>8 DEF RegionOf

(* What a region has to be, of SinglyCoveredKept.                          *)
SinglyKept(region) ==
  /\ region \subseteq RegionOf(input)
  /\ \A cell \in RegionOf(input) :
       Cardinality(CoveredBy(cell)) = 1 => cell \in region

(* The list worked on, and what the even-parent rule keeps of it, are so.  *)
LEMMA ListsKeepSingles ==
  ASSUME CancelInv
  PROVE  SinglyKept(RegionOf(shells)) /\ SinglyKept(RegionOf(Kept(shells)))
<1>1. /\ RegionOf(shells) \subseteq RegionOf(input)
      /\ RegionOf(Kept(shells)) \subseteq RegionOf(input)
  BY NothingAdded DEF CancelInv
<1>2. ASSUME NEW cell \in RegionOf(input), Cardinality(CoveredBy(cell)) = 1
      PROVE  cell \in RegionOf(shells) /\ cell \in RegionOf(Kept(shells))
  <2>1. PICK i \in DOMAIN shells :
           /\ cell \in Region(shells[i])
           /\ \A j \in DOMAIN shells : cell \in Cells(shells[j].ring) => j = i
    BY <1>2, LoneShellStays
  <2>2. shells \in Seq(Shells)
    BY DEF CancelInv, TypedInv
  <2>3. cell \in RegionOf(Kept(shells))
    BY <2>1, <2>2, LoneShellKept
  <2> QED BY <2>1, <2>3 DEF RegionOf
<1> QED
  BY <1>1, <1>2 DEF SinglyKept

(* A shell that meets no other keeps its place whatever else cancels and   *)
(* nests around it: in every answer of merge_shells but that of an engine  *)
(* that lost area, what one exterior alone covers is covered, and nothing  *)
(* is that was not before.                                                 *)
THEOREM SinglyCoveredStays == Spec => []SinglyCoveredKept
<1>1. Init => SinglyCoveredKept
  BY DEF Init, SinglyCoveredKept
<1>2. CancelInv /\ KeptInv /\ SinglyCoveredKept /\ [Next]_vars => SinglyCoveredKept'
  <2> SUFFICES ASSUME CancelInv, KeptInv, SinglyCoveredKept, [Next]_vars
               PROVE  SinglyCoveredKept'
    OBVIOUS
  <2>1. /\ SinglyKept(RegionOf(shells)) /\ SinglyKept(RegionOf(Kept(shells)))
        /\ CancelInv'
    BY ListsKeepSingles, CancelNextInv
  <2>2. input' = input
    BY DEF Next, vars, Start, CancelPair, CancelNext, CancelEnd, Sort, Nest, Union
  <2>3. SinglyKept(RegionOf(input))
    BY DEF SinglyKept
  <2>4. SinglyKept(result') => SinglyCoveredKept'
    BY <2>2 DEF SinglyKept, SinglyCoveredKept, RegionOf, CoveredBy
  <2>5. CASE Start
    BY <2>3, <2>4, <2>5 DEF Start, Return, SinglyCoveredKept
  <2>6. CASE CancelPair \/ CancelNext \/ Sort
    BY <2>6 DEF CancelPair, CancelNext, Sort, SinglyCoveredKept
  <2>7. CASE CancelEnd
    BY <2>1, <2>4, <2>7 DEF CancelEnd, Return, SinglyCoveredKept
  <2>8. CASE Nest
    BY <2>1, <2>4, <2>8 DEF Nest, Return, SinglyCoveredKept
  <2>9. CASE Union
    <3>1. /\ kept = Kept(shells)
          /\ LooksValid(kept) \/ engine' # "lossy" => result' = RegionOf(kept)
      BY <2>9, UnionReturns DEF CancelInv
    <3> QED BY <2>1, <2>4, <3>1 DEF SinglyCoveredKept
  <2>10. CASE UNCHANGED vars
    BY <2>10 DEF SinglyCoveredKept, vars, RegionOf, CoveredBy
  <2> QED
    BY <2>5, <2>6, <2>7, <2>8, <2>9, <2>10 DEF Next
<1> QED
  BY <1>1, <1>2, CancelAlways, KeptAlways, PTL DEF Spec

(***************************************************************************)
(* The even-odd rule: among untangled shells, sorted by size, the holders  *)
(* of a shell that covers a cell are the larger shells that cover it.      *)
(***************************************************************************)

Sorted(list) == \A i, j \in DOMAIN list : i < j => Size(list[i]) >= Size(list[j])

(* What EvenOddWhenSafe asks of the nesting.                               *)
NestedOnce(list) ==
  /\ \A i, j \in DOMAIN list : i # j /\ IsEven(list, i) /\ IsEven(list, j)
       => ~BoxesMeet(list[i].ring, list[j].ring)
  /\ \A i \in DOMAIN list : ~IsEven(list, i) => list[i].holes = {}

Covering(list, cell) == {k \in DOMAIN list : cell \in Region(list[k])}

EvenOdd(list) == {cell \in RegionOf(list) : Cardinality(Covering(list, cell)) % 2 = 1}

(* Rings that cover a cell together have a point in common.                *)
LEMMA CoversMeet ==
  ASSUME NEW r \in Boxes, NEW s \in Boxes, NEW cell, cell \in Cells(r), cell \in Cells(s)
  PROVE  BoxesMeet(r, s)
  BY DEF Boxes, Cells, BoxesMeet

(* Of two untangled shells that meet the smaller is held by the larger,    *)
(* and keeps away from its holes.                                          *)
LEMMA MeetingIsHeld ==
  ASSUME NEW list \in Seq(Shells), Sorted(list), Untangled(list),
         NEW i \in DOMAIN list, NEW j \in DOMAIN list, i < j,
         BoxesMeet(list[i].ring, list[j].ring)
  PROVE  /\ i \in Holders(list, j)
         /\ \A h \in list[i].holes : ~BoxesMeet(list[j].ring, h)
<1>1. /\ list[i] \in [ring : Boxes, holes : SUBSET Boxes]
      /\ list[j] \in [ring : Boxes, holes : SUBSET Boxes]
      /\ list[j].ring.lo < list[j].ring.hi
      /\ \A h \in list[i].holes : h.lo < h.hi
  BY DEF Shells
<1>2. /\ list[i].ring \in Boxes /\ list[j].ring \in Boxes
      /\ \A h \in list[i].holes : h \in Boxes
  BY <1>1
<1>3. ~Strictly(list[i].ring, list[j].ring)
  <2>1. Size(list[i]) >= Size(list[j])
    BY DEF Sorted
  <2> QED BY <1>2, <2>1 DEF Strictly, Size, Boxes
<1>4. i # j
  <2>1. i \in Int /\ j \in Int
    OBVIOUS
  <2> QED BY <2>1
<1>5. /\ Strictly(list[j].ring, list[i].ring)
      /\ \A h \in list[i].holes : ~BoxesMeet(list[j].ring, h)
  BY <1>3, <1>4 DEF Untangled
<1>6. ASSUME NEW h \in list[i].holes
      PROVE  ~CornerInside(list[j].ring, h) /\ ~ProbeInside(list[j].ring, h)
  <2>1. ~BoxesMeet(list[j].ring, h) /\ h \in Boxes /\ h.lo < h.hi
    BY <1>1, <1>2, <1>5
  <2> QED BY <1>1, <1>2, <2>1 DEF BoxesMeet, CornerInside, ProbeInside, Boxes
<1>7. FullyInside(list[j].ring, list[i])
  BY <1>5, <1>6 DEF FullyInside
<1> QED
  BY <1>5, <1>7 DEF Holders

(* Whoever covers the cell, and comes before, holds the shell that does.   *)
LEMMA HoldersCover ==
  ASSUME NEW list \in Seq(Shells), Sorted(list), Untangled(list),
         NEW j \in DOMAIN list, NEW cell \in Cells(list[j].ring)
  PROVE  Holders(list, j) = {i \in DOMAIN list : i < j /\ cell \in Cells(list[i].ring)}
<1>1. \A k \in DOMAIN list : list[k].ring \in Boxes
  BY DEF Shells
<1>2. ASSUME NEW i \in Holders(list, j) PROVE cell \in Cells(list[i].ring)
  <2>1. i \in DOMAIN list /\ Strictly(list[j].ring, list[i].ring)
    BY DEF Holders, FullyInside
  <2> QED BY <1>1, <2>1, InsideCovers
<1>3. ASSUME NEW i \in DOMAIN list, i < j, cell \in Cells(list[i].ring)
      PROVE  i \in Holders(list, j)
  BY <1>1, <1>3, CoversMeet, MeetingIsHeld
<1> QED
  BY <1>2, <1>3 DEF Holders

(* Two different things are two.                                           *)
LEMMA TwoAre ==
  ASSUME NEW a, NEW b, a # b
  PROVE  IsFiniteSet({a, b}) /\ Cardinality({a, b}) = 2
<1>1. IsFiniteSet({a}) /\ Cardinality({a}) = 1
  BY FS_Singleton
<1>2. /\ IsFiniteSet({a} \cup {b})
      /\ Cardinality({a} \cup {b}) = IF b \in {a} THEN Cardinality({a})
                                                 ELSE Cardinality({a}) + 1
  BY <1>1, FS_AddElement
<1>3. {a} \cup {b} = {a, b} /\ b \notin {a}
  OBVIOUS
<1> QED
  BY <1>1, <1>2, <1>3

Coverers(list, cell) == {k \in DOMAIN list : cell \in Cells(list[k].ring)}

(* A cell is covered by nobody, by an even shell alone, or by an even      *)
(* shell and an odd one that it holds.                                     *)
LEMMA CoveredOnceOrTwice ==
  ASSUME NEW list \in Seq(Shells), Sorted(list), Untangled(list), NestedOnce(list),
         NEW cell, Coverers(list, cell) # {}
  PROVE  LET C == Coverers(list, cell)
         IN  \E a \in C : /\ IsEven(list, a)
                          /\ \/ C = {a}
                             \/ \E b \in C : /\ C = {a, b} /\ a < b /\ ~IsEven(list, b)
                                             /\ Holders(list, b) = {a}
<1> DEFINE C == Coverers(list, cell)
<1> SUFFICES \E a \in C : /\ IsEven(list, a)
                         /\ \/ C = {a}
                            \/ \E b \in C : /\ C = {a, b} /\ a < b /\ ~IsEven(list, b)
                                            /\ Holders(list, b) = {a}
  OBVIOUS
<1>0. C = {k \in DOMAIN list : cell \in Cells(list[k].ring)} /\ C # {}
  BY DEF Coverers
<1> HIDE DEF C
<1>1. C \in SUBSET Nat /\ C \subseteq DOMAIN list
  BY <1>0
<1>2. ASSUME NEW j \in C PROVE Holders(list, j) = {i \in C : i < j}
  <2>1. j \in DOMAIN list /\ cell \in Cells(list[j].ring)
    BY <1>0
  <2>2. Holders(list, j) = {i \in DOMAIN list : i < j /\ cell \in Cells(list[i].ring)}
    BY <2>1, HoldersCover
  <2> QED BY <1>0, <2>2
<1>3. ASSUME NEW i \in C, NEW j \in C, i # j PROVE ~(IsEven(list, i) /\ IsEven(list, j))
  <2>1. list[i].ring \in Boxes /\ list[j].ring \in Boxes
    BY <1>1 DEF Shells
  <2>2. BoxesMeet(list[i].ring, list[j].ring)
    BY <1>0, <2>1, CoversMeet
  <2> QED BY <1>1, <1>3, <2>2 DEF NestedOnce
<1>4. PICK a \in C : \A k \in C : a <= k
  BY <1>0, <1>1, LeastNatural
<1>5. IsEven(list, a)
  <2>1. Holders(list, a) = {}
    <3>1. a \in Nat /\ \A i \in C : i \in Nat /\ a <= i
      BY <1>1, <1>4
    <3>2. \A i \in C : ~(i < a)
      BY <3>1
    <3> QED BY <1>2, <3>2
  <2> QED BY <2>1, FS_EmptySet DEF IsEven
<1>6. CASE C # {a}
  <2> DEFINE C1 == C \ {a}
  <2>0. C1 \in SUBSET Nat /\ C1 # {}
    BY <1>1, <1>6
  <2>1. PICK b \in C1 : \A k \in C1 : b <= k
    BY <2>0, LeastNatural
  <2>2. a < b /\ Holders(list, b) = {a} /\ ~IsEven(list, b)
    <3>1. a < b /\ \A k \in C : k < b => k = a
      BY <1>1, <1>4, <2>1
    <3>2. Holders(list, b) = {a}
      BY <1>2, <3>1
    <3> QED BY <1>3, <1>5, <3>1, <3>2
  <2>3. C = {a, b}
    <3> SUFFICES ASSUME C # {a, b} PROVE FALSE
      OBVIOUS
    <3> DEFINE C2 == C1 \ {b}
    <3>1. C2 \in SUBSET Nat /\ C2 # {}
      BY <1>1, <2>1
    <3>2. PICK c \in C2 : \A k \in C2 : c <= k
      BY <3>1, LeastNatural
    <3>3. a < c /\ b < c /\ \A k \in C : k < c => k = a \/ k = b
      BY <1>1, <1>4, <2>1, <2>2, <3>2
    <3>4. Holders(list, c) = {a, b}
      BY <1>2, <3>3
    <3>5. Cardinality({a, b}) = 2
      <4>1. a # b
        OBVIOUS
      <4> QED BY <4>1, TwoAre
    <3>6. IsEven(list, c)
      BY <3>4, <3>5 DEF IsEven
    <3> QED BY <1>3, <1>5, <3>3, <3>6
  <2> QED BY <1>5, <2>2, <2>3
<1> QED
  BY <1>5, <1>6

(* A shell that is alone in covering a cell covers it once.                *)
LEMMA AloneIsOdd ==
  ASSUME NEW list \in Seq(Shells), NEW cell, NEW a \in DOMAIN list,
         \A k \in DOMAIN list : cell \in Cells(list[k].ring) => k = a
  PROVE  cell \in EvenOdd(list) <=> cell \in Region(list[a])
<1>1. \A k \in DOMAIN list : cell \in Region(list[k]) => k = a
  BY DEF Region
<1>2. CASE cell \in Region(list[a])
  <2>1. Covering(list, cell) = {a}
    BY <1>1, <1>2 DEF Covering
  <2>2. Cardinality(Covering(list, cell)) = 1
    BY <2>1, FS_Singleton
  <2> QED BY <1>2, <2>2 DEF EvenOdd, RegionOf
<1>3. CASE cell \notin Region(list[a])
  <2>1. cell \notin RegionOf(list)
    BY <1>1, <1>3 DEF RegionOf
  <2> QED BY <1>3, <2>1 DEF EvenOdd
<1> QED
  BY <1>2, <1>3

(* "odd -> becomes a hole of its parent": what the even-parent rule keeps  *)
(* of untangled shells nested once is what an odd number of them covers.   *)
LEMMA KeptIsEvenOdd ==
  ASSUME NEW list \in Seq(Shells), Sorted(list), Untangled(list), NestedOnce(list)
  PROVE  RegionOf(Kept(list)) = EvenOdd(list)
<1> SUFFICES ASSUME NEW cell PROVE cell \in RegionOf(Kept(list)) <=> cell \in EvenOdd(list)
  OBVIOUS
<1> DEFINE C == {k \in DOMAIN list : cell \in Cells(list[k].ring)}
<1>1. /\ DOMAIN Kept(list) = {i \in DOMAIN list : IsEven(list, i)}
      /\ \A i \in DOMAIN Kept(list) :
           /\ Kept(list)[i] = KeepShell(list, i)
           /\ Region(Kept(list)[i]) \subseteq Region(list[i])
  BY KeptFacts
<1>2. \A k \in DOMAIN list : Region(list[k]) \subseteq Cells(list[k].ring)
  BY DEF Region
<1>3. \A k \in DOMAIN list : /\ list[k] \in [ring : Boxes, holes : SUBSET Boxes]
                             /\ list[k].ring \in Boxes
                             /\ list[k].holes \subseteq Boxes
  BY DEF Shells
<1>4. \A i \in DOMAIN list :
        /\ KeepShell(list, i).ring = list[i].ring
        /\ KeepShell(list, i).holes = list[i].holes \cup
             {list[k].ring : k \in {k \in DOMAIN list : /\ ~IsEven(list, k)
                                                        /\ IsParent(list, i, k)
                                                        /\ SafeToConvert(list, i)}}
  BY <1>3 DEF KeepShell, NewHoles
<1>5. CASE C = {}
  BY <1>1, <1>2, <1>5 DEF RegionOf, EvenOdd
<1>6. CASE \E a \in C : IsEven(list, a) /\ C = {a}
  <2>1. PICK a \in C : IsEven(list, a) /\ C = {a}
    BY <1>6
  <2>2. cell \in Region(KeepShell(list, a)) <=> cell \in Region(list[a])
    <3>1. \A k \in DOMAIN list : ~IsEven(list, k) => cell \notin Cells(list[k].ring)
      BY <2>1
    <3> QED BY <1>4, <2>1, <3>1 DEF Region
  <2>3. cell \in RegionOf(Kept(list)) <=> cell \in Region(KeepShell(list, a))
    BY <1>1, <1>2, <2>1 DEF RegionOf
  <2>4. cell \in EvenOdd(list) <=> cell \in Region(list[a])
    BY <2>1, AloneIsOdd
  <2> QED BY <2>2, <2>3, <2>4
<1>7. CASE \E a, b \in C : /\ C = {a, b} /\ a < b /\ IsEven(list, a) /\ ~IsEven(list, b)
                           /\ Holders(list, b) = {a}
  <2>1. PICK a \in C, b \in C : /\ C = {a, b} /\ a < b /\ IsEven(list, a)
                                /\ ~IsEven(list, b) /\ Holders(list, b) = {a}
    BY <1>7
  <2>2. cell \in Region(list[b])
    BY <2>1 DEF NestedOnce, Region
  <2>3. cell \in Region(list[a])
    <3>1. BoxesMeet(list[a].ring, list[b].ring)
      BY <1>3, CoversMeet
    <3>2. \A h \in list[a].holes : ~BoxesMeet(list[b].ring, h)
      BY <2>1, <3>1, MeetingIsHeld
    <3>3. \A h \in list[a].holes : cell \notin Cells(h)
      BY <1>3, <3>2, CoversMeet
    <3> QED BY <3>3 DEF Region
  <2>4. Covering(list, cell) = {a, b}
    BY <1>2, <2>1, <2>2, <2>3 DEF Covering
  <2>5. cell \notin EvenOdd(list)
    <3>1. a # b
      BY <2>1
    <3>2. Cardinality({a, b}) = 2
      BY <3>1, TwoAre, Zenon
    <3>3. Cardinality(Covering(list, cell)) % 2 = 0
      BY <2>4, <3>2
    <3> QED BY <3>3 DEF EvenOdd
  <2>6. list[b].ring \in KeepShell(list, a).holes
    <3>1. SafeToConvert(list, a)
      BY <2>1 DEF SafeToConvert, NestedOnce
    <3>2. IsParent(list, a, b)
      BY <2>1 DEF IsParent
    <3> QED BY <1>4, <2>1, <3>1, <3>2
  <2>7. cell \notin Region(KeepShell(list, a))
    BY <2>6 DEF Region
  <2>8. \A i \in DOMAIN Kept(list) : cell \in Region(Kept(list)[i]) => i = a
    BY <1>1, <1>2, <2>1
  <2>9. cell \notin RegionOf(Kept(list))
    BY <1>1, <2>7, <2>8 DEF RegionOf
  <2> QED BY <2>5, <2>9
<1>8. CASE C # {}
  <2>1. \E a \in C : /\ IsEven(list, a)
                    /\ \/ C = {a}
                       \/ \E b \in C : /\ C = {a, b} /\ a < b /\ ~IsEven(list, b)
                                       /\ Holders(list, b) = {a}
    BY <1>8, CoveredOnceOrTwice DEF Coverers
  <2> QED BY <1>6, <1>7, <2>1, Zenon
<1> QED
  BY <1>5, <1>8

(* The shells kept then look valid, so that the guard watches over them.   *)
LEMMA KeptLooksValid ==
  ASSUME NEW list \in Seq(Shells), Sorted(list), Untangled(list), NestedOnce(list)
  PROVE  LooksValid(Kept(list))
<1>1. /\ DOMAIN Kept(list) = {i \in DOMAIN list : IsEven(list, i)}
      /\ \A i \in DOMAIN Kept(list) : /\ Kept(list)[i] = KeepShell(list, i)
                                      /\ Kept(list)[i].ring = list[i].ring
  BY KeptFacts
<1>2. \A k \in DOMAIN list : /\ list[k] \in [ring : Boxes, holes : SUBSET Boxes]
                             /\ list[k].ring \in Boxes
                             /\ list[k].holes \subseteq Boxes
                             /\ list[k].ring.lo < list[k].ring.hi
                             /\ \A g, h \in list[k].holes : g # h => Clear(g, h)
  BY DEF Shells
<1>3. \A r, s \in Boxes : ~BoxesMeet(r, s) => Clear(r, s) /\ Clear(s, r)
  BY DEF Boxes, BoxesMeet, Clear
<1>4. ASSUME NEW i \in DOMAIN Kept(list), NEW j \in DOMAIN Kept(list), i # j
      PROVE  Clear(Kept(list)[i].ring, Kept(list)[j].ring)
  BY <1>1, <1>2, <1>3, <1>4 DEF NestedOnce
<1>5. ASSUME NEW i \in DOMAIN list, NEW k \in DOMAIN list, IsParent(list, i, k),
             NEW g \in list[i].holes
      PROVE  Clear(g, list[k].ring) /\ Clear(list[k].ring, g)
  <2>1. i < k /\ Strictly(list[k].ring, list[i].ring)
    BY <1>5 DEF IsParent, Holders, FullyInside
  <2>2. BoxesMeet(list[i].ring, list[k].ring)
    BY <1>2, <2>1 DEF Boxes, Strictly, BoxesMeet
  <2>3. ~BoxesMeet(list[k].ring, g)
    BY <2>1, <2>2, MeetingIsHeld
  <2> QED BY <1>2, <1>3, <2>3
<1>6. ASSUME NEW i \in DOMAIN list, NEW k \in DOMAIN list, NEW l \in DOMAIN list,
             IsParent(list, i, k), IsParent(list, i, l), k < l
      PROVE  Clear(list[k].ring, list[l].ring) /\ Clear(list[l].ring, list[k].ring)
  <2>1. ~BoxesMeet(list[k].ring, list[l].ring)
    <3> SUFFICES ASSUME BoxesMeet(list[k].ring, list[l].ring) PROVE FALSE
      OBVIOUS
    <3>1. k \in Holders(list, l)
      BY <1>6, MeetingIsHeld
    <3>2. k <= i /\ i < k
      BY <1>6, <3>1 DEF IsParent, Holders
    <3> QED BY <3>2
  <2> QED BY <1>2, <1>3, <2>1
<1>7. ASSUME NEW i \in DOMAIN list,
             NEW g \in KeepShell(list, i).holes, NEW h \in KeepShell(list, i).holes, g # h
      PROVE  Clear(g, h)
  <2> DEFINE K == {k \in DOMAIN list : IsParent(list, i, k)}
  <2>1. KeepShell(list, i).holes \subseteq list[i].holes \cup {list[k].ring : k \in K}
    BY <1>2 DEF KeepShell, NewHoles
  <2>2. CASE g \in list[i].holes /\ h \in list[i].holes
    BY <1>2, <1>7, <2>2
  <2>3. CASE g \in list[i].holes /\ h \in {list[k].ring : k \in K}
    BY <1>5, <2>3
  <2>4. CASE g \in {list[k].ring : k \in K} /\ h \in list[i].holes
    BY <1>5, <2>4
  <2>5. CASE g \in {list[k].ring : k \in K} /\ h \in {list[k].ring : k \in K}
    <3>1. PICK k \in K, l \in K : g = list[k].ring /\ h = list[l].ring
      BY <2>5
    <3>2. k < l \/ l < k
      BY <1>7, <3>1
    <3> QED BY <1>6, <3>1, <3>2
  <2> QED BY <2>1, <2>2, <2>3, <2>4, <2>5
<1>8. ASSUME NEW i \in DOMAIN list
      PROVE  KeepShell(list, i).twice = {}
  <2> SUFFICES ASSUME NEW k \in NewHoles(list, i), NEW l \in NewHoles(list, i),
                      l # k, list[l].ring = list[k].ring
               PROVE  FALSE
    BY DEF KeepShell
  <2>1. /\ k \in DOMAIN list /\ IsParent(list, i, k)
        /\ l \in DOMAIN list /\ IsParent(list, i, l)
    BY DEF NewHoles
  <2>2. k < l \/ l < k
    BY <2>1
  <2>3. Clear(list[k].ring, list[l].ring)
    BY <1>6, <2>1, <2>2
  <2> QED BY <1>2, <2>1, <2>3 DEF Boxes, Clear
<1> QED
  BY <1>1, <1>4, <1>7, <1>8 DEF LooksValid

(* Untangled lists only change places: no two of their rings are the same. *)
IsReordering(s, t) ==
  \E p \in Bijection(DOMAIN s, DOMAIN t) : \A k \in DOMAIN s : s[k] = t[p[k]]

ReorderedInv == /\ Untangled(input) => IsReordering(shells, input)
                /\ pc \in {"nest", "union"} => Sorted(shells)

(* A list is a reordering of itself; reorderings compose.                  *)
LEMMA Reorderings ==
  /\ \A s : IsReordering(s, s)
  /\ \A s, t, u : IsReordering(s, t) /\ IsReordering(t, u) => IsReordering(s, u)
<1>1. ASSUME NEW s PROVE IsReordering(s, s)
  <2> DEFINE p == [k \in DOMAIN s |-> k]
  <2>1. p \in Bijection(DOMAIN s, DOMAIN s)
    BY Fun_IsBij
  <2>2. \A k \in DOMAIN s : s[k] = s[p[k]]
    OBVIOUS
  <2> QED BY <2>1, <2>2 DEF IsReordering
<1>2. ASSUME NEW s, NEW t, NEW u, IsReordering(s, t), IsReordering(t, u)
      PROVE  IsReordering(s, u)
  <2>1. PICK p \in Bijection(DOMAIN s, DOMAIN t) : \A k \in DOMAIN s : s[k] = t[p[k]]
    BY <1>2 DEF IsReordering
  <2>2. PICK q \in Bijection(DOMAIN t, DOMAIN u) : \A k \in DOMAIN t : t[k] = u[q[k]]
    BY <1>2 DEF IsReordering
  <2> DEFINE r == [k \in DOMAIN s |-> q[p[k]]]
  <2>3. r \in Bijection(DOMAIN s, DOMAIN u)
    BY <2>1, <2>2, Fun_BijTransitive
  <2>4. p \in [DOMAIN s -> DOMAIN t]
    BY <2>1, Fun_BijectionProperties
  <2>5. \A k \in DOMAIN s : s[k] = u[r[k]]
    BY <2>1, <2>2, <2>4
  <2> QED BY <2>3, <2>5 DEF IsReordering
<1> QED
  BY <1>1, <1>2

(* Order is nothing to being untangled, nor to the even-odd rule.          *)
LEMMA ReorderedSame ==
  ASSUME NEW s \in Seq(Shells), NEW t \in Seq(Shells), IsReordering(s, t), Untangled(t)
  PROVE  Untangled(s) /\ EvenOdd(s) = EvenOdd(t)
<1>1. PICK p \in Bijection(DOMAIN s, DOMAIN t) : \A k \in DOMAIN s : s[k] = t[p[k]]
  BY DEF IsReordering
<1>2. /\ p \in [DOMAIN s -> DOMAIN t]
      /\ \A a, b \in DOMAIN s : p[a] = p[b] => a = b
      /\ \A m \in DOMAIN t : \E k \in DOMAIN s : p[k] = m
  BY Fun_BijectionProperties
<1>3. Untangled(s)
  <2> SUFFICES ASSUME NEW i \in DOMAIN s, NEW j \in DOMAIN s, i # j
               PROVE  \/ ~BoxesMeet(s[i].ring, s[j].ring)
                      \/ /\ Strictly(s[i].ring, s[j].ring)
                         /\ \A h \in s[j].holes : ~BoxesMeet(s[i].ring, h)
                      \/ /\ Strictly(s[j].ring, s[i].ring)
                         /\ \A h \in s[i].holes : ~BoxesMeet(s[j].ring, h)
    BY DEF Untangled
  <2>1. p[i] \in DOMAIN t /\ p[j] \in DOMAIN t /\ p[i] # p[j]
    BY <1>2
  <2>2. s[i] = t[p[i]] /\ s[j] = t[p[j]]
    BY <1>1
  <2> QED BY <2>1, <2>2 DEF Untangled
<1>4. RegionOf(s) = RegionOf(t)
  BY <1>1, <1>2 DEF RegionOf
<1>5. ASSUME NEW cell PROVE Cardinality(Covering(s, cell)) = Cardinality(Covering(t, cell))
  <2> DEFINE P == Covering(s, cell)
             Q == Covering(t, cell)
             f == [k \in P |-> p[k]]
  <2>1. f \in [P -> Q] /\ \A a, b \in P : f[a] = f[b] => a = b
    BY <1>1, <1>2 DEF Covering
  <2>2. ASSUME NEW m \in Q PROVE \E k \in P : f[k] = m
    <3>1. PICK k \in DOMAIN s : p[k] = m
      BY <1>2 DEF Covering
    <3>2. k \in P
      BY <1>1, <3>1 DEF Covering
    <3> QED BY <3>1, <3>2
  <2>3. f \in Bijection(P, Q)
    BY <2>1, <2>2, Fun_IsBij, Zenon
  <2>4. IsFiniteSet(P)
    <3>1. IsFiniteSet(1 .. Len(s)) /\ P \in SUBSET (1 .. Len(s))
      BY FS_Interval DEF Covering
    <3> QED BY <3>1, FS_Subset
  <2> QED BY <2>3, <2>4, FS_Bijection, Fun_ExistsBij
<1> QED
  BY <1>3, <1>4, <1>5 DEF EvenOdd

(* Untangled lists cancel nothing and come out of the sort reordered.      *)
LEMMA ReorderedAlways == Spec => []ReorderedInv
<1>1. Init => ReorderedInv
  BY Reorderings DEF Init, ReorderedInv
<1>2. CancelInv /\ ReorderedInv /\ [Next]_vars => ReorderedInv'
  <2> SUFFICES ASSUME TypedInv, ReorderedInv, [Next]_vars PROVE ReorderedInv'
    BY DEF CancelInv
  <2>1. CASE CancelPair
    <3>1. input' = input /\ pc = "cancel" /\ pc' = pc
      BY <2>1 DEF CancelPair
    <3>2. ~Untangled(input)
      <4> SUFFICES ASSUME Untangled(input) PROVE FALSE
        OBVIOUS
      <4>1. Untangled(shells)
        BY ReorderedSame DEF ReorderedInv, TypedInv
      <4>2. PICK j \in Twins(at) : TRUE
        BY <2>1 DEF CancelPair
      <4>3. /\ at \in DOMAIN shells /\ j \in DOMAIN shells /\ at # j
            /\ shells[j].ring = shells[at].ring
        BY <2>1, <4>2 DEF CancelPair, Twins, TypedInv
      <4>4. shells[at].ring \in Boxes /\ shells[at].ring.lo < shells[at].ring.hi
        BY <4>3 DEF TypedInv, Shells
      <4>5. \/ ~BoxesMeet(shells[at].ring, shells[at].ring)
            \/ Strictly(shells[at].ring, shells[at].ring)
        BY <4>1, <4>3 DEF Untangled
      <4> QED BY <4>4, <4>5 DEF Boxes, BoxesMeet, Strictly
    <3>3. ~Untangled(input')
      BY <3>1, <3>2
    <3> QED BY <3>1, <3>3 DEF ReorderedInv, Untangled
  <2>2. CASE Sort
    <3>1. input' = input /\ shells' = BySize(shells)
      BY <2>2 DEF Sort
    <3>2. IsReordering(shells', shells) /\ Sorted(shells')
      BY <3>1, SortPermutes DEF IsReordering, Sorted, TypedInv
    <3>3. Untangled(input) => IsReordering(shells', input)
      BY <3>2, Reorderings DEF ReorderedInv
    <3> QED BY <3>1, <3>2, <3>3 DEF ReorderedInv
  <2>3. CASE CancelNext \/ Start \/ CancelEnd
    <3>1. /\ input' = input /\ shells' = shells
          /\ pc' \notin {"nest", "union"}
      BY <2>3 DEF CancelNext, Start, CancelEnd, Return
    <3> QED BY <3>1 DEF ReorderedInv
  <2>4. CASE Nest \/ Union \/ UNCHANGED vars
    <3>1. /\ input' = input /\ shells' = shells
          /\ pc' \in {"nest", "union"} => pc \in {"nest", "union"}
      BY <2>4 DEF Nest, Union, Return, vars
    <3> QED BY <3>1 DEF ReorderedInv
  <2> QED BY <2>1, <2>2, <2>3, <2>4 DEF Next
<1> QED
  BY <1>1, <1>2, CancelAlways, PTL DEF Spec

(* A list of one shell, or of shells apart, covers every cell once.        *)
LEMMA ApartIsEvenOdd ==
  ASSUME NEW list \in Seq(Shells), Len(list) <= 1 \/ Apart(list)
  PROVE  RegionOf(list) = EvenOdd(list)
<1>1. ASSUME NEW i \in DOMAIN list, NEW j \in DOMAIN list, NEW cell, i < j,
             cell \in Cells(list[i].ring), cell \in Cells(list[j].ring)
      PROVE  FALSE
  <2>1. list[i].ring \in Boxes /\ list[j].ring \in Boxes
    BY DEF Shells
  <2>2. BoxesMeet(list[i].ring, list[j].ring)
    BY <1>1, <2>1, CoversMeet
  <2>3. ~(Len(list) <= 1)
    BY <1>1
  <2> QED BY <1>1, <2>2, <2>3 DEF Apart
<1>2. ASSUME NEW cell \in RegionOf(list) PROVE cell \in EvenOdd(list)
  <2>1. PICK a \in DOMAIN list : cell \in Region(list[a])
    BY DEF RegionOf
  <2>2. \A k \in DOMAIN list : cell \in Cells(list[k].ring) => k = a
    <3> SUFFICES ASSUME NEW k \in DOMAIN list, cell \in Cells(list[k].ring) PROVE k = a
      OBVIOUS
    <3>1. k < a \/ a < k \/ k = a
      OBVIOUS
    <3>2. cell \in Cells(list[a].ring)
      BY <2>1 DEF Region
    <3> QED BY <1>1, <3>1, <3>2
  <2> QED BY <2>1, <2>2, AloneIsOdd
<1> QED
  BY <1>2 DEF EvenOdd

(* Untangled shells, each inside at most one other and the inner ones      *)
(* without holes, merge to what an odd number of them covers, whether the  *)
(* boolean engine answers, loses area or panics: that far the even-parent  *)
(* rule of merge_shells is the even-odd rule.                              *)
THEOREM MergesToEvenOdd == Spec => []EvenOddWhenSafe
<1> DEFINE Safe == Untangled(input) /\ NestedOnce(shells)
<1>1. EvenOddWhenSafe <=> (pc = "done" /\ Safe => result = EvenOdd(input))
  BY DEF EvenOddWhenSafe, NestedOnce, EvenOdd, Covering
<1>2. Init => EvenOddWhenSafe
  BY DEF Init, EvenOddWhenSafe
<1>3. /\ CancelInv /\ KeptInv /\ ReorderedInv /\ EvenOddWhenSafe
      /\ [Next]_vars
      => EvenOddWhenSafe'
  <2> SUFFICES ASSUME TypedInv, KeptInv, ReorderedInv, EvenOddWhenSafe, [Next]_vars
               PROVE  EvenOddWhenSafe'
    BY DEF CancelInv
  <2>1. EvenOddWhenSafe' <=> (pc' = "done" /\ Safe' => result' = EvenOdd(input)')
    BY DEF EvenOddWhenSafe, NestedOnce, EvenOdd, Covering
  <2> HIDE DEF Safe
  <2>2. ASSUME pc # "done", UNCHANGED <<input, shells>>, pc' = "done",
               Safe => result' = EvenOdd(input)
        PROVE  EvenOddWhenSafe'
    BY <2>1, <2>2 DEF Safe, NestedOnce, Untangled, EvenOdd, RegionOf, Covering
  <2>3. Safe => Untangled(shells) /\ EvenOdd(shells) = EvenOdd(input)
    BY ReorderedSame DEF Safe, ReorderedInv, TypedInv
  <2>4. CASE Start
    <3>1. CASE Len(input) <= 1
      <4>1. RegionOf(input) = EvenOdd(input)
        BY <3>1, ApartIsEvenOdd DEF TypedInv
      <4> QED BY <2>2, <2>4, <3>1, <4>1 DEF Start, Return
    <3>2. CASE ~(Len(input) <= 1)
      BY <2>4, <3>2 DEF Start, EvenOddWhenSafe
    <3> QED BY <3>1, <3>2
  <2>5. CASE CancelPair \/ CancelNext \/ Sort
    BY <2>5 DEF CancelPair, CancelNext, Sort, EvenOddWhenSafe
  <2>6. CASE CancelEnd
    <3>1. CASE Len(shells) <= 1 \/ Apart(shells)
      <4>1. RegionOf(shells) = EvenOdd(shells)
        BY <3>1, ApartIsEvenOdd DEF TypedInv
      <4> QED BY <2>2, <2>3, <2>6, <3>1, <4>1 DEF CancelEnd, Return
    <3>2. CASE ~(Len(shells) <= 1 \/ Apart(shells))
      BY <2>6, <3>2 DEF CancelEnd, EvenOddWhenSafe
    <3> QED BY <3>1, <3>2
  <2>7. ASSUME pc \in {"nest", "union"}, Safe
        PROVE  LooksValid(Kept(shells)) /\ RegionOf(Kept(shells)) = EvenOdd(input)
    <3>1. Sorted(shells) /\ NestedOnce(shells) /\ shells \in Seq(Shells)
      BY <2>7 DEF ReorderedInv, Safe, TypedInv
    <3> QED BY <2>3, <2>7, <3>1, KeptIsEvenOdd, KeptLooksValid
  <2>8. CASE Nest
    <3>1. CASE Cardinality(DOMAIN kept') <= 1
      BY <2>2, <2>7, <2>8, <3>1 DEF Nest, Return
    <3>2. CASE ~(Cardinality(DOMAIN kept') <= 1)
      BY <2>8, <3>2 DEF Nest, EvenOddWhenSafe
    <3> QED BY <3>1, <3>2
  <2>9. CASE Union
    <3>1. /\ pc = "union" /\ pc' = "done" /\ UNCHANGED <<input, shells>>
          /\ kept = Kept(shells)
          /\ LooksValid(kept) \/ engine' # "lossy" => result' = RegionOf(kept)
      BY <2>9, UnionReturns DEF Union
    <3> QED BY <2>2, <2>7, <3>1
  <2>10. CASE UNCHANGED vars
    <3>1. /\ pc' = pc /\ result' = result /\ input' = input /\ shells' = shells
      BY <2>10 DEF vars
    <3> QED BY <1>1, <2>1, <3>1 DEF Safe, NestedOnce, Untangled, EvenOdd, RegionOf, Covering
  <2> QED
    BY <2>4, <2>5, <2>6, <2>7, <2>8, <2>9, <2>10 DEF Next
<1> QED
  BY <1>2, <1>3, CancelAlways, KeptAlways, ReorderedAlways, PTL DEF Spec
=============================================================================
