----------------------------- MODULE MergeShells -----------------------------
(***************************************************************************)
(* merge_shells, the last stage of the structure pipeline: repaired shells *)
(* with the same ring cancel in pairs, a shell inside an odd number of     *)
(* others becomes a hole of its parent, and the rest is united by a        *)
(* boolean engine whose answer an area guard watches.                      *)
(*                                                                         *)
(* Rings are the squares [lo, hi] x [lo, hi] on the diagonal of the plane: *)
(* they nest, overlap, touch in a corner, share edges and lie apart, and   *)
(* every test of the code is one of comparisons of lo and hi.  A region is *)
(* the set of unit cells of the diagonal it covers, cell k being the       *)
(* square [k, k+1] x [k, k+1]; it tells apart everything the even-odd rule *)
(* does.  Winding is normalised first thing and left out.                  *)
(***************************************************************************)
EXTENDS Integers, FiniteSets, SequencesExt

CONSTANT Lists    \* the lists of shells handed to merge_shells

Square(lo, hi) == [lo |-> lo, hi |-> hi]

Cells(ring) == ring.lo .. (ring.hi - 1)

(* A shell is a ring and the set of its holes.                             *)
Region(shell) == Cells(shell.ring) \ UNION {Cells(h) : h \in shell.holes}

RegionOf(list) == UNION {Region(list[k]) : k \in DOMAIN list}

(* Squares with at most a corner in common.                                *)
Clear(r, s) == r.hi <= s.lo \/ s.hi <= r.lo

(* The repaired shells handed over: holes inside the ring, clear of each   *)
(* other.                                                                  *)
Boxes == [lo : Int, hi : Int]

Shells == {s \in [ring : Boxes, holes : SUBSET Boxes] :
             /\ s.ring.lo < s.ring.hi
             /\ \A h \in s.holes : s.ring.lo < h.lo /\ h.lo < h.hi /\ h.hi < s.ring.hi
             /\ \A g, h \in s.holes : g # h => Clear(g, h)}

ASSUME ListsAssumption == Lists \subseteq Seq(Shells)

VARIABLES input,    \* the list as it was handed over
          pc,       \* "start", "cancel", "sort", "nest", "union" or "done"
          shells,   \* the list worked on, cancelled in place
          at,       \* loop index of cancel_identical_shells
          kept,     \* the shells the even-parent rule keeps, with their holes
          engine,   \* how the boolean engine behaved: "unused", "exact", "lossy", "panic"
          result    \* the region returned

vars == <<input, pc, shells, at, kept, engine, result>>

Init == /\ input \in Lists
        /\ pc = "start"
        /\ shells = input
        /\ at = 1
        /\ kept = <<>>
        /\ engine = "unused"
        /\ result = {}

Return(region) == pc' = "done" /\ result' = region

(* No shell, or a single one, is returned as it is.                        *)
Start == /\ pc = "start"
         /\ IF Len(input) <= 1 THEN Return(RegionOf(input))
                               ELSE pc' = "cancel" /\ UNCHANGED result
         /\ UNCHANGED <<input, shells, at, kept, engine>>

(***************************************************************************)
(* cancel_identical_shells: the shell at the loop index and the next one   *)
(* with the same exterior (holes are not compared) go, and the index steps *)
(* back by one, never below the first, before the loop moves on.           *)
(***************************************************************************)
(* Mutant: rings count as the same when they start at the same vertex.     *)
TwinsByStart(i) == {j \in (i + 1) .. Len(shells) : shells[j].ring.lo = shells[i].ring.lo}

Twins(i) == {j \in (i + 1) .. Len(shells) : shells[j].ring = shells[i].ring}

(* Mutant: the pair is found and left in the list.                         *)
CancelPairKept == /\ pc = "cancel"
                  /\ at <= Len(shells)
                  /\ Twins(at) # {}
                  /\ at' = IF at = 1 THEN 2 ELSE at
                  /\ UNCHANGED <<input, pc, shells, kept, engine, result>>

(* Mutant: the twin goes, the shell itself stays.                          *)
CancelPairHalf == /\ pc = "cancel"
                  /\ at <= Len(shells)
                  /\ Twins(at) # {}
                  /\ shells' = RemoveAt(shells, CHOOSE j \in Twins(at) :
                                                  \A k \in Twins(at) : j <= k)
                  /\ at' = IF at = 1 THEN 2 ELSE at
                  /\ UNCHANGED <<input, pc, kept, engine, result>>

CancelPair == /\ pc = "cancel"
              /\ at <= Len(shells)
              /\ Twins(at) # {}
              /\ LET twin == CHOOSE j \in Twins(at) : \A k \in Twins(at) : j <= k
                 IN  shells' = RemoveAt(RemoveAt(shells, twin), at)
              /\ at' = IF at = 1 THEN 2 ELSE at
              /\ UNCHANGED <<input, pc, kept, engine, result>>

CancelNext == /\ pc = "cancel"
              /\ at <= Len(shells)
              /\ Twins(at) = {}
              /\ at' = at + 1
              /\ UNCHANGED <<input, pc, shells, kept, engine, result>>

(* Closed bounding boxes with a point in common.                           *)
BoxesMeet(r, s) == r.lo <= s.hi /\ s.lo <= r.hi

Apart(list) == \A i, j \in DOMAIN list : i < j => ~BoxesMeet(list[i].ring, list[j].ring)

CancelEnd == /\ pc = "cancel"
             /\ at > Len(shells)
             /\ IF Len(shells) <= 1 \/ Apart(shells)
                THEN Return(RegionOf(shells))
                ELSE pc' = "sort" /\ UNCHANGED result
             /\ UNCHANGED <<input, shells, at, kept, engine>>

(***************************************************************************)
(* The even-parent rule, on the shells sorted by area.                     *)
(***************************************************************************)

(* Stable sort by decreasing area.                                         *)
Size(shell) == shell.ring.hi - shell.ring.lo

Before(list, i) == {j \in DOMAIN list : \/ Size(list[j]) > Size(list[i])
                                        \/ Size(list[j]) = Size(list[i]) /\ j < i}

BySize(list) ==
  [k \in DOMAIN list |->
     list[CHOOSE i \in DOMAIN list : Cardinality(Before(list, i)) = k - 1]]

Sort == /\ pc = "sort"
        /\ pc' = "nest"
        /\ shells' = BySize(shells)
        /\ UNCHANGED <<input, at, kept, engine, result>>

Strictly(r, s) == s.lo < r.lo /\ r.hi < s.hi

(* ring_fully_inside: every corner strictly inside the shell and outside   *)
(* its holes, and the probe, just above the middle of the lower edge, in   *)
(* no hole, unless a hole has exactly this ring.                           *)
CornerInside(r, h) == \/ h.lo < r.lo /\ r.lo < h.hi
                      \/ h.lo < r.hi /\ r.hi < h.hi

ProbeInside(r, h) == /\ h.lo <= r.lo /\ r.lo < h.hi
                     /\ 2 * h.lo < r.lo + r.hi /\ r.lo + r.hi < 2 * h.hi

FullyInside(r, shell) ==
  /\ Strictly(r, shell.ring)
  /\ \A h \in shell.holes : ~CornerInside(r, h)
  /\ (\E h \in shell.holes : ProbeInside(r, h)) => r \in shell.holes

(* The indices of the larger shells that hold shell i, in size order.      *)
Holders(list, i) == {j \in DOMAIN list : j < i /\ FullyInside(list[i].ring, list[j])}

IsEven(list, i) == Cardinality(Holders(list, i)) % 2 = 0

(* The parent of shell i is the last, smallest, of its holders.            *)
IsParent(list, j, i) == j \in Holders(list, i) /\ \A k \in Holders(list, i) : k <= j

(* safe_to_convert: no other kept shell comes near this one.               *)
SafeToConvert(list, i) ==
  \A k \in DOMAIN list : k # i /\ IsEven(list, k)
                           => ~BoxesMeet(list[i].ring, list[k].ring)

(* The odd shells that become holes of shell i: those whose parent it is,  *)
(* but for a ring it has as a hole already.  The holes are listed before   *)
(* the first one is added, so twins that cancelling missed are both added. *)
NewHoles(list, i) == {k \in DOMAIN list : /\ ~IsEven(list, k)
                                          /\ IsParent(list, i, k)
                                          /\ SafeToConvert(list, i)
                                          /\ list[k].ring \notin list[i].holes}

(* Mutant: holes that an odd shell leaves are forgotten.                   *)
KeepShellBare(list, i) ==
  [ring |-> list[i].ring, holes |-> list[i].holes, twice |-> {}]

(* A kept shell: its ring, its holes, and those of them it has twice.      *)
KeepShell(list, i) ==
  LET new == NewHoles(list, i)
  IN  [ring  |-> list[i].ring,
       holes |-> list[i].holes \cup {list[k].ring : k \in new},
       twice |-> {list[k].ring : k \in {k \in new : \E l \in new :
                                           l # k /\ list[l].ring = list[k].ring}}]

(* The shells kept, by their place in the list: nothing after this looks   *)
(* at their order.                                                         *)
Kept(list) == [i \in {i \in DOMAIN list : IsEven(list, i)} |-> KeepShell(list, i)]

Nest == /\ pc = "nest"
        /\ kept' = Kept(shells)
        /\ IF Cardinality(DOMAIN kept') <= 1 THEN Return(RegionOf(kept'))
                              ELSE pc' = "union" /\ UNCHANGED result
        /\ UNCHANGED <<input, shells, at, engine>>

(***************************************************************************)
(* unary_union under catch_unwind, and the area guard.  The engine returns *)
(* the union, loses some of it, or panics.                                 *)
(***************************************************************************)
(* The area of every shell, one after the other: a cell counts as often as *)
(* it is covered.                                                          *)
AreaOf(list) == Cardinality(UNION {{k} \X Region(list[k]) : k \in DOMAIN list})

(* shells_look_valid: the shells touch in corners at most, or one lies     *)
(* strictly inside a hole of the other, and the holes of a shell do not    *)
(* cross, none of them listed twice.                                       *)
LooksValid(list) ==
  /\ \A i \in DOMAIN list : list[i].twice = {}
  /\ \A i \in DOMAIN list : \A g, h \in list[i].holes : g # h => Clear(g, h)
  /\ \A i, j \in DOMAIN list : i # j =>
       \/ Clear(list[i].ring, list[j].ring)
       \/ \E h \in list[i].holes : Strictly(list[j].ring, h)
       \/ \E h \in list[j].holes : Strictly(list[i].ring, h)

(* Mutant: the engine's answer is taken without looking at its area.       *)
GuardedTrusting(u) == u

Guarded(u) == IF Cardinality(u) < AreaOf(kept) /\ LooksValid(kept)
              THEN RegionOf(kept) ELSE u

Union == /\ pc = "union"
         /\ \/ engine' = "exact" /\ Return(Guarded(RegionOf(kept)))
            \/ /\ engine' = "lossy"
               /\ \E u \in SUBSET RegionOf(kept) :
                    u # RegionOf(kept) /\ Return(Guarded(u))
            \/ engine' = "panic" /\ Return(RegionOf(kept))
         /\ UNCHANGED <<input, shells, at, kept>>

Next == Start \/ CancelPair \/ CancelNext \/ CancelEnd \/ Sort \/ Nest \/ Union

Spec == Init /\ [][Next]_vars /\ WF_vars(Next)

(***************************************************************************)
(* What merge_shells must keep.                                            *)
(***************************************************************************)

Rings == {input[k].ring : k \in DOMAIN input}

Copies(list, ring) == Cardinality({k \in DOMAIN list : list[k].ring = ring})

(* Cancelling never changes the parity with which a ring occurs, in any    *)
(* order the duplicates come: the even-odd rule sees the same rings.       *)
CancelsInPairs == \A r \in Rings : Copies(shells, r) % 2 = Copies(input, r) % 2

(* A shell that meets no other keeps its place whatever else cancels and   *)
(* nests: what exactly one exterior covers is in the result (unless it was *)
(* that shell's hole), and what none covers is not.                        *)
CoveredBy(cell) == {k \in DOMAIN input : cell \in Cells(input[k].ring)}

SinglyCoveredKept ==
  pc = "done" /\ engine # "lossy" =>
    /\ result \subseteq RegionOf(input)
    /\ \A cell \in RegionOf(input) :
         Cardinality(CoveredBy(cell)) = 1 => cell \in result

(* Shells are untangled when any two lie apart or nest without contact,    *)
(* holes included.                                                         *)
Untangled(list) ==
  \A i, j \in DOMAIN list : i # j =>
    \/ ~BoxesMeet(list[i].ring, list[j].ring)
    \/ /\ Strictly(list[i].ring, list[j].ring)
       /\ \A h \in list[j].holes : ~BoxesMeet(list[i].ring, h)
    \/ /\ Strictly(list[j].ring, list[i].ring)
       /\ \A h \in list[i].holes : ~BoxesMeet(list[j].ring, h)

(* "odd -> becomes a hole of its parent": untangled shells, none of them   *)
(* inside two others, merge to the cells an odd number of them covers.     *)
(* (Nested twice they do not: the innermost shell is kept and comes near   *)
(* the outermost, which then gets no hole.)                                *)
EvenOddWhenSafe ==
  pc = "done" /\ Untangled(input)
    /\ (\A i, j \in DOMAIN shells : i # j /\ IsEven(shells, i) /\ IsEven(shells, j)
          => ~BoxesMeet(shells[i].ring, shells[j].ring))
    /\ (\A i \in DOMAIN shells : ~IsEven(shells, i) => shells[i].holes = {})
  => result = {cell \in RegionOf(input) :
                 Cardinality({k \in DOMAIN input : cell \in Region(input[k])}) % 2 = 1}

(* The union never costs area the kept shells validly had: an engine that  *)
(* loses part of a valid set of shells is overruled.                       *)
ValidAreaKept == pc = "done" /\ engine # "unused" /\ LooksValid(kept)
                   => result = RegionOf(kept)

(* "Duplicate shells cancel: hole==shell must yield empty": shells that    *)
(* all come in pairs leave nothing.                                        *)
DuplicatesCancel ==
  pc = "done" /\ (\A r \in Rings : Copies(input, r) % 2 = 0) => result = {}

(* The cancel loop rewinds its index, and ends all the same.               *)
MergeEnds == <>(pc = "done")
=============================================================================
