----------------------- MODULE PolygonValidity_proofs -----------------------
(***************************************************************************)
(* The cycle search of check_holes_valid, detect_hole_cycle, on polygons   *)
(* of any number of rings: rings that have passed the tests before it      *)
(* touch in vertices only, and the search says whether their touches close *)
(* a cycle.                                                                *)
(***************************************************************************)
EXTENDS PolygonValidity, Segments_proofs, FiniteSetTheorems, TLAPS

Ring(r) == RingsOf(Part)[r]

RingNos == DOMAIN RingsOf(Part)

On(r, p) == PointOnRing(p, Ring(r))

(* Two rings of the part share a point.                                    *)
Linked(r, s) == r # s /\ \E p \in Points : On(r, p) /\ On(s, p)

(* Rings share vertices only, of one of them at least.                     *)
VerticesOnly ==
  \A r, s \in RingNos, p \in Points :
    r # s /\ On(r, p) /\ On(s, p) => p \in Range(Ring(r)) \cup Range(Ring(s))

(***************************************************************************)
(* The inductive invariant.                                                *)
(***************************************************************************)
(* Which part and which of its holes is looked at.                         *)
PlaceInv ==
  /\ mode \in {"validate", "gate", "giant", "arrange"}
  /\ parts \in Seq(Polygons)
  /\ mode # "validate" => Len(parts) = 1
  /\ pc \in {"gate", "part", "holes", "pairs", "cycle", "nested"} => at \in DOMAIN parts
  /\ pc \in {"gate", "part"} => hole = 1
  /\ pc = "holes" => hole \in DOMAIN Part.holes
  /\ pc \in {"gate", "part", "holes", "pairs"} => root = NoRoot /\ stack = {}

(* What the holes looked at so far have been found not to do.              *)
HolesInv ==
  /\ pc = "holes" => \A k \in 1 .. (hole - 1) : ~RingsIntersect(Part.holes[k], Part.shell)
  /\ pc = "pairs" => \A k \in DOMAIN Part.holes : ~RingsIntersect(Part.holes[k], Part.shell)
  /\ pc = "cycle" => VerticesOnly

(* Rings marked by the searches before this one, with all they touch.      *)
Old == {r \in RingNos : touchRoot[r] \notin {NoRoot, root}}

Settled == {r \in RingNos : r \in Old \/ \E s \in Old : Linked(s, r)}

(* Rings this search has come to.                                          *)
Marked == {r \in RingNos : touchRoot[r] = root}

Reach == Marked \cup {r \in RingNos : Linked(root, r)}

MarksInv ==
  /\ touchRoot \in [RingNos -> RingNos \cup {NoRoot}]
  /\ root \in RingNos \cup {NoRoot}
  /\ stack \subseteq [ring : RingNos, point : Points]
  /\ \A r \in RingNos : touchRoot[r] # NoRoot => touchRoot[touchRoot[r]] = touchRoot[r]
  /\ root # NoRoot => touchRoot[root] = root
  /\ root = NoRoot => stack = {} /\ \A r \in RingNos : touchRoot[r] = NoRoot

(* The searches that have ended leave nothing to find.                     *)
SettledInv ==
  /\ \A r \in Settled, s \in RingNos : Linked(r, s) => s \in Settled
  /\ \A C \in SUBSET Contacts : GoesRound(C) => \A c \in C : c.ring \notin Settled

(* A search from a ring they have come to stays where they were.           *)
RepeatInv == root \in Settled => Marked \subseteq Settled /\ \A t \in stack : t.ring \in Settled

(* Any other one keeps away from there; what leads on from where it is, or *)
(* round it, is on the stack.                                              *)
SearchInv ==
  root # NoRoot /\ root \notin Settled =>
    /\ Reach \cap Settled = {}
    /\ \A t \in stack : /\ t.ring \in Reach /\ On(t.ring, t.point)
                        /\ \A s \in RingNos : On(s, t.point) => s \in Reach
    /\ \A r \in Reach, s \in RingNos :
         Linked(r, s) => s \in Reach \/ \E t \in stack : t.ring = r
    /\ \A C \in SUBSET Contacts : GoesRound(C) /\ (\E c \in C : c.ring \in Reach)
         => \E t \in stack, c \in C : c.ring = t.ring

CycleInv == /\ pc = "cycle" => MarksInv /\ SettledInv /\ RepeatInv /\ SearchInv
            /\ CyclesFound

ValidityInv == PlaceInv /\ HolesInv /\ CycleInv

(***************************************************************************)
(* The graph of rings and the points they share.                           *)
(***************************************************************************)

(* A way round leads on: from any ring of it, by another point than the    *)
(* one it was entered by, to another ring of it.                           *)
LEMMA RoundLeadsOn ==
  ASSUME NEW C \in SUBSET Contacts, GoesRound(C), NEW c \in C, NEW p
  PROVE  \E d \in C : d.ring # c.ring /\ d.point # p /\ On(c.ring, d.point) /\ On(d.ring, d.point)
<1>1. PICK e \in C : e.ring = c.ring /\ e.point # p
  BY DEF GoesRound
<1>2. PICK d \in C : d.point = e.point /\ d.ring # e.ring
  BY DEF GoesRound
<1>3. On(e.ring, e.point) /\ On(d.ring, d.point)
  BY DEF Contacts, On, Ring
<1> QED BY <1>1, <1>2, <1>3

(* The rings of a part are sequences of points, the shell first.           *)
LEMMA RingsAre ==
  ASSUME at \in DOMAIN parts, parts \in Seq(Polygons)
  PROVE  /\ Part \in Polygons
         /\ RingNos = 1 .. (Len(Part.holes) + 1) /\ NoRoot \notin RingNos
         /\ \A r \in RingNos : Ring(r) \in Rings /\ Range(Ring(r)) \subseteq Points
         /\ Ring(1) = Part.shell
         /\ \A k \in DOMAIN Part.holes : k + 1 \in RingNos /\ Ring(k + 1) = Part.holes[k]
         /\ \A r \in RingNos \ {1} : r - 1 \in DOMAIN Part.holes /\ Ring(r) = Part.holes[r - 1]
<1>1. Part \in Polygons
  BY DEF Part
<1>2. Part.shell \in Rings /\ Part.holes \in Seq(Rings)
  BY <1>1 DEF Polygons
<1> DEFINE hs == Part.holes
           sh == Part.shell
<1>3. RingsOf(Part) = <<sh>> \o hs
  BY DEF RingsOf
<1> HIDE DEF hs, sh
<1>4. /\ hs \in Seq(Rings) /\ sh \in Rings /\ Len(hs) \in Nat /\ DOMAIN hs = 1 .. Len(hs)
      /\ DOMAIN (<<sh>> \o hs) = 1 .. (Len(hs) + 1)
      /\ (<<sh>> \o hs)[1] = sh
      /\ \A r \in 2 .. (Len(hs) + 1) : (<<sh>> \o hs)[r] = hs[r - 1]
  BY <1>2 DEF hs, sh
<1>5. RingNos = 1 .. (Len(hs) + 1) /\ Ring(1) = sh
  BY <1>3, <1>4 DEF RingNos, Ring
<1>6. \A r \in RingNos \ {1} : r - 1 \in DOMAIN hs /\ Ring(r) = hs[r - 1]
  BY <1>3, <1>4, <1>5 DEF Ring
<1>7. \A k \in DOMAIN hs : k + 1 \in RingNos /\ Ring(k + 1) = hs[k]
  BY <1>4, <1>5, <1>6
<1>8. ASSUME NEW r \in RingNos PROVE Ring(r) \in Rings /\ Range(Ring(r)) \subseteq Points
  <2>1. Ring(r) \in Rings
    <3>1. CASE r = 1
      BY <1>4, <1>5, <3>1
    <3>2. CASE r # 1
      BY <1>4, <1>6, <3>2
    <3> QED BY <3>1, <3>2
  <2>2. ASSUME NEW s \in Rings PROVE Range(s) \subseteq Points
    BY DEF Rings, Range
  <2> QED BY <2>1, <2>2
<1>9. NoRoot \notin RingNos
  BY <1>4, <1>5 DEF NoRoot
<1> QED BY <1>1, <1>4, <1>5, <1>6, <1>7, <1>8, <1>9 DEF hs, sh

(* The touches of a ring are all the points it shares.                     *)
LEMMA TouchesAre ==
  ASSUME at \in DOMAIN parts, parts \in Seq(Polygons), VerticesOnly, NEW r \in RingNos
  PROVE  \A t : t \in Touches(r) <=>
           /\ t \in [ring : RingNos, point : Points]
           /\ t.ring # r /\ On(r, t.point) /\ On(t.ring, t.point)
<1> DEFINE Meet2(s) == {p \in Range(Ring(r)) \cup Range(Ring(s)) : On(r, p) /\ On(s, p)}
<1>1. Touches(r) = UNION {{[ring |-> s, point |-> p] : p \in Meet2(s)} : s \in RingNos \ {r}}
  BY DEF Touches, Ring, RingNos, On
<1>2. \A s \in RingNos : Range(Ring(s)) \subseteq Points
  BY RingsAre
<1>3. ASSUME NEW t, t \in Touches(r)
      PROVE  /\ t \in [ring : RingNos, point : Points]
             /\ t.ring # r /\ On(r, t.point) /\ On(t.ring, t.point)
  <2>1. PICK s \in RingNos \ {r} : t \in {[ring |-> s, point |-> p] : p \in Meet2(s)}
    BY <1>1, <1>3
  <2>2. PICK p \in Meet2(s) : t = [ring |-> s, point |-> p]
    BY <2>1
  <2>3. p \in Points
    BY <1>2, <2>2
  <2> QED BY <2>1, <2>2, <2>3
<1>4. ASSUME NEW t \in [ring : RingNos, point : Points],
             t.ring # r, On(r, t.point), On(t.ring, t.point)
      PROVE  t \in Touches(r)
  <2>1. t.point \in Meet2(t.ring)
    BY <1>4 DEF VerticesOnly
  <2>2. t = [ring |-> t.ring, point |-> t.point]
    OBVIOUS
  <2>3. t \in {[ring |-> t.ring, point |-> p] : p \in Meet2(t.ring)}
    BY <2>1, <2>2
  <2>4. t.ring \in RingNos \ {r}
    BY <1>4
  <2> HIDE DEF Meet2
  <2> QED BY <1>1, <2>3, <2>4
<1> QED BY <1>3, <1>4

(* The part looked at stays.                                               *)
LEMMA SamePart ==
  ASSUME at' = at, parts' = parts
  PROVE  /\ Part' = Part /\ RingNos' = RingNos /\ Contacts' = Contacts
         /\ \A r, p : On(r, p)' <=> On(r, p)
         /\ \A r, s : Linked(r, s)' <=> Linked(r, s)
         /\ VerticesOnly' <=> VerticesOnly
BY DEF Part, RingNos, Contacts, On, Ring, Linked, VerticesOnly, RingsOf

(***************************************************************************)
(* The steps of the search.                                                *)
(***************************************************************************)

(* What a search has to know when it takes a step.                         *)
Searching == /\ at \in DOMAIN parts /\ parts \in Seq(Polygons) /\ VerticesOnly
             /\ MarksInv /\ SettledInv /\ RepeatInv /\ SearchInv

(* A search that has ended adds what it has come to to what is settled,    *)
(* and there is no way round in it.                                        *)
LEMMA SearchEnds ==
  ASSUME Searching, stack = {},
         NEW S, S = {r \in RingNos : \/ touchRoot[r] # NoRoot
                                     \/ \E s \in RingNos : touchRoot[s] # NoRoot /\ Linked(s, r)}
  PROVE  /\ \A r \in S, s \in RingNos : Linked(r, s) => s \in S
         /\ \A C \in SUBSET Contacts : GoesRound(C) => \A c \in C : c.ring \notin S
<1>1. CASE root = NoRoot
  <2>1. S = {}
    BY <1>1 DEF Searching, MarksInv
  <2> QED BY <2>1
<1>2. CASE root # NoRoot
  <2>1. /\ root \in RingNos /\ root \in Marked
        /\ \A r \in RingNos : touchRoot[r] # NoRoot <=> r \in Old \/ r \in Marked
    BY <1>2 DEF Searching, MarksInv, Old, Marked
  <2>2. \A r \in RingNos : r \in S <=> \/ r \in Old \/ r \in Marked
                                       \/ \E s \in RingNos : (s \in Old \/ s \in Marked) /\ Linked(s, r)
    BY <2>1
  <2>3. /\ \A r \in RingNos : r \in Settled <=> r \in Old \/ \E s \in RingNos : s \in Old /\ Linked(s, r)
        /\ \A r \in Settled, s \in RingNos : Linked(r, s) => s \in Settled
        /\ \A C \in SUBSET Contacts : GoesRound(C) => \A c \in C : c.ring \notin Settled
    BY DEF Searching, SettledInv, Settled, Old
  <2>4. \A r, s : Linked(r, s) <=> Linked(s, r)
    BY DEF Linked
  <2>5. S \subseteq RingNos /\ Settled \subseteq RingNos /\ Marked \subseteq RingNos /\ Reach \subseteq RingNos
    BY DEF Settled, Marked, Reach
  <2>6. CASE root \in Settled
    <3>1. Marked \subseteq Settled
      BY <2>6 DEF Searching, RepeatInv
    <3>2. S = Settled
      BY <2>2, <2>3, <2>5, <3>1
    <3> QED BY <2>3, <3>2
  <2>7. CASE root \notin Settled
    <3>1. /\ \A r \in Reach, s \in RingNos : Linked(r, s) => s \in Reach
          /\ \A C \in SUBSET Contacts : GoesRound(C) => \A c \in C : c.ring \notin Reach
      BY <1>2, <2>7 DEF Searching, SearchInv
    <3>2. \A r \in RingNos : r \in Reach <=> r \in Marked \/ Linked(root, r)
      BY DEF Reach, Marked
    <3>3. \A r \in RingNos : r \in S <=> r \in Settled \/ r \in Reach
      BY <2>1, <2>2, <2>3, <2>5, <3>1, <3>2
    <3> HIDE DEF Settled, Reach
    <3> QED BY <2>3, <2>5, <3>1, <3>3
  <2> QED BY <2>6, <2>7
<1> QED BY <1>1, <1>2

(* The next search starts.                                                 *)
LEMMA NextRootKeeps ==
  ASSUME Searching, pc = "cycle", NextRoot
  PROVE  /\ pc' = "cycle" => (MarksInv /\ SettledInv /\ RepeatInv /\ SearchInv)'
         /\ CyclesFound'
         /\ pc' \in {"cycle", "nested"}
<1> DEFINE free == {r \in DOMAIN touchRoot : touchRoot[r] = NoRoot}
           S == {r \in RingNos : \/ touchRoot[r] # NoRoot
                                 \/ \E s \in RingNos : touchRoot[s] # NoRoot /\ Linked(s, r)}
<1>1. stack = {} /\ at' = at /\ parts' = parts
  BY DEF NextRoot, Continue, Go
<1>2. /\ Part' = Part /\ RingNos' = RingNos /\ Contacts' = Contacts
      /\ \A r, p : On(r, p)' <=> On(r, p)
      /\ \A r, s : Linked(r, s)' <=> Linked(r, s)
  BY <1>1, SamePart
<1>3. /\ \A r \in S, s \in RingNos : Linked(r, s) => s \in S
      /\ \A C \in SUBSET Contacts : GoesRound(C) => \A c \in C : c.ring \notin S
  <2> HIDE DEF S
  <2> QED BY <1>1, SearchEnds DEF S
<1>4. DOMAIN touchRoot = RingNos
  BY DEF Searching, MarksInv
<1>5. CASE free = {}
  <2>1. pc' = "nested"
    BY <1>5 DEF NextRoot, Continue, Go
  <2>2. S = RingNos
    BY <1>4, <1>5
  <2>3. ASSUME NEW C \in SUBSET Contacts, GoesRound(C) PROVE FALSE
    <3>1. PICK c \in C : TRUE
      BY <2>3 DEF GoesRound
    <3>2. c.ring \in RingNos
      BY DEF Contacts, RingNos
    <3> QED BY <1>3, <2>2, <2>3, <3>1, <3>2
  <2> QED BY <1>2, <2>1, <2>3 DEF CyclesFound
<1>6. CASE free # {}
  <2>1. /\ root' \in RingNos /\ touchRoot[root'] = NoRoot
        /\ touchRoot' = [touchRoot EXCEPT ![root'] = root']
        /\ stack' = Touches(root')
        /\ pc' = "cycle"
    <3> DEFINE r == CHOOSE r \in free : \A s \in free : r <= s
    <3>1. \E q \in free : \A s \in free : q <= s
      <4>1. free \in SUBSET Nat
        BY <1>4, RingsAre DEF Searching
      <4> HIDE DEF free
      <4> QED BY <1>6, <4>1, LeastNatural
    <3>2. r \in free
      <4> HIDE DEF free
      <4> QED BY <3>1
    <3>3. root' = r /\ touchRoot' = [touchRoot EXCEPT ![r] = r] /\ stack' = Touches(r) /\ pc' = "cycle"
      BY <1>6 DEF NextRoot, Continue, Go
    <3> HIDE DEF r
    <3> QED BY <1>4, <3>2, <3>3
  <2> DEFINE new == root'
  <2>2. /\ new # NoRoot
        /\ touchRoot' \in [RingNos -> RingNos \cup {NoRoot}]
        /\ touchRoot'[new] = new /\ \A r \in RingNos \ {new} : touchRoot'[r] = touchRoot[r]
        /\ \A r \in RingNos : touchRoot[r] # new
    BY <2>1, RingsAre DEF Searching, MarksInv
  <2>3. \A t : t \in stack' <=> /\ t \in [ring : RingNos, point : Points]
                                /\ t.ring # new /\ On(new, t.point) /\ On(t.ring, t.point)
    BY <2>1, TouchesAre DEF Searching
  <2>4. MarksInv'
    <3>1. \A r \in RingNos : touchRoot'[r] # NoRoot => touchRoot'[touchRoot'[r]] = touchRoot'[r]
      BY <2>2 DEF Searching, MarksInv
    <3>2. stack' \subseteq [ring : RingNos, point : Points]
      BY <2>3
    <3> QED BY <1>2, <2>1, <2>2, <3>1, <3>2 DEF MarksInv
  <2>5. Marked' = {new} /\ Old' = {r \in RingNos : touchRoot[r] # NoRoot}
    BY <1>2, <2>1, <2>2 DEF Marked, Old
  <2>6. Settled' = S
    <3>1. Settled' = {r \in RingNos : r \in Old' \/ \E s \in Old' : Linked(s, r)}
      BY <1>2 DEF Settled
    <3> QED BY <2>5, <3>1
  <2>7. \A r : r \in Reach' <=> r = new \/ (r \in RingNos /\ Linked(new, r))
    BY <1>2, <2>5 DEF Reach
  <2>8. \A r, s : Linked(r, s) <=> Linked(s, r)
    BY DEF Linked
  <2> HIDE DEF S, new
  <2>9. SettledInv'
    BY <1>2, <1>3, <2>6 DEF SettledInv
  <2>10. \A t \in stack' : t.ring \in RingNos /\ Linked(new, t.ring)
    BY <2>3 DEF Linked
  <2>11. RepeatInv'
    <3>1. new \in S => {new} \subseteq S /\ \A t \in stack' : t.ring \in S
      BY <1>3, <2>10
    <3> QED BY <2>5, <2>6, <3>1 DEF RepeatInv, new
  <2>12. SearchInv'
    <3> SUFFICES ASSUME new \notin S
                 PROVE  /\ Reach' \cap S = {}
                        /\ \A t \in stack' : /\ t.ring \in Reach' /\ On(t.ring, t.point)
                                             /\ \A s \in RingNos : On(s, t.point) => s \in Reach'
                        /\ \A r \in Reach', s \in RingNos :
                             Linked(r, s) => s \in Reach' \/ \E t \in stack' : t.ring = r
                        /\ \A C \in SUBSET Contacts : GoesRound(C) /\ (\E c \in C : c.ring \in Reach')
                             => \E t \in stack', c \in C : c.ring = t.ring
      BY <1>2, <2>6 DEF SearchInv, new
    <3>1. Reach' \cap S = {}
      <4>1. new \in RingNos
        BY <2>1 DEF new
      <4> QED BY <1>3, <2>7, <2>8, <4>1
    <3>2. ASSUME NEW t \in stack'
          PROVE  /\ t.ring \in Reach' /\ On(t.ring, t.point)
                 /\ \A s \in RingNos : On(s, t.point) => s \in Reach'
      <4>1. \A s \in RingNos : On(s, t.point) => s = new \/ Linked(new, s)
        BY <2>3, <3>2 DEF Linked
      <4> QED BY <2>3, <2>7, <2>10, <4>1
    <3>3. ASSUME NEW r \in RingNos, Linked(new, r) PROVE \E t \in stack' : t.ring = r
      <4>1. PICK p \in Points : On(new, p) /\ On(r, p)
        BY <3>3 DEF Linked
      <4>2. [ring |-> r, point |-> p] \in stack'
        BY <2>3, <3>3, <4>1 DEF Linked
      <4> QED BY <4>2
    <3>4. ASSUME NEW r \in Reach', NEW s \in RingNos, Linked(r, s)
          PROVE  s \in Reach' \/ \E t \in stack' : t.ring = r
      BY <2>7, <3>3, <3>4
    <3>5. ASSUME NEW C \in SUBSET Contacts, GoesRound(C), NEW c \in C, c.ring \in Reach'
          PROVE  \E t \in stack', d \in C : d.ring = t.ring
      <4>1. \A d \in C : d.ring \in RingNos /\ d.point \in Points
        <5>1. \A r \in RingNos : Range(Ring(r)) \subseteq Points
          BY RingsAre DEF Searching
        <5> QED BY <5>1 DEF Contacts, RingNos, Ring
      <4>2. CASE c.ring = new
        <5>1. PICK d \in C : d.ring # c.ring /\ On(c.ring, d.point) /\ On(d.ring, d.point)
          BY <3>5, RoundLeadsOn
        <5>2. Linked(new, d.ring)
          BY <4>1, <4>2, <5>1 DEF Linked
        <5> QED BY <3>3, <4>1, <5>2
      <4>3. CASE c.ring # new
        BY <2>7, <3>3, <3>5, <4>3
      <4> QED BY <4>2, <4>3
    <3> QED BY <3>1, <3>2, <3>4, <3>5
  <2>13. CyclesFound'
    BY <2>1 DEF CyclesFound
  <2> QED BY <2>1, <2>4, <2>9, <2>11, <2>12, <2>13
<1> QED BY <1>5, <1>6

(* A touch is followed.                                                    *)
LEMMA FollowTouchKeeps ==
  ASSUME Searching, pc = "cycle", FollowTouch, pc' = "cycle"
  PROVE  (MarksInv /\ SettledInv /\ RepeatInv /\ SearchInv)'
<1>1. PICK t \in stack :
        /\ ~\E u \in Onward(t) : touchRoot[u.ring] = root
        /\ touchRoot' = [r \in DOMAIN touchRoot |->
             IF \E u \in {u \in Onward(t) : touchRoot[u.ring] = NoRoot} : u.ring = r
             THEN root ELSE touchRoot[r]]
        /\ stack' = (stack \ {t}) \cup {u \in Onward(t) : touchRoot[u.ring] = NoRoot}
        /\ at' = at /\ parts' = parts /\ root' = root
  <2>1. PICK t \in stack :
          IF \/ \E u \in Onward(t) : touchRoot[u.ring] = root
             \/ \E u, v \in Onward(t) : u # v /\ u.ring = v.ring /\ touchRoot[u.ring] = NoRoot
          THEN FinishPart({"DisconnectedInterior"})
          ELSE LET new == {u \in Onward(t) : touchRoot[u.ring] = NoRoot}
               IN  /\ touchRoot' = [r \in DOMAIN touchRoot |->
                                      IF \E u \in new : u.ring = r THEN root ELSE touchRoot[r]]
                   /\ stack' = (stack \ {t}) \cup new
                   /\ Continue("cycle") /\ UNCHANGED <<hole, root>>
    BY DEF FollowTouch
  <2>2. ~FinishPart({"DisconnectedInterior"})
    BY DEF FinishPart, Go
  <2> QED BY <2>1, <2>2 DEF Continue, Go
<1> DEFINE new == {u \in Onward(t) : touchRoot[u.ring] = NoRoot}
           fresh == {r \in RingNos : \E u \in new : u.ring = r}
<1>2. /\ Part' = Part /\ RingNos' = RingNos /\ Contacts' = Contacts
      /\ \A r, p : On(r, p)' <=> On(r, p)
      /\ \A r, s : Linked(r, s)' <=> Linked(r, s)
  BY <1>1, SamePart
<1>3. /\ root \in RingNos /\ root # NoRoot /\ touchRoot[root] = root
      /\ touchRoot \in [RingNos -> RingNos \cup {NoRoot}]
      /\ t \in [ring : RingNos, point : Points]
  BY <1>1 DEF Searching, MarksInv
<1>4. \A u : u \in Onward(t) <=>
        /\ u \in [ring : RingNos, point : Points]
        /\ u.ring # t.ring /\ u.point # t.point /\ On(t.ring, u.point) /\ On(u.ring, u.point)
  <2>1. t.ring \in RingNos
    BY <1>3
  <2>2. \A u : u \in Touches(t.ring) <=>
          /\ u \in [ring : RingNos, point : Points]
          /\ u.ring # t.ring /\ On(t.ring, u.point) /\ On(u.ring, u.point)
    BY <2>1, TouchesAre DEF Searching
  <2> QED BY <2>2 DEF Onward
<1>5. \A r \in RingNos : /\ r \in fresh => touchRoot'[r] = root /\ touchRoot[r] = NoRoot
                         /\ r \notin fresh => touchRoot'[r] = touchRoot[r]
  BY <1>1, <1>3
<1>6. \A u \in new : u \in [ring : RingNos, point : Points] /\ u.ring \in fresh /\ Linked(t.ring, u.ring)
  BY <1>4 DEF Linked
<1>7. stack' = (stack \ {t}) \cup new
  BY <1>1
<1>8. \A u \in Onward(t) : touchRoot[u.ring] # root
  BY <1>1
<1>9. \A r \in fresh : r \in RingNos /\ \E u \in new : u.ring = r
  OBVIOUS
<1>10. \A u \in Onward(t) : touchRoot[u.ring] = NoRoot => u \in new
  OBVIOUS
<1> HIDE DEF new, fresh
<1>11. MarksInv'
  <2>1. touchRoot' \in [RingNos -> RingNos \cup {NoRoot}]
    <3>1. touchRoot' = [r \in RingNos |-> touchRoot'[r]]
      BY <1>1, <1>3
    <3>2. \A r \in RingNos : touchRoot'[r] \in RingNos \cup {NoRoot}
      BY <1>3, <1>5
    <3> QED BY <3>1, <3>2
  <2>2. stack' \subseteq [ring : RingNos, point : Points]
    BY <1>6, <1>7 DEF Searching, MarksInv
  <2>3. touchRoot'[root] = root
    BY <1>3, <1>5
  <2>4. \A r \in RingNos : touchRoot'[r] # NoRoot => touchRoot'[touchRoot'[r]] = touchRoot'[r]
    <3> SUFFICES ASSUME NEW r \in RingNos, touchRoot'[r] # NoRoot
                 PROVE  touchRoot'[touchRoot'[r]] = touchRoot'[r]
      OBVIOUS
    <3>1. CASE r \in fresh
      BY <1>5, <2>3, <3>1
    <3>2. CASE r \notin fresh
      <4>1. touchRoot[r] \in RingNos /\ touchRoot[touchRoot[r]] = touchRoot[r] /\ touchRoot[r] # NoRoot
        BY <1>3, <1>5, <3>2 DEF Searching, MarksInv
      <4> QED BY <1>5, <3>2, <4>1
    <3> QED BY <3>1, <3>2
  <2> QED BY <1>1, <1>2, <1>3, <2>1, <2>2, <2>3, <2>4 DEF MarksInv
<1>12. /\ Old' = Old /\ Settled' = Settled
       /\ \A r : r \in Marked' <=> r \in Marked \/ r \in fresh
       /\ \A r : r \in Reach' <=> r \in Reach \/ r \in fresh
  <2>1. \A r \in RingNos : touchRoot'[r] \notin {NoRoot, root} <=> touchRoot[r] \notin {NoRoot, root}
    BY <1>3, <1>5
  <2>2. Old' = Old
    BY <1>1, <1>2, <2>1 DEF Old
  <2>3. Settled' = Settled
    BY <1>2, <2>2 DEF Settled
  <2>4. \A r \in RingNos : touchRoot'[r] = root <=> touchRoot[r] = root \/ r \in fresh
    BY <1>3, <1>5
  <2>5. \A r : r \in Marked' <=> r \in Marked \/ r \in fresh
    BY <1>1, <1>2, <1>9, <2>4 DEF Marked
  <2> QED BY <1>1, <1>2, <2>2, <2>3, <2>5 DEF Reach
<1>13. SettledInv'
  <2>1. SettledInv
    BY DEF Searching
  <2> QED BY <1>2, <1>12, <2>1 DEF SettledInv
<1>14. SettledInv /\ Settled \subseteq RingNos /\ \A r, s : Linked(r, s) <=> Linked(s, r)
  BY DEF Searching, Settled, Linked
<1>15. RepeatInv'
  <2> SUFFICES ASSUME root \in Settled
               PROVE  Marked' \subseteq Settled /\ \A u \in stack' : u.ring \in Settled
    BY <1>1, <1>12 DEF RepeatInv
  <2>1. Marked \subseteq Settled /\ \A u \in stack : u.ring \in Settled
    BY DEF Searching, RepeatInv
  <2>2. \A u \in new : u.ring \in Settled
    BY <1>1, <1>6, <1>14, <2>1 DEF SettledInv
  <2>3. \A r \in fresh : r \in Settled
    BY <1>9, <2>2
  <2> QED BY <1>7, <1>12, <2>1, <2>2, <2>3
<1>16. SearchInv'
  <2> SUFFICES ASSUME root \notin Settled
               PROVE  /\ Reach' \cap Settled = {}
                      /\ \A u \in stack' : /\ u.ring \in Reach' /\ On(u.ring, u.point)
                                           /\ \A s \in RingNos : On(s, u.point) => s \in Reach'
                      /\ \A r \in Reach', s \in RingNos :
                           Linked(r, s) => s \in Reach' \/ \E u \in stack' : u.ring = r
                      /\ \A C \in SUBSET Contacts : GoesRound(C) /\ (\E c \in C : c.ring \in Reach')
                           => \E u \in stack', c \in C : c.ring = u.ring
    BY <1>1, <1>2, <1>12 DEF SearchInv
  <2>1. /\ Reach \cap Settled = {}
        /\ \A u \in stack : /\ u.ring \in Reach /\ On(u.ring, u.point)
                            /\ \A s \in RingNos : On(s, u.point) => s \in Reach
        /\ \A r \in Reach, s \in RingNos : Linked(r, s) => s \in Reach \/ \E u \in stack : u.ring = r
        /\ \A C \in SUBSET Contacts : GoesRound(C) /\ (\E c \in C : c.ring \in Reach)
             => \E u \in stack, c \in C : c.ring = u.ring
    BY <1>3 DEF Searching, SearchInv
  <2>2. t.ring \in Reach /\ t.ring \in RingNos /\ t.ring \notin Settled /\ Reach \subseteq RingNos
    BY <1>1, <1>3, <2>1 DEF Reach, Marked
  <2>3. ASSUME NEW u \in new PROVE u.ring \notin Settled /\ u.ring \in Reach' /\ u.ring \in RingNos
    <3>1. u.ring \in RingNos /\ Linked(u.ring, t.ring)
      BY <1>6, <1>14, <2>3
    <3> QED BY <1>6, <1>12, <1>14, <2>2, <3>1 DEF SettledInv
  <2>4. Reach' \cap Settled = {}
    BY <1>9, <1>12, <2>1, <2>3
  <2>5. ASSUME NEW s \in RingNos, NEW p \in Points, p # t.point, On(t.ring, p), On(s, p), s # t.ring
        PROVE  [ring |-> s, point |-> p] \in new /\ s \in fresh
    <3> DEFINE u == [ring |-> s, point |-> p]
    <3>1. u \in [ring : RingNos, point : Points] /\ u.ring = s /\ u.point = p
      OBVIOUS
    <3> HIDE DEF u
    <3>2. u \in Onward(t)
      BY <1>4, <2>5, <3>1
    <3>3. s \notin Settled
      <4>1. Linked(s, t.ring)
        BY <2>5 DEF Linked
      <4> QED BY <1>14, <2>2, <4>1 DEF SettledInv
    <3>4. touchRoot[s] = NoRoot
      <4>1. s \notin Old
        BY <3>3 DEF Settled
      <4> QED BY <1>8, <3>1, <3>2, <4>1 DEF Old
    <3>5. u \in new
      BY <1>10, <3>1, <3>2, <3>4
    <3> QED BY <1>6, <3>1, <3>5 DEF u
  <2>6. ASSUME NEW u \in stack'
        PROVE  /\ u.ring \in Reach' /\ On(u.ring, u.point)
               /\ \A s \in RingNos : On(s, u.point) => s \in Reach'
    <3>1. CASE u \in stack
      BY <1>12, <2>1, <3>1
    <3>2. CASE u \in new
      <4>1. /\ u.point \in Points /\ u.point # t.point
            /\ On(t.ring, u.point) /\ On(u.ring, u.point)
        <5>1. u \in Onward(t)
          BY <3>2 DEF new
        <5> QED BY <1>4, <5>1
      <4>2. ASSUME NEW s \in RingNos, On(s, u.point) PROVE s \in Reach'
        <5>1. CASE s = t.ring
          BY <1>12, <2>2, <5>1
        <5>2. CASE s # t.ring
          BY <1>12, <2>5, <4>1, <4>2, <5>2
        <5> QED BY <5>1, <5>2
      <4> QED BY <2>3, <3>2, <4>1, <4>2
    <3> QED BY <1>7, <2>6, <3>1, <3>2
  <2>7. ASSUME NEW s \in RingNos, Linked(t.ring, s) PROVE s \in Reach'
    <3>1. PICK p \in Points : On(t.ring, p) /\ On(s, p) /\ s # t.ring
      BY <2>7 DEF Linked
    <3>2. CASE p = t.point
      BY <1>1, <1>12, <2>1, <3>1, <3>2
    <3>3. CASE p # t.point
      BY <1>12, <2>5, <3>1, <3>3
    <3> QED BY <3>2, <3>3
  <2>8. ASSUME NEW r \in Reach', NEW s \in RingNos, Linked(r, s)
        PROVE  s \in Reach' \/ \E u \in stack' : u.ring = r
    <3>1. CASE r \in fresh
      <4>1. PICK u \in new : u.ring = r
        BY <1>9, <3>1
      <4> QED BY <1>7, <4>1
    <3>2. CASE r = t.ring
      BY <2>7, <2>8, <3>2
    <3>3. CASE r \in Reach /\ r # t.ring
      <4>1. s \in Reach \/ \E u \in stack : u.ring = r
        BY <2>1, <2>8, <3>3
      <4> QED BY <1>7, <1>12, <3>3, <4>1
    <3> QED BY <1>12, <2>8, <3>1, <3>2, <3>3
  <2>9. ASSUME NEW C \in SUBSET Contacts, GoesRound(C), NEW c \in C, c.ring \in Reach'
        PROVE  \E u \in stack', d \in C : d.ring = u.ring
    <3>1. \A d \in C : d.ring \in RingNos /\ d.point \in Points
      <4>1. \A r \in RingNos : Range(Ring(r)) \subseteq Points
        BY RingsAre DEF Searching
      <4> QED BY <4>1 DEF Contacts, RingNos, Ring
    <3>2. CASE c.ring \in fresh
      <4>1. PICK u \in new : u.ring = c.ring
        BY <1>9, <3>2
      <4> QED BY <1>7, <4>1
    <3>3. CASE c.ring \in Reach
      <4>1. PICK v \in stack, e \in C : e.ring = v.ring
        BY <2>1, <2>9, <3>3
      <4>2. CASE v # t
        BY <1>7, <4>1, <4>2
      <4>3. CASE v = t
        <5>1. PICK d \in C : /\ d.ring # e.ring /\ d.point # t.point
                             /\ On(e.ring, d.point) /\ On(d.ring, d.point)
          BY <2>9, <4>1, RoundLeadsOn
        <5>2. [ring |-> d.ring, point |-> d.point] \in new
          BY <2>5, <3>1, <4>1, <4>3, <5>1
        <5> QED BY <1>7, <5>2
      <4> QED BY <4>2, <4>3
    <3> QED BY <1>12, <2>9, <3>2, <3>3
  <2> QED BY <2>4, <2>6, <2>8, <2>9
<1> QED BY <1>11, <1>13, <1>15, <1>16

(***************************************************************************)
(* What the tests before the search leave: rings that share vertices only. *)
(***************************************************************************)

(* The bounds of finitely many numbers.                                    *)
LEMMA Bounds ==
  ASSUME NEW n \in Nat, n >= 1, NEW f \in [1 .. n -> Int], NEW X, X = {f[i] : i \in 1 .. n}
  PROVE  /\ Min(X) \in Int /\ Max(X) \in Int
         /\ \A i \in 1 .. n : Min(X) <= f[i] /\ f[i] <= Max(X)
<1>1. PICK i \in 1 .. n : \A j \in 1 .. n : f[i] <= f[j]
  BY LeastOf
<1> DEFINE g == [k \in 1 .. n |-> -f[k]]
<1>2. g \in [1 .. n -> Int]
  OBVIOUS
<1>3. PICK m \in 1 .. n : \A j \in 1 .. n : g[m] <= g[j]
  <2> HIDE DEF g
  <2> QED BY <1>2, LeastOf
<1>4. \A j \in 1 .. n : f[j] <= f[m]
  BY <1>3
<1>5. Min(X) \in X /\ \A y \in X : Min(X) <= y
  BY <1>1 DEF Min
<1>6. Max(X) \in X /\ \A y \in X : Max(X) >= y
  BY <1>4 DEF Max
<1> QED BY <1>5, <1>6

(* The box of a ring has its points in it.                                 *)
LEMMA RingBoxIs ==
  ASSUME NEW ring \in Rings
  PROVE  /\ RingBox(ring).lx \in Int /\ RingBox(ring).hx \in Int
         /\ RingBox(ring).ly \in Int /\ RingBox(ring).hy \in Int
         /\ \A i \in 1 .. Len(ring) :
              /\ RingBox(ring).lx <= ring[i][1] /\ ring[i][1] <= RingBox(ring).hx
              /\ RingBox(ring).ly <= ring[i][2] /\ ring[i][2] <= RingBox(ring).hy
<1> DEFINE n == Len(ring)
           f(c) == [i \in 1 .. n |-> ring[i][c]]
           V(c) == {p[c] : p \in Range(ring)}
<1>1. ring \in Seq(Points) /\ n \in Nat /\ n >= 1 /\ DOMAIN ring = 1 .. n
  BY DEF Rings
<1>2. ASSUME NEW c \in {1, 2}
      PROVE  /\ Min(V(c)) \in Int /\ Max(V(c)) \in Int
             /\ \A i \in 1 .. n : Min(V(c)) <= ring[i][c] /\ ring[i][c] <= Max(V(c))
  <2>1. f(c) \in [1 .. n -> Int]
    BY <1>1 DEF Points
  <2>2. V(c) = {f(c)[i] : i \in 1 .. n}
    BY <1>1 DEF Range
  <2>3. \A i \in 1 .. n : f(c)[i] = ring[i][c]
    OBVIOUS
  <2> DEFINE X == V(c)
             g == f(c)
  <2>4. /\ Min(X) \in Int /\ Max(X) \in Int
        /\ \A i \in 1 .. n : Min(X) <= g[i] /\ g[i] <= Max(X)
    <3>1. g \in [1 .. n -> Int] /\ X = {g[i] : i \in 1 .. n}
      BY <2>1, <2>2
    <3> HIDE DEF X, g, n
    <3> QED BY <1>1, <3>1, Bounds
  <2> QED BY <2>3, <2>4
<1>3. /\ RingBox(ring).lx = Min(V(1)) /\ RingBox(ring).hx = Max(V(1))
      /\ RingBox(ring).ly = Min(V(2)) /\ RingBox(ring).hy = Max(V(2))
  BY DEF RingBox
<1> HIDE DEF V
<1> QED BY <1>2, <1>3

(* A point on a ring is a vertex of it or lies inside one of its sides,    *)
(* and in its box.                                                         *)
LEMMA OnRingIs ==
  ASSUME NEW ring \in Rings, NEW p \in Points, PointOnRing(p, ring)
  PROVE  /\ p \in Range(ring) \/ \E i \in DOMAIN ring : StrictlyOn(p, EdgeOf(ring, i))
         /\ RingBox(ring).lx <= p[1] /\ p[1] <= RingBox(ring).hx
         /\ RingBox(ring).ly <= p[2] /\ p[2] <= RingBox(ring).hy
<1>1. ring \in Seq(Points) /\ Len(ring) \in Nat /\ DOMAIN ring = 1 .. Len(ring)
  BY DEF Rings
<1>2. PICK i \in DOMAIN ring : /\ Orient(EdgeOf(ring, i).a, EdgeOf(ring, i).b, p) = 0
                               /\ ~Apart(Box(EdgeOf(ring, i)), Box([a |-> p, b |-> p]))
  BY DEF PointOnRing
<1> DEFINE j == Suc(ring, i)
           a == ring[i]
           b == ring[j]
           e == EdgeOf(ring, i)
<1>3. /\ j \in 1 .. Len(ring) /\ e = Side(a, b) /\ a \in Points /\ b \in Points
  BY <1>1, RingFacts
<1>4. e.a = a /\ e.b = b /\ e \in Lines
  BY <1>3 DEF Side, Lines
<1> HIDE DEF e, a, b, j
<1>5. /\ a[1] \in Int /\ a[2] \in Int /\ b[1] \in Int /\ b[2] \in Int /\ p[1] \in Int /\ p[2] \in Int
      /\ (p = a <=> p[1] = a[1] /\ p[2] = a[2]) /\ (p = b <=> p[1] = b[1] /\ p[2] = b[2])
  BY <1>3, Points2
<1>6. /\ Lower(a[1], b[1]) <= p[1] /\ p[1] <= Upper(a[1], b[1])
      /\ Lower(a[2], b[2]) <= p[2] /\ p[2] <= Upper(a[2], b[2])
  <2>1. /\ Box(e).lx = Lower(a[1], b[1]) /\ Box(e).hx = Upper(a[1], b[1])
        /\ Box(e).ly = Lower(a[2], b[2]) /\ Box(e).hy = Upper(a[2], b[2])
    BY <1>4 DEF Box
  <2>2. /\ Box([a |-> p, b |-> p]).lx = p[1] /\ Box([a |-> p, b |-> p]).hx = p[1]
        /\ Box([a |-> p, b |-> p]).ly = p[2] /\ Box([a |-> p, b |-> p]).hy = p[2]
    BY DEF Box, Lower, Upper
  <2>3. ~Apart(Box(e), Box([a |-> p, b |-> p]))
    BY <1>2 DEF e
  <2>4. /\ Lower(a[1], b[1]) \in Int /\ Upper(a[1], b[1]) \in Int
        /\ Lower(a[2], b[2]) \in Int /\ Upper(a[2], b[2]) \in Int
    BY <1>5 DEF Lower, Upper
  <2> QED BY <1>5, <2>1, <2>2, <2>3, <2>4 DEF Apart
<1>7. a \in Range(ring) /\ b \in Range(ring)
  BY <1>1, <1>3 DEF Range, a, b
<1>8. p \in Range(ring) \/ StrictlyOn(p, e)
  <2> SUFFICES ASSUME p # a, p # b PROVE StrictlyOn(p, e)
    BY <1>7
  <2>1. Orient(a, b, p) = 0
    BY <1>2, <1>4 DEF e
  <2>2. (b[1] - a[1]) * (p[2] - a[2]) - (b[2] - a[2]) * (p[1] - a[1]) = 0
    BY <2>1 DEF Orient
  <2>3. \/ Lower(a[1], b[1]) < p[1] /\ p[1] < Upper(a[1], b[1])
        \/ Lower(a[2], b[2]) < p[2] /\ p[2] < Upper(a[2], b[2])
    <3> SUFFICES ASSUME p[1] = a[1] \/ p[1] = b[1], p[2] = a[2] \/ p[2] = b[2] PROVE FALSE
      BY <1>5, <1>6 DEF Lower, Upper
    <3> DEFINE x == b[1] - a[1]
               y == b[2] - a[2]
    <3>1. x \in Int /\ y \in Int /\ (x = 0 => b[1] = a[1]) /\ (y = 0 => b[2] = a[2])
      BY <1>5
    <3>2. x * (p[2] - a[2]) - y * (p[1] - a[1]) = 0
      BY <2>2
    <3> HIDE DEF x, y
    <3>3. CASE p[1] = a[1] /\ p[2] = b[2]
      <4>1. p[1] - a[1] = 0 /\ p[2] - a[2] = y
        BY <1>5, <3>3 DEF y
      <4>2. x * y - y * 0 = 0
        BY <3>2, <4>1
      <4>3. x = 0 \/ y = 0
        BY <3>1, <4>2, SignOfProduct
      <4> QED BY <1>5, <3>1, <3>3, <4>3
    <3>4. CASE p[1] = b[1] /\ p[2] = a[2]
      <4>1. p[1] - a[1] = x /\ p[2] - a[2] = 0
        BY <1>5, <3>4 DEF x
      <4>2. x * 0 - y * x = 0
        BY <3>2, <4>1
      <4>3. x = 0 \/ y = 0
        BY <3>1, <4>2, SignOfProduct
      <4> QED BY <1>5, <3>1, <3>4, <4>3
    <3> QED BY <1>5, <3>3, <3>4
  <2> QED BY <1>4, <2>1, <2>3, StrictlyOnIs
<1>9. /\ RingBox(ring).lx <= p[1] /\ p[1] <= RingBox(ring).hx
      /\ RingBox(ring).ly <= p[2] /\ p[2] <= RingBox(ring).hy
  <2>1. /\ RingBox(ring).lx \in Int /\ RingBox(ring).hx \in Int
        /\ RingBox(ring).ly \in Int /\ RingBox(ring).hy \in Int
        /\ RingBox(ring).lx <= a[1] /\ a[1] <= RingBox(ring).hx
        /\ RingBox(ring).ly <= a[2] /\ a[2] <= RingBox(ring).hy
        /\ RingBox(ring).lx <= b[1] /\ b[1] <= RingBox(ring).hx
        /\ RingBox(ring).ly <= b[2] /\ b[2] <= RingBox(ring).hy
    BY <1>1, <1>3, RingBoxIs DEF a, b
  <2> QED BY <1>5, <1>6, <2>1 DEF Lower, Upper
<1> QED BY <1>8, <1>9 DEF e

(* Rings of which no two sides cross or overlap share vertices only.       *)
LEMMA SharedIsVertex ==
  ASSUME NEW r \in Rings, NEW s \in Rings, NEW p \in Points, PointOnRing(p, r), PointOnRing(p, s),
         \/ ~RingsIntersect(r, s) \/ ~RingsIntersect(s, r)
         \/ Apart(RingBox(r), RingBox(s)) \/ Apart(RingBox(s), RingBox(r))
  PROVE  p \in Range(r) \cup Range(s)
<1>1. /\ ~Apart(RingBox(r), RingBox(s)) /\ ~Apart(RingBox(s), RingBox(r))
  <2>1. p[1] \in Int /\ p[2] \in Int
    BY Points2
  <2>2. ASSUME NEW t \in {r, s}
        PROVE  /\ RingBox(t).lx \in Int /\ RingBox(t).hx \in Int /\ RingBox(t).ly \in Int /\ RingBox(t).hy \in Int
               /\ RingBox(t).lx <= p[1] /\ p[1] <= RingBox(t).hx
               /\ RingBox(t).ly <= p[2] /\ p[2] <= RingBox(t).hy
    BY OnRingIs, RingBoxIs
  <2> QED BY <2>1, <2>2 DEF Apart
<1> SUFFICES ASSUME p \notin Range(r), p \notin Range(s) PROVE FALSE
  OBVIOUS
<1>2. PICK i \in DOMAIN r : StrictlyOn(p, EdgeOf(r, i))
  BY OnRingIs
<1>3. PICK j \in DOMAIN s : StrictlyOn(p, EdgeOf(s, j))
  BY OnRingIs
<1>4. EdgeOf(r, i) \in Lines /\ EdgeOf(s, j) \in Lines
  <2>1. /\ r \in Seq(Points) /\ s \in Seq(Points) /\ i \in 1 .. Len(r) /\ j \in 1 .. Len(s)
    BY DEF Rings
  <2>2. /\ r[i] \in Points /\ After(r, i) \in Points /\ s[j] \in Points /\ After(s, j) \in Points
    BY <2>1, RingFacts
  <2> QED BY <2>2 DEF EdgeOf, Lines
<1>5. EdgesIntersect(EdgeOf(r, i), EdgeOf(s, j)) /\ EdgesIntersect(EdgeOf(s, j), EdgeOf(r, i))
  BY <1>2, <1>3, <1>4, InsideBoth
<1> QED BY <1>1, <1>5 DEF RingsIntersect

(***************************************************************************)
(* The invariant.                                                          *)
(***************************************************************************)

(* When the hole checks and the pair checks find nothing, rings share      *)
(* vertices only.                                                          *)
LEMMA PairsLeaveVertices ==
  ASSUME at \in DOMAIN parts, parts \in Seq(Polygons),
         \A k \in DOMAIN Part.holes : ~RingsIntersect(Part.holes[k], Part.shell),
         \A j, k \in DOMAIN Part.holes : j < k =>
           \/ Apart(RingBox(Part.holes[j]), RingBox(Part.holes[k]))
           \/ ~RingsIntersect(Part.holes[j], Part.holes[k])
  PROVE  VerticesOnly
<1>1. ASSUME NEW r \in RingNos, NEW s \in RingNos, r < s, NEW p \in Points, On(r, p), On(s, p)
      PROVE  p \in Range(Ring(r)) \cup Range(Ring(s))
  <2>1. Ring(r) \in Rings /\ Ring(s) \in Rings /\ PointOnRing(p, Ring(r)) /\ PointOnRing(p, Ring(s))
    BY <1>1, RingsAre DEF On
  <2>2. s # 1 /\ r \in Nat /\ s \in Nat
    BY <1>1, RingsAre
  <2>3. s - 1 \in DOMAIN Part.holes /\ Ring(s) = Part.holes[s - 1]
    BY <2>2, RingsAre
  <2>4. CASE r = 1
    <3>1. ~RingsIntersect(Ring(s), Ring(r))
      BY <2>3, <2>4, RingsAre
    <3> QED BY <2>1, <3>1, SharedIsVertex
  <2>5. CASE r # 1
    <3>1. r - 1 \in DOMAIN Part.holes /\ Ring(r) = Part.holes[r - 1] /\ r - 1 < s - 1
      BY <1>1, <2>2, <2>5, RingsAre
    <3>2. Apart(RingBox(Ring(r)), RingBox(Ring(s))) \/ ~RingsIntersect(Ring(r), Ring(s))
      BY <2>3, <3>1
    <3> QED BY <2>1, <3>2, SharedIsVertex
  <2> QED BY <2>4, <2>5
<1>2. \A r, s \in RingNos : r # s => r < s \/ s < r
  BY RingsAre
<1> QED BY <1>1, <1>2 DEF VerticesOnly

(* A part that is finished leaves no trace of its search.                  *)
LEMMA FinishPartKeeps ==
  ASSUME PlaceInv, pc \in {"part", "holes", "pairs", "cycle", "nested"}, NEW e, FinishPart(e)
  PROVE  ValidityInv'
<1>1. /\ at \in DOMAIN parts /\ parts \in Seq(Polygons) /\ parts' = parts /\ mode' = mode
      /\ at' = at + 1 /\ hole' = 1 /\ root' = NoRoot /\ stack' = {}
      /\ pc' = IF mode # "validate" \/ (at = Len(parts) /\ at = 1) THEN "done"
               ELSE IF at = Len(parts) THEN "shells" ELSE "part"
  BY DEF PlaceInv, FinishPart, Go
<1>2. pc' \in {"done", "shells", "part"} /\ (pc' = "part" => at' \in DOMAIN parts')
  BY <1>1
<1>3. PlaceInv'
  BY <1>1, <1>2 DEF PlaceInv
<1> QED BY <1>2, <1>3 DEF ValidityInv, HolesInv, CycleInv, CyclesFound

(* The parts' own checks and the gate.                                     *)
LEMMA ChecksKeep ==
  ASSUME ValidityInv, Gate \/ BeginPart \/ CheckHole \/ CheckPairs
  PROVE  ValidityInv'
<1>1. PlaceInv /\ HolesInv
  BY DEF ValidityInv
<1>2. CASE Gate
  <2>1. /\ pc = "gate" /\ UNCHANGED <<mode, parts, at, hole, root, stack>>
        /\ pc' = "done" \/ (pc' = "holes" /\ Part.holes # <<>>)
    BY <1>2 DEF Gate, Go
  <2>2. Part' = Part
    BY <2>1 DEF Part
  <2>3. pc' = "holes" => 1 \in DOMAIN Part.holes
    <3>1. Part.holes \in Seq(Rings)
      BY <1>1, <2>1, RingsAre DEF PlaceInv, Polygons
    <3> QED BY <2>1, <3>1
  <2>4. PlaceInv'
    BY <1>1, <2>1, <2>2, <2>3 DEF PlaceInv
  <2>5. HolesInv'
    BY <1>1, <2>1 DEF HolesInv, PlaceInv
  <2> QED BY <2>1, <2>4, <2>5 DEF ValidityInv, CycleInv, CyclesFound
<1>3. CASE BeginPart
  <2>1. CASE \E e : FinishPart(e)
    BY <1>1, <1>3, <2>1, FinishPartKeeps DEF BeginPart
  <2>2. CASE ~\E e : FinishPart(e)
    <3>1. /\ pc = "part" /\ pc' = "holes" /\ Part.holes # <<>>
          /\ UNCHANGED <<mode, parts, at, hole, root, stack>>
      BY <1>3, <2>2 DEF BeginPart, Continue, Go
    <3>2. Part' = Part
      BY <3>1 DEF Part
    <3>3. 1 \in DOMAIN Part.holes
      <4>1. Part.holes \in Seq(Rings)
        BY <1>1, <3>1, RingsAre DEF PlaceInv, Polygons
      <4> QED BY <3>1, <4>1
    <3>4. PlaceInv'
      BY <1>1, <3>1, <3>2, <3>3 DEF PlaceInv
    <3>5. HolesInv'
      BY <1>1, <3>1 DEF HolesInv, PlaceInv
    <3> QED BY <3>1, <3>4, <3>5 DEF ValidityInv, CycleInv, CyclesFound
  <2> QED BY <2>1, <2>2
<1>4. CASE CheckHole
  <2>1. CASE \E e : FinishPart(e)
    BY <1>1, <1>4, <2>1, FinishPartKeeps DEF CheckHole
  <2>2. CASE ~\E e : FinishPart(e)
    <3>1. /\ pc = "holes" /\ UNCHANGED <<mode, parts, at, root, stack>>
          /\ HoleError(Part.holes[hole], Part.shell) = {}
          /\ \/ hole < Len(Part.holes) /\ hole' = hole + 1 /\ pc' = "holes"
             \/ ~(hole < Len(Part.holes)) /\ hole' = hole /\ pc' = "pairs"
      BY <1>4, <2>2 DEF CheckHole, Continue, Go
    <3>2. Part' = Part
      BY <3>1 DEF Part
    <3>3. ~RingsIntersect(Part.holes[hole], Part.shell)
      BY <3>1 DEF HoleError
    <3>4. /\ Part.holes \in Seq(Rings) /\ hole \in DOMAIN Part.holes
          /\ \A k \in 1 .. (hole - 1) : ~RingsIntersect(Part.holes[k], Part.shell)
      BY <1>1, <3>1, RingsAre DEF PlaceInv, HolesInv, Polygons
    <3>5. \A k \in 1 .. hole : ~RingsIntersect(Part.holes[k], Part.shell)
      BY <3>3, <3>4
    <3>6. PlaceInv'
      BY <1>1, <3>1, <3>2, <3>4 DEF PlaceInv
    <3>7. HolesInv'
      <4>1. CASE pc' = "holes"
        <5>1. 1 .. (hole' - 1) = 1 .. hole
          BY <3>1, <3>4, <4>1
        <5> QED BY <3>2, <3>5, <4>1, <5>1 DEF HolesInv
      <4>2. CASE pc' = "pairs"
        <5>1. DOMAIN Part.holes = 1 .. hole
          BY <3>1, <3>4, <4>2
        <5> QED BY <3>2, <3>5, <4>2, <5>1 DEF HolesInv
      <4> QED BY <3>1, <4>1, <4>2
    <3> QED BY <3>1, <3>6, <3>7 DEF ValidityInv, CycleInv, CyclesFound
  <2> QED BY <2>1, <2>2
<1>5. CASE CheckPairs
  <2>1. CASE \E e : FinishPart(e)
    BY <1>1, <1>5, <2>1, FinishPartKeeps DEF CheckPairs
  <2>2. CASE ~\E e : FinishPart(e)
    <3>1. /\ pc = "pairs" /\ pc' = "cycle" /\ UNCHANGED <<mode, parts, at, hole, root, stack>>
          /\ touchRoot' = [r \in 1 .. Len(Part.holes) + 1 |-> NoRoot]
          /\ \A j, k \in DOMAIN Part.holes : j < k =>
               \/ Apart(RingBox(Part.holes[j]), RingBox(Part.holes[k]))
               \/ ~RingsIntersect(Part.holes[j], Part.holes[k])
      BY <1>5, <2>2 DEF CheckPairs, Continue, Go
    <3>2. /\ at \in DOMAIN parts /\ parts \in Seq(Polygons) /\ root = NoRoot /\ stack = {}
          /\ \A k \in DOMAIN Part.holes : ~RingsIntersect(Part.holes[k], Part.shell)
      BY <1>1, <3>1 DEF PlaceInv, HolesInv
    <3>3. VerticesOnly
      BY <3>1, <3>2, PairsLeaveVertices
    <3>4. Part' = Part /\ RingNos' = RingNos /\ Contacts' = Contacts /\ VerticesOnly'
      BY <3>1, <3>3, SamePart
    <3>5. RingNos = 1 .. (Len(Part.holes) + 1) /\ NoRoot \notin RingNos
      BY <3>2, RingsAre
    <3>6. PlaceInv'
      BY <1>1, <3>1, <3>4 DEF PlaceInv
    <3>7. HolesInv'
      BY <3>1, <3>4 DEF HolesInv
    <3>8. touchRoot' \in [RingNos -> {NoRoot}] /\ root' = NoRoot /\ stack' = {}
      BY <3>1, <3>2, <3>5
    <3>9. MarksInv'
      BY <3>4, <3>8 DEF MarksInv
    <3>10. Settled' = {}
      <4>1. Old' = {}
        BY <3>4, <3>8 DEF Old
      <4> QED BY <4>1 DEF Settled
    <3>11. (SettledInv /\ RepeatInv /\ SearchInv)'
      BY <3>8, <3>10 DEF SettledInv, RepeatInv, SearchInv
    <3> QED BY <3>1, <3>6, <3>7, <3>9, <3>11 DEF ValidityInv, CycleInv, CyclesFound
  <2> QED BY <2>1, <2>2
<1> QED BY <1>2, <1>3, <1>4, <1>5

(* The search, and what comes after it.                                    *)
LEMMA SearchKeeps ==
  ASSUME ValidityInv, NextRoot \/ FollowTouch
  PROVE  ValidityInv'
<1>1. PlaceInv /\ HolesInv /\ CycleInv
  BY DEF ValidityInv
<1>2. pc = "cycle"
  BY DEF NextRoot, FollowTouch
<1>3. Searching
  BY <1>1, <1>2 DEF Searching, PlaceInv, HolesInv, CycleInv
<1>4. CASE \E e : FinishPart(e)
  BY <1>1, <1>2, <1>4, FinishPartKeeps
<1>5. CASE ~\E e : FinishPart(e)
  <2>1. UNCHANGED <<mode, parts, at, hole>> /\ pc' \in {"cycle", "nested"}
    BY <1>5 DEF NextRoot, FollowTouch, Continue, Go
  <2>2. Part' = Part /\ (VerticesOnly' <=> VerticesOnly)
    BY <2>1, SamePart
  <2>3. PlaceInv'
    BY <1>1, <1>2, <2>1, <2>2 DEF PlaceInv
  <2>4. HolesInv'
    BY <1>3, <2>1, <2>2 DEF HolesInv, Searching
  <2>5. CycleInv'
    <3>1. CASE NextRoot
      BY <1>2, <1>3, <3>1, NextRootKeeps DEF CycleInv
    <3>2. CASE FollowTouch
      <4>1. pc' = "cycle"
        BY <1>5, <3>2 DEF FollowTouch, Continue, Go
      <4> QED BY <1>2, <1>3, <3>2, <4>1, FollowTouchKeeps DEF CycleInv, CyclesFound
    <3> QED BY <3>1, <3>2
  <2> QED BY <2>3, <2>4, <2>5 DEF ValidityInv
<1> QED BY <1>4, <1>5

(* Init and every step keep the invariant.                                 *)
LEMMA ValidityAlways == Spec => []ValidityInv
<1>1. Init => ValidityInv
  <2> SUFFICES ASSUME Init PROVE ValidityInv
    OBVIOUS
  <2>1. /\ mode \in {"validate", "gate", "giant", "arrange"}
        /\ parts \in Seq(Polygons) \ {<<>>} /\ (mode # "validate" => Len(parts) = 1)
    BY InputsWellFormed DEF Init
  <2>2. /\ pc \in {"part", "gate"} /\ at = 1 /\ hole = 1 /\ root = NoRoot /\ stack = {}
    BY DEF Init
  <2>3. 1 \in DOMAIN parts
    BY <2>1
  <2> QED BY <2>1, <2>2, <2>3 DEF ValidityInv, PlaceInv, HolesInv, CycleInv, CyclesFound
<1>2. ValidityInv /\ [Next]_vars => ValidityInv'
  <2> SUFFICES ASSUME ValidityInv, [Next]_vars PROVE ValidityInv'
    OBVIOUS
  <2>1. CASE Gate \/ BeginPart \/ CheckHole \/ CheckPairs
    BY <2>1, ChecksKeep
  <2>2. CASE NextRoot \/ FollowTouch
    BY <2>2, SearchKeeps
  <2>3. CASE CheckNested
    <3>1. PlaceInv
      BY DEF ValidityInv
    <3>2. pc = "nested" /\ \E e : FinishPart(e)
      BY <2>3 DEF CheckNested
    <3> QED BY <3>1, <3>2, FinishPartKeeps
  <2>4. CASE ShellDuplicates \/ RingPairs \/ NestedShells
    <3>1. /\ pc' \in {"rings", "nestedshells", "done"} /\ UNCHANGED <<mode, parts>>
      BY <2>4 DEF ShellDuplicates, RingPairs, NestedShells, Finish, Go
    <3> QED BY <3>1 DEF ValidityInv, PlaceInv, HolesInv, CycleInv, CyclesFound
  <2>5. CASE UNCHANGED vars
    <3>1. /\ at' = at /\ parts' = parts /\ mode' = mode /\ pc' = pc /\ hole' = hole
          /\ touchRoot' = touchRoot /\ root' = root /\ stack' = stack
      BY <2>5 DEF vars
    <3>2. /\ Part' = Part /\ RingNos' = RingNos /\ Contacts' = Contacts
          /\ \A r, p : On(r, p)' <=> On(r, p)
          /\ \A r, s : Linked(r, s)' <=> Linked(r, s)
          /\ VerticesOnly' <=> VerticesOnly
      BY <3>1, SamePart
    <3>3. Old' = Old /\ Settled' = Settled /\ Marked' = Marked /\ Reach' = Reach
      BY <3>1, <3>2 DEF Old, Settled, Marked, Reach
    <3>4. PlaceInv' /\ HolesInv'
      BY <3>1, <3>2 DEF ValidityInv, PlaceInv, HolesInv
    <3>5. CyclesFound'
      BY <3>1, <3>2 DEF ValidityInv, CycleInv, CyclesFound
    <3>6. (MarksInv' <=> MarksInv) /\ (SettledInv' <=> SettledInv) /\ (RepeatInv' <=> RepeatInv)
      BY <3>1, <3>2, <3>3 DEF MarksInv, SettledInv, RepeatInv
    <3>7. SearchInv' <=> SearchInv
      BY <3>1, <3>2, <3>3 DEF SearchInv
    <3>8. CycleInv'
      BY <3>1, <3>5, <3>6, <3>7 DEF ValidityInv, CycleInv
    <3> QED BY <3>4, <3>8 DEF ValidityInv
  <2> QED BY <2>1, <2>2, <2>3, <2>4, <2>5 DEF Next
<1> QED
  BY <1>1, <1>2, PTL DEF Spec

(* A polygon that passes the cycle search, detect_hole_cycle, has rings    *)
(* that touch like the branches of a tree, however many there are.         *)
THEOREM PassedHasNoCycle == Spec => []CyclesFound
<1>1. ValidityInv => CyclesFound
  BY DEF ValidityInv, CycleInv
<1> QED
  BY <1>1, ValidityAlways, PTL

(***************************************************************************)
(* The other way round: the search invents no cycle.  Where there is none, *)
(* the ways from ring to ring are sets of contacts that pass through every *)
(* point, and through every ring but their ends, an even number of times.  *)
(***************************************************************************)
Tree == \A C \in SUBSET Contacts : ~GoesRound(C)

Odd(S) == Cardinality(S) % 2 = 1

AtRing(D, r) == {c \in D : c.ring = r}

AtPoint(D, p) == {c \in D : c.point = p}

Way(D, a, b) == /\ D \in SUBSET Contacts
                /\ \A p \in Points : ~Odd(AtPoint(D, p))
                /\ \A r \in RingNos : Odd(AtRing(D, r)) <=> ~(r = a <=> r = b)

(* A set of rings that no contact but u leads out of.                      *)
Stays(X, u) ==
  \A c \in Contacts, r \in RingNos : c.ring \in X /\ c # u /\ On(r, c.point) => r \in X

(* What is reached from the ring of u without going back through u.        *)
Beyond(u) ==
  {r \in RingNos : \A X \in SUBSET RingNos : u.ring \in X /\ Stays(X, u) => r \in X}

(* If there is no cycle, what lies beyond a touch on the stack has not     *)
(* been marked, but for the ring the touch is of, and lies beyond no other *)
(* touch on the stack.                                                     *)
TreeInv ==
  pc = "cycle" /\ Tree =>
    /\ \A t \in stack : t \in Contacts /\ Beyond(t) \cap Marked \subseteq {t.ring}
    /\ \A t, u \in stack : t # u => Beyond(t) \cap Beyond(u) = {}

(* What two finite sets do not share is odd when one of them is.           *)
LEMMA OddSum ==
  ASSUME NEW S, NEW T, IsFiniteSet(S), IsFiniteSet(T)
  PROVE  Odd(SymDiff(S, T)) <=> ~(Odd(S) <=> Odd(T))
<1> DEFINE s == Cardinality(S)
           t == Cardinality(T)
           b == Cardinality(S \cap T)
<1>1. IsFiniteSet(S \cap T) /\ IsFiniteSet(S \ T) /\ IsFiniteSet(T \ S)
  BY FS_Intersection, FS_Difference
<1>2. s \in Nat /\ t \in Nat /\ b \in Nat
  BY <1>1, FS_CardinalityType
<1>3. Cardinality(S \ T) = s - b /\ Cardinality(T \ S) = t - b
  <2>1. T \cap S = S \cap T
    OBVIOUS
  <2> QED BY <2>1, FS_Difference
<1>4. Cardinality((S \ T) \cup (T \ S)) = (s - b) + (t - b)
  <2>1. (S \ T) \cap (T \ S) = {}
    OBVIOUS
  <2>2. Cardinality((S \ T) \cap (T \ S)) = 0
    BY <2>1, FS_EmptySet
  <2>3. Cardinality((S \ T) \cup (T \ S))
          = Cardinality(S \ T) + Cardinality(T \ S) - Cardinality((S \ T) \cap (T \ S))
    BY <1>1, FS_Union
  <2> HIDE DEF s, t, b
  <2> QED BY <1>2, <1>3, <2>2, <2>3
<1>5. (s - b) + (t - b) = (s + t) - 2 * b
  BY <1>2
<1> HIDE DEF s, t, b
<1>6. ((s + t) - 2 * b) % 2 = 1 <=> ~(s % 2 = 1 <=> t % 2 = 1)
  BY <1>2
<1> QED BY <1>4, <1>5, <1>6 DEF Odd, SymDiff, s, t

(* The values of a function on a finite set.                               *)
LEMMA ValuesFinite ==
  ASSUME NEW S, IsFiniteSet(S), NEW f, f = [x \in S |-> f[x]]
  PROVE  IsFiniteSet({f[x] : x \in S})
<1> DEFINE T == {f[x] : x \in S}
<1>1. f \in Surjection(S, T)
  BY DEF Surjection
<1> QED BY <1>1, FS_Surjection

(* A part has finitely many contacts.                                      *)
LEMMA ContactsFinite ==
  ASSUME at \in DOMAIN parts, parts \in Seq(Polygons)
  PROVE  /\ IsFiniteSet(Contacts)
         /\ \A c \in Contacts : /\ c = [ring |-> c.ring, point |-> c.point]
                                /\ c.ring \in RingNos /\ c.point \in Points /\ On(c.ring, c.point)
<1> DEFINE P == UNION {Range(Ring(r)) : r \in RingNos}
           R == RingNos
<1>1. R = 1 .. (Len(Part.holes) + 1) /\ Len(Part.holes) \in Nat
      /\ \A r \in R : Ring(r) \in Rings /\ Range(Ring(r)) \subseteq Points
  BY RingsAre DEF Polygons
<1>2. P \subseteq Points
  BY <1>1
<1>3. Contacts = {c \in [ring : R, point : P] :
                    /\ On(c.ring, c.point) /\ \E s \in R \ {c.ring} : On(s, c.point)}
  BY DEF Contacts, RingNos, Ring, On
<1>4. IsFiniteSet(R)
  BY <1>1, FS_Interval
<1>5. IsFiniteSet(P)
  <2> DEFINE V == [r \in R |-> Range(Ring(r))]
  <2>1. ASSUME NEW r \in R PROVE IsFiniteSet(Range(Ring(r)))
    <3>1. Ring(r) = [i \in 1 .. Len(Ring(r)) |-> Ring(r)[i]] /\ Len(Ring(r)) \in Nat
      BY <1>1 DEF Rings
    <3>2. Range(Ring(r)) = {Ring(r)[i] : i \in 1 .. Len(Ring(r))}
      BY <3>1 DEF Range
    <3>3. IsFiniteSet(1 .. Len(Ring(r)))
      BY <3>1, FS_Interval
    <3> QED BY <3>1, <3>2, <3>3, ValuesFinite
  <2>2. IsFiniteSet({V[r] : r \in R})
    <3> HIDE DEF R
    <3>1. V = [r \in R |-> V[r]]
      OBVIOUS
    <3> HIDE DEF V
    <3> QED BY <1>4, <3>1, ValuesFinite
  <2>3. P = UNION {V[r] : r \in R}
    OBVIOUS
  <2>4. \A T \in {V[r] : r \in R} : IsFiniteSet(T)
    BY <2>1
  <2> QED BY <2>2, <2>3, <2>4, FS_UNION
<1>6. IsFiniteSet(Contacts)
  <2> DEFINE K == R \X P
             f == [x \in K |-> [ring |-> x[1], point |-> x[2]]]
  <2>1. IsFiniteSet(K)
    BY <1>4, <1>5, FS_Product
  <2>2. IsFiniteSet({f[x] : x \in K})
    <3>1. f = [x \in K |-> f[x]]
      OBVIOUS
    <3> HIDE DEF K, f
    <3> QED BY <2>1, <3>1, ValuesFinite
  <2>3. ASSUME NEW c \in Contacts PROVE c \in {f[x] : x \in K}
    <3>1. c \in [ring : R, point : P]
      BY <1>3
    <3>2. <<c.ring, c.point>> \in K /\ c = [ring |-> c.ring, point |-> c.point]
      BY <3>1
    <3>3. f[<<c.ring, c.point>>] = c
      BY <3>2
    <3> QED BY <3>2, <3>3
  <2> QED BY <2>2, <2>3, FS_Subset
<1>7. ASSUME NEW c \in Contacts
      PROVE  /\ c = [ring |-> c.ring, point |-> c.point]
             /\ c.ring \in RingNos /\ c.point \in Points /\ On(c.ring, c.point)
  <2>1. c \in [ring : R, point : P] /\ On(c.ring, c.point)
    BY <1>3
  <2> QED BY <1>2, <2>1
<1> QED BY <1>6, <1>7

(* A ring that has a point of another one has a contact there.             *)
LEMMA SharedIsContact ==
  ASSUME at \in DOMAIN parts, parts \in Seq(Polygons), VerticesOnly,
         NEW r \in RingNos, NEW s \in RingNos, r # s, NEW p \in Points, On(r, p), On(s, p)
  PROVE  [ring |-> r, point |-> p] \in Contacts
<1>1. p \in UNION {Range(Ring(q)) : q \in RingNos}
  BY DEF VerticesOnly
<1>2. Contacts = {c \in [ring : RingNos, point : UNION {Range(Ring(q)) : q \in RingNos}] :
                    /\ On(c.ring, c.point) /\ \E q \in RingNos \ {c.ring} : On(q, c.point)}
  BY DEF Contacts, RingNos, Ring, On
<1> QED BY <1>1, <1>2

(* A way, and a way on from its end.                                       *)
LEMMA WayJoins ==
  ASSUME at \in DOMAIN parts, parts \in Seq(Polygons),
         NEW D, NEW E, NEW a, NEW b, NEW c, Way(D, a, b), Way(E, b, c)
  PROVE  Way(SymDiff(D, E), a, c)
<1> DEFINE W == SymDiff(D, E)
<1>1. D \in SUBSET Contacts /\ E \in SUBSET Contacts /\ W \in SUBSET Contacts
  BY DEF Way, SymDiff
<1>2. /\ \A r : IsFiniteSet(AtRing(D, r)) /\ IsFiniteSet(AtRing(E, r))
      /\ \A p : IsFiniteSet(AtPoint(D, p)) /\ IsFiniteSet(AtPoint(E, p))
  <2>1. \A S \in SUBSET Contacts : IsFiniteSet(S)
    BY ContactsFinite, FS_Subset
  <2> QED BY <1>1, <2>1 DEF AtRing, AtPoint
<1>3. ASSUME NEW p \in Points PROVE ~Odd(AtPoint(W, p))
  <2>1. AtPoint(W, p) = SymDiff(AtPoint(D, p), AtPoint(E, p))
    BY DEF AtPoint, SymDiff
  <2>2. ~Odd(AtPoint(D, p)) /\ ~Odd(AtPoint(E, p))
    BY DEF Way
  <2> QED BY <1>2, <2>1, <2>2, OddSum
<1>4. ASSUME NEW r \in RingNos PROVE Odd(AtRing(W, r)) <=> ~(r = a <=> r = c)
  <2>1. AtRing(W, r) = SymDiff(AtRing(D, r), AtRing(E, r))
    BY DEF AtRing, SymDiff
  <2>2. /\ Odd(AtRing(D, r)) <=> ~(r = a <=> r = b)
        /\ Odd(AtRing(E, r)) <=> ~(r = b <=> r = c)
    BY DEF Way
  <2>3. Odd(AtRing(W, r)) <=> ~(Odd(AtRing(D, r)) <=> Odd(AtRing(E, r)))
    BY <1>2, <2>1, OddSum
  <2> QED BY <2>2, <2>3
<1> HIDE DEF W
<1>5. Way(W, a, c)
  BY <1>1, <1>3, <1>4 DEF Way
<1> QED BY <1>5 DEF W

(* Sets of no, one and two contacts.                                       *)
LEMMA OddSmall ==
  /\ ~Odd({})
  /\ \A x : Odd({x})
  /\ \A x, y : x # y => ~Odd({x, y})
<1>1. Cardinality({}) = 0
  BY FS_EmptySet
<1>2. \A x : Cardinality({x}) = 1
  BY FS_Singleton
<1>3. ASSUME NEW x, NEW y, x # y PROVE Cardinality({x, y}) = 2
  <2>1. IsFiniteSet({x}) /\ y \notin {x} /\ {x} \cup {y} = {x, y}
    BY <1>3, FS_Singleton
  <2>2. Cardinality({x} \cup {y}) = Cardinality({x}) + 1
    BY <2>1, FS_AddElement
  <2>3. Cardinality({x, y}) = Cardinality({x}) + 1
    BY <2>1, <2>2, Zenon
  <2>4. Cardinality({x}) = 1
    BY <1>2
  <2> QED BY <2>3, <2>4
<1>4. 0 % 2 = 0 /\ 1 % 2 = 1 /\ 2 % 2 = 0
  OBVIOUS
<1>5. ASSUME NEW S PROVE /\ Cardinality(S) = 0 => ~Odd(S)
                         /\ Cardinality(S) = 1 => Odd(S)
                         /\ Cardinality(S) = 2 => ~Odd(S)
  BY <1>4 DEF Odd
<1> QED BY <1>1, <1>2, <1>3, <1>5

(* No contact leads nowhere; the contacts of two rings in one point lead   *)
(* from one to the other.                                                  *)
LEMMA ShortWays ==
  ASSUME at \in DOMAIN parts, parts \in Seq(Polygons)
  PROVE  /\ \A a : Way({}, a, a)
         /\ \A c, d \in Contacts : c.point = d.point /\ c.ring # d.ring
              => Way({c, d}, c.ring, d.ring)
<1>1. \A a : Way({}, a, a)
  <2>1. \A x : AtRing({}, x) = {} /\ AtPoint({}, x) = {}
    BY DEF AtRing, AtPoint
  <2> QED BY <2>1, OddSmall DEF Way
<1>2. ASSUME NEW c \in Contacts, NEW d \in Contacts, c.point = d.point, c.ring # d.ring
      PROVE  Way({c, d}, c.ring, d.ring)
  <2>1. c # d
    BY <1>2
  <2>2. \A p \in Points : AtPoint({c, d}, p) = IF p = c.point THEN {c, d} ELSE {}
    BY <1>2 DEF AtPoint
  <2>3. \A p \in Points : ~Odd(AtPoint({c, d}, p))
    BY <2>1, <2>2, OddSmall
  <2>4. \A r : AtRing({c, d}, r) = IF r = c.ring THEN {c} ELSE IF r = d.ring THEN {d} ELSE {}
    BY <1>2 DEF AtRing
  <2>5. \A r : Odd(AtRing({c, d}, r)) <=> (r = c.ring \/ r = d.ring)
    BY <2>4, OddSmall
  <2> QED BY <1>2, <2>3, <2>5 DEF Way
<1> QED BY <1>1, <1>2

(* Where there is no cycle no way leads back to its own beginning.         *)
LEMMA NoWayBack ==
  ASSUME at \in DOMAIN parts, parts \in Seq(Polygons), Tree,
         NEW D, NEW a, Way(D, a, a)
  PROVE  D = {}
<1> SUFFICES ASSUME D # {} PROVE FALSE
  OBVIOUS
<1>1. D \in SUBSET Contacts
  BY DEF Way
<1>2. \A c \in D : c = [ring |-> c.ring, point |-> c.point] /\ c.ring \in RingNos /\ c.point \in Points
  BY <1>1, ContactsFinite
<1>3. \A c \in D : ~Odd(AtRing(D, c.ring)) /\ ~Odd(AtPoint(D, c.point))
  BY <1>2 DEF Way
<1>4. ASSUME NEW c \in D PROVE \E d \in D : d.ring = c.ring /\ d.point # c.point
  <2>1. AtRing(D, c.ring) # {c}
    BY <1>3, OddSmall
  <2>2. PICK d \in D : d.ring = c.ring /\ d # c
    BY <2>1 DEF AtRing
  <2> QED BY <1>2, <2>2
<1>5. ASSUME NEW c \in D PROVE \E d \in D : d.point = c.point /\ d.ring # c.ring
  <2>1. AtPoint(D, c.point) # {c}
    BY <1>3, OddSmall
  <2>2. PICK d \in D : d.point = c.point /\ d # c
    BY <2>1 DEF AtPoint
  <2> QED BY <1>2, <2>2
<1>6. GoesRound(D)
  BY <1>4, <1>5 DEF GoesRound
<1> QED BY <1>1, <1>6 DEF Tree

(* Beyond(u) is the least set with the ring of u that only u leads out of. *)
LEMMA BeyondIsLeast ==
  ASSUME NEW u, u.ring \in RingNos
  PROVE  /\ Beyond(u) \in SUBSET RingNos /\ u.ring \in Beyond(u) /\ Stays(Beyond(u), u)
         /\ \A X \in SUBSET RingNos : u.ring \in X /\ Stays(X, u) => Beyond(u) \subseteq X
<1>1. \A r : r \in Beyond(u) <=>
        r \in RingNos /\ \A X \in SUBSET RingNos : u.ring \in X /\ Stays(X, u) => r \in X
  BY DEF Beyond
<1>2. Beyond(u) \in SUBSET RingNos /\ u.ring \in Beyond(u)
  BY <1>1
<1>3. ASSUME NEW c \in Contacts, NEW r \in RingNos, c.ring \in Beyond(u), c # u, On(r, c.point)
      PROVE  r \in Beyond(u)
  <2>1. ASSUME NEW X \in SUBSET RingNos, u.ring \in X, Stays(X, u) PROVE r \in X
    BY <1>1, <1>3, <2>1 DEF Stays
  <2> QED BY <1>1, <2>1
<1>4. Stays(Beyond(u), u)
  BY <1>3 DEF Stays
<1> QED BY <1>1, <1>2, <1>4

(* A way leads to each ring beyond a touch that does not use the touch.    *)
LEMMA WaysBeyond ==
  ASSUME at \in DOMAIN parts, parts \in Seq(Polygons), VerticesOnly, Tree, NEW u \in Contacts
  PROVE  \A r \in Beyond(u) :
           \E D : Way(D, u.ring, r) /\ u \notin D /\ \A c \in D : c.ring \in Beyond(u)
<1> DEFINE X == {r \in Beyond(u) :
                   \E D : Way(D, u.ring, r) /\ u \notin D /\ \A c \in D : c.ring \in Beyond(u)}
<1>1. /\ u.ring \in RingNos /\ Beyond(u) \in SUBSET RingNos /\ u.ring \in Beyond(u)
      /\ Stays(Beyond(u), u)
  BY ContactsFinite, BeyondIsLeast
<1>2. u.ring \in X
  BY <1>1, ShortWays
<1>3. ASSUME NEW c \in Contacts, NEW r \in RingNos, c.ring \in X, c # u, On(r, c.point)
      PROVE  r \in X
  <2>1. CASE r = c.ring
    BY <1>3, <2>1
  <2>2. CASE r # c.ring
    <3> DEFINE d == [ring |-> r, point |-> c.point]
    <3>1. r \in Beyond(u) /\ c.ring \in Beyond(u)
      BY <1>1, <1>3 DEF Stays
    <3>2. d \in Contacts
      BY <1>3, <2>2, ContactsFinite, SharedIsContact
    <3>3. PICK D : Way(D, u.ring, c.ring) /\ u \notin D /\ \A e \in D : e.ring \in Beyond(u)
      BY <1>3
    <3>4. Way({c, d}, c.ring, r)
      BY <2>2, <3>2, ShortWays
    <3> DEFINE W == SymDiff(D, {c, d})
    <3>5. Way(W, u.ring, r)
      BY <3>3, <3>4, WayJoins
    <3>6. \A e \in W : e.ring \in Beyond(u)
      BY <3>1, <3>3 DEF SymDiff
    <3>7. u \notin W
      <4> SUFFICES ASSUME u \in W PROVE FALSE
        OBVIOUS
      <4>1. u = d
        BY <1>3, <3>3 DEF SymDiff
      <4>2. Way(W, u.ring, u.ring)
        BY <3>5, <4>1
      <4> QED BY <4>2, NoWayBack
    <3> HIDE DEF W
    <3> QED BY <3>1, <3>5, <3>6, <3>7
  <2> QED BY <2>1, <2>2
<1>4. X \in SUBSET RingNos /\ Stays(X, u)
  <2>1. X \in SUBSET RingNos
    BY <1>1
  <2> HIDE DEF X
  <2> QED BY <1>3, <2>1 DEF Stays
<1>5. Beyond(u) \subseteq X
  <2> HIDE DEF X
  <2> QED BY <1>1, <1>2, <1>4, BeyondIsLeast
<1> QED BY <1>5

(* No other ring in the point of a touch lies beyond it.                   *)
LEMMA NotBeyond ==
  ASSUME at \in DOMAIN parts, parts \in Seq(Polygons), VerticesOnly, Tree, NEW u \in Contacts,
         NEW r \in RingNos, r # u.ring, On(r, u.point)
  PROVE  r \notin Beyond(u)
<1> DEFINE d == [ring |-> r, point |-> u.point]
<1> SUFFICES ASSUME r \in Beyond(u) PROVE FALSE
  OBVIOUS
<1>1. d \in Contacts
  BY ContactsFinite, SharedIsContact
<1>2. PICK D : Way(D, u.ring, r) /\ u \notin D
  BY WaysBeyond
<1>3. Way({d, u}, r, u.ring)
  BY <1>1, ShortWays
<1>4. Way(SymDiff(D, {d, u}), u.ring, u.ring)
  BY <1>2, <1>3, WayJoins
<1>5. u \in SymDiff(D, {d, u})
  BY <1>2 DEF SymDiff
<1> QED BY <1>4, <1>5, NoWayBack

(* A touch of a ring, at another point than the ring was entered by, leads *)
(* on from it.                                                             *)
LEMMA BeyondOnward ==
  ASSUME at \in DOMAIN parts, parts \in Seq(Polygons), VerticesOnly, Tree,
         NEW t \in Contacts, NEW u \in Contacts,
         u.ring # t.ring, On(t.ring, u.point), u.point # t.point
  PROVE  Beyond(u) \subseteq Beyond(t) /\ t.ring \notin Beyond(u)
<1> DEFINE d == [ring |-> t.ring, point |-> u.point]
           X == Beyond(u) \cap Beyond(t)
<1>1. /\ t.ring \in RingNos /\ u.ring \in RingNos /\ On(u.ring, u.point) /\ d \in Contacts
  BY ContactsFinite, SharedIsContact
<1>2. t.ring \notin Beyond(u)
  BY <1>1, NotBeyond
<1>3. /\ Beyond(t) \in SUBSET RingNos /\ t.ring \in Beyond(t) /\ Stays(Beyond(t), t)
      /\ Beyond(u) \in SUBSET RingNos /\ u.ring \in Beyond(u) /\ Stays(Beyond(u), u)
  BY <1>1, BeyondIsLeast
<1>4. u.ring \in X
  BY <1>1, <1>3 DEF Stays
<1>5. Stays(X, u)
  BY <1>2, <1>3 DEF Stays
<1>6. Beyond(u) \subseteq X
  <2>1. X \in SUBSET RingNos
    BY <1>3
  <2> HIDE DEF X
  <2> QED BY <1>1, <1>4, <1>5, <2>1, BeyondIsLeast
<1> QED BY <1>2, <1>6

(* Two touches of one ring lead to different rings.                        *)
LEMMA BranchesApart ==
  ASSUME at \in DOMAIN parts, parts \in Seq(Polygons), VerticesOnly, Tree,
         NEW s \in RingNos, NEW u \in Contacts, NEW v \in Contacts, u # v,
         u.ring # s, v.ring # s, On(s, u.point), On(s, v.point)
  PROVE  Beyond(u) \cap Beyond(v) = {}
<1> DEFINE a == [ring |-> s, point |-> u.point]
           b == [ring |-> s, point |-> v.point]
<1> SUFFICES ASSUME NEW r \in Beyond(u), r \in Beyond(v) PROVE FALSE
  OBVIOUS
<1>1. /\ u = [ring |-> u.ring, point |-> u.point] /\ v = [ring |-> v.ring, point |-> v.point]
      /\ u.ring \in RingNos /\ v.ring \in RingNos
      /\ On(u.ring, u.point) /\ On(v.ring, v.point)
      /\ a \in Contacts /\ b \in Contacts
  BY ContactsFinite, SharedIsContact
<1>2. s \notin Beyond(u) /\ s \notin Beyond(v)
  BY NotBeyond
<1>3. PICK D : Way(D, u.ring, r) /\ u \notin D /\ \A c \in D : c.ring \in Beyond(u)
  BY WaysBeyond
<1>4. PICK E : Way(E, v.ring, r) /\ v \notin E /\ \A c \in E : c.ring \in Beyond(v)
  BY WaysBeyond
<1>5. Way(E, r, v.ring)
  BY <1>4 DEF Way
<1>6. Way(SymDiff(D, E), u.ring, v.ring)
  BY <1>3, <1>5, WayJoins
<1>7. CASE u.point = v.point
  <2>1. u.ring # v.ring
    BY <1>1, <1>7
  <2>2. Way({v, u}, v.ring, u.ring)
    BY <1>7, <2>1, ShortWays
  <2>3. Way(SymDiff(SymDiff(D, E), {v, u}), u.ring, u.ring)
    BY <1>6, <2>2, WayJoins
  <2>4. u.ring \notin Beyond(v)
    BY <1>1, <1>7, <2>1, NotBeyond
  <2>5. u \in SymDiff(SymDiff(D, E), {v, u})
    BY <1>3, <1>4, <2>4 DEF SymDiff
  <2> QED BY <2>3, <2>5, NoWayBack
<1>8. CASE u.point # v.point
  <2>1. Way({v, b}, v.ring, s) /\ Way({a, u}, s, u.ring)
    BY <1>1, ShortWays
  <2>2. Way(SymDiff(SymDiff(SymDiff(D, E), {v, b}), {a, u}), u.ring, u.ring)
    BY <1>6, <2>1, WayJoins
  <2>3. a \notin D /\ a \notin E /\ a # v /\ a # b /\ a # u
    BY <1>2, <1>3, <1>4, <1>8
  <2>4. a \in SymDiff(SymDiff(SymDiff(D, E), {v, b}), {a, u})
    BY <2>3 DEF SymDiff
  <2> QED BY <2>2, <2>4, NoWayBack
<1> QED BY <1>7, <1>8

(* Touches are contacts.                                                   *)
LEMMA TouchesOnward ==
  ASSUME at \in DOMAIN parts, parts \in Seq(Polygons), VerticesOnly, NEW r \in RingNos
  PROVE  \A u \in Touches(r) : u \in Contacts /\ u.ring # r /\ On(r, u.point)
<1> TAKE u \in Touches(r)
<1>1. /\ u \in [ring : RingNos, point : Points]
      /\ u.ring # r /\ On(r, u.point) /\ On(u.ring, u.point)
  BY TouchesAre
<1>2. [ring |-> u.ring, point |-> u.point] \in Contacts
  BY <1>1, SharedIsContact
<1>3. u = [ring |-> u.ring, point |-> u.point]
  BY <1>1
<1> QED BY <1>1, <1>2, <1>3

(* What a step finds beyond the touches does not depend on the step.       *)
LEMMA SameTree ==
  ASSUME at' = at, parts' = parts
  PROVE  (Tree' <=> Tree) /\ \A u : Beyond(u)' = Beyond(u)
<1>1. RingNos' = RingNos /\ Contacts' = Contacts /\ \A r, p : On(r, p)' <=> On(r, p)
  BY SamePart
<1>2. ASSUME NEW X, NEW u PROVE Stays(X, u)' <=> Stays(X, u)
  BY <1>1 DEF Stays
<1>3. ASSUME NEW u PROVE Beyond(u)' = Beyond(u)
  BY <1>1, <1>2 DEF Beyond
<1>4. ASSUME NEW C PROVE GoesRound(C)' <=> GoesRound(C)
  BY DEF GoesRound
<1> QED BY <1>1, <1>3, <1>4 DEF Tree

(* A search starts at a ring no other one has marked.                      *)
LEMMA NextRootTree ==
  ASSUME Searching, pc = "cycle", NextRoot
  PROVE  TreeInv'
<1> SUFFICES ASSUME pc' = "cycle", Tree' PROVE TreeInv'
  BY DEF TreeInv
<1> DEFINE free == {r \in DOMAIN touchRoot : touchRoot[r] = NoRoot}
           new == root'
<1>1. at' = at /\ parts' = parts /\ at \in DOMAIN parts /\ parts \in Seq(Polygons) /\ VerticesOnly
  BY DEF NextRoot, Continue, Go, Searching
<1>2. /\ RingNos' = RingNos /\ Contacts' = Contacts /\ Tree
      /\ \A u : Beyond(u)' = Beyond(u)
  BY <1>1, SamePart, SameTree
<1>3. DOMAIN touchRoot = RingNos
  BY DEF Searching, MarksInv
<1>4. free # {}
  BY DEF NextRoot, Continue, Go
<1>5. /\ new \in RingNos /\ touchRoot[new] = NoRoot
      /\ touchRoot' = [touchRoot EXCEPT ![new] = new]
      /\ stack' = Touches(new)
  <2> DEFINE r == CHOOSE r \in free : \A s \in free : r <= s
  <2>1. \E q \in free : \A s \in free : q <= s
    <3>1. free \in SUBSET Nat
      BY <1>1, <1>3, RingsAre
    <3> HIDE DEF free
    <3> QED BY <1>4, <3>1, LeastNatural
  <2>2. r \in free
    <3> HIDE DEF free
    <3> QED BY <2>1
  <2>3. root' = r /\ touchRoot' = [touchRoot EXCEPT ![r] = r] /\ stack' = Touches(r)
    BY <1>4 DEF NextRoot, Continue, Go
  <2> HIDE DEF r
  <2> QED BY <1>3, <2>2, <2>3
<1>6. Marked' = {new}
  <2>1. /\ touchRoot' \in [RingNos -> RingNos \cup {NoRoot}]
        /\ touchRoot'[new] = new /\ \A r \in RingNos \ {new} : touchRoot'[r] = touchRoot[r]
        /\ \A r \in RingNos : touchRoot[r] # new
    BY <1>1, <1>5, RingsAre DEF Searching, MarksInv
  <2> QED BY <1>2, <1>5, <2>1 DEF Marked
<1>7. \A u \in stack' : u \in Contacts /\ u.ring # new /\ On(new, u.point)
  BY <1>1, <1>5, TouchesOnward
<1>8. \A u \in stack' : new \notin Beyond(u)
  BY <1>1, <1>2, <1>5, <1>7, NotBeyond
<1>9. \A u, v \in stack' : u # v => Beyond(u) \cap Beyond(v) = {}
  BY <1>1, <1>2, <1>5, <1>7, BranchesApart
<1> HIDE DEF new
<1> QED BY <1>2, <1>6, <1>7, <1>8, <1>9 DEF TreeInv

(* A step of the search goes on beyond one touch only, and meets no ring   *)
(* marked before.                                                          *)
LEMMA FollowTouchTree ==
  ASSUME Searching, TreeInv, pc = "cycle", FollowTouch
  PROVE  /\ Tree => pc' = "cycle" /\ at' = at /\ parts' = parts
         /\ TreeInv'
<1>1. at \in DOMAIN parts /\ parts \in Seq(Polygons) /\ VerticesOnly
  BY DEF Searching
<1>2. PICK t \in stack :
        IF \/ \E u \in Onward(t) : touchRoot[u.ring] = root
           \/ \E u, v \in Onward(t) : u # v /\ u.ring = v.ring /\ touchRoot[u.ring] = NoRoot
        THEN FinishPart({"DisconnectedInterior"})
        ELSE LET new == {u \in Onward(t) : touchRoot[u.ring] = NoRoot}
             IN  /\ touchRoot' = [r \in DOMAIN touchRoot |->
                                    IF \E u \in new : u.ring = r THEN root ELSE touchRoot[r]]
                 /\ stack' = (stack \ {t}) \cup new
                 /\ Continue("cycle") /\ UNCHANGED <<hole, root>>
  BY DEF FollowTouch
<1> DEFINE new == {u \in Onward(t) : touchRoot[u.ring] = NoRoot}
<1>3. ASSUME Tree
      PROVE  /\ t \in Contacts /\ t.ring \in RingNos
             /\ \A u \in Onward(t) : /\ u \in Contacts /\ u.ring \in RingNos /\ u.ring \in Beyond(u)
                                     /\ Beyond(u) \subseteq Beyond(t) /\ t.ring \notin Beyond(u)
             /\ \A u, v \in Onward(t) : u # v => Beyond(u) \cap Beyond(v) = {}
             /\ Beyond(t) \cap Marked \subseteq {t.ring}
  <2>1. t \in Contacts /\ t.ring \in RingNos /\ Beyond(t) \cap Marked \subseteq {t.ring}
    BY <1>1, <1>3, ContactsFinite DEF TreeInv
  <2>2. \A u \in Onward(t) : /\ u \in Contacts /\ u.ring # t.ring
                             /\ On(t.ring, u.point) /\ u.point # t.point
    BY <1>1, <2>1, TouchesOnward DEF Onward
  <2>3. \A u \in Onward(t) : Beyond(u) \subseteq Beyond(t) /\ t.ring \notin Beyond(u)
    BY <1>1, <1>3, <2>1, <2>2, BeyondOnward
  <2>4. \A u, v \in Onward(t) : u # v => Beyond(u) \cap Beyond(v) = {}
    BY <1>1, <1>3, <2>1, <2>2, BranchesApart
  <2>5. \A u \in Onward(t) : u.ring \in RingNos /\ u.ring \in Beyond(u)
    BY <1>1, <2>2, ContactsFinite, BeyondIsLeast
  <2> QED BY <2>1, <2>2, <2>3, <2>4, <2>5
<1>4. ASSUME Tree
      PROVE  /\ touchRoot' = [r \in DOMAIN touchRoot |->
                                IF \E u \in new : u.ring = r THEN root ELSE touchRoot[r]]
             /\ stack' = (stack \ {t}) \cup new
             /\ Continue("cycle") /\ root' = root
  <2>1. ~\E u \in Onward(t) : touchRoot[u.ring] = root
    BY <1>3, <1>4 DEF Marked
  <2>2. ~\E u, v \in Onward(t) : u # v /\ u.ring = v.ring /\ touchRoot[u.ring] = NoRoot
    BY <1>3, <1>4
  <2> QED BY <1>2, <2>1, <2>2
<1>5. Tree => pc' = "cycle" /\ at' = at /\ parts' = parts
  BY <1>4 DEF Continue, Go
<1>6. TreeInv'
  <2> SUFFICES ASSUME pc' = "cycle", Tree' PROVE TreeInv'
    BY DEF TreeInv
  <2>1. at' = at /\ parts' = parts
    <3>1. CASE FinishPart({"DisconnectedInterior"})
      BY <3>1 DEF FinishPart, Go
    <3>2. CASE Continue("cycle")
      BY <3>2 DEF Continue, Go
    <3> QED BY <1>2, <3>1, <3>2
  <2>2. /\ RingNos' = RingNos /\ Contacts' = Contacts /\ Tree
        /\ \A u : Beyond(u)' = Beyond(u)
    BY <2>1, SamePart, SameTree
  <2>3. \A r \in RingNos : r \in Marked' <=> r \in Marked \/ \E u \in new : u.ring = r
    <3>1. DOMAIN touchRoot = RingNos
      BY DEF Searching, MarksInv
    <3> HIDE DEF new
    <3> QED BY <1>4, <2>2, <3>1 DEF Marked
  <2>4. \A u \in new : u \in Onward(t) /\ u \in Contacts
    BY <1>3, <2>2
  <2>5. Marked' \subseteq RingNos /\ \A u \in stack : u \in Contacts /\ Beyond(u) \subseteq RingNos
    BY <2>2 DEF Marked, TreeInv, Beyond
  <2>6. stack' = (stack \ {t}) \cup new
    BY <1>4, <2>2
  <2> HIDE DEF new
  <2>7. ASSUME NEW u \in stack' PROVE u \in Contacts /\ Beyond(u) \cap Marked' \subseteq {u.ring}
    <3>1. CASE u \in new
      <4>1. \A v \in new : v # u => v.ring \notin Beyond(u)
        BY <1>3, <2>2, <2>4, <3>1
      <4>2. Beyond(u) \cap Marked = {}
        BY <1>3, <2>2, <2>4, <3>1
      <4> QED BY <2>3, <2>4, <2>5, <3>1, <4>1, <4>2
    <3>2. CASE u \in stack \ {t}
      <4>1. Beyond(u) \cap Marked \subseteq {u.ring} /\ Beyond(u) \cap Beyond(t) = {}
        BY <2>2, <3>2 DEF TreeInv
      <4>2. \A v \in new : v.ring \notin Beyond(u)
        BY <1>3, <2>2, <2>4, <4>1
      <4> QED BY <2>3, <2>5, <3>2, <4>1, <4>2
    <3> QED BY <2>6, <3>1, <3>2
  <2>8. ASSUME NEW u \in stack', NEW v \in stack', u # v PROVE Beyond(u) \cap Beyond(v) = {}
    <3>1. CASE u \in new /\ v \in new
      BY <1>3, <2>2, <2>4, <2>8, <3>1
    <3>2. ASSUME NEW x \in new, NEW y \in stack \ {t} PROVE Beyond(x) \cap Beyond(y) = {}
      <4>1. Beyond(x) \subseteq Beyond(t)
        BY <1>3, <2>2, <2>4
      <4>2. Beyond(y) \cap Beyond(t) = {}
        BY <2>2 DEF TreeInv
      <4> QED BY <4>1, <4>2
    <3>3. CASE u \in stack \ {t} /\ v \in stack \ {t}
      BY <2>2, <2>8, <3>3 DEF TreeInv
    <3>4. u \in new \/ u \in stack \ {t}
      BY <2>6
    <3>5. v \in new \/ v \in stack \ {t}
      BY <2>6
    <3>6. CASE u \in new /\ v \in stack \ {t}
      BY <3>2, <3>6
    <3>7. CASE u \in stack \ {t} /\ v \in new
      BY <3>2, <3>7
    <3> QED BY <3>1, <3>3, <3>4, <3>5, <3>6, <3>7
  <2> QED BY <2>2, <2>7, <2>8 DEF TreeInv
<1> QED BY <1>5, <1>6

(* Init and every step keep the two invariants.                            *)
LEMMA TreeAlways == Spec => [](ValidityInv /\ TreeInv)
<1>1. Init => TreeInv
  BY DEF Init, TreeInv
<1>2. ValidityInv /\ TreeInv /\ [Next]_vars => TreeInv'
  <2> SUFFICES ASSUME ValidityInv, TreeInv, [Next]_vars PROVE TreeInv'
    OBVIOUS
  <2>1. CASE CheckPairs
    <3>1. stack = {}
      BY <2>1 DEF CheckPairs, ValidityInv, PlaceInv
    <3>2. pc' = "cycle" => stack' = {}
      BY <2>1, <3>1 DEF CheckPairs, FinishPart, Go
    <3> QED BY <3>2 DEF TreeInv
  <2>2. CASE NextRoot \/ FollowTouch
    <3>1. Searching /\ pc = "cycle"
      BY <2>2 DEF NextRoot, FollowTouch, Searching, ValidityInv, PlaceInv, HolesInv, CycleInv
    <3> QED BY <2>2, <3>1, NextRootTree, FollowTouchTree
  <2>3. CASE Gate \/ BeginPart \/ CheckHole \/ CheckNested
    <3>1. pc' # "cycle"
      BY <2>3 DEF Gate, BeginPart, CheckHole, CheckNested, FinishPart, Continue, Go
    <3> QED BY <3>1 DEF TreeInv
  <2>4. CASE ShellDuplicates \/ RingPairs \/ NestedShells
    <3>1. pc' # "cycle"
      BY <2>4 DEF ShellDuplicates, RingPairs, NestedShells, Finish, Go
    <3> QED BY <3>1 DEF TreeInv
  <2>5. CASE UNCHANGED vars
    <3>1. /\ at' = at /\ parts' = parts /\ pc' = pc
          /\ touchRoot' = touchRoot /\ root' = root /\ stack' = stack
      BY <2>5 DEF vars
    <3>2. RingNos' = RingNos /\ Contacts' = Contacts /\ (Tree' <=> Tree)
          /\ \A u : Beyond(u)' = Beyond(u)
      BY <3>1, SamePart, SameTree
    <3>3. Marked' = Marked
      BY <3>1, <3>2 DEF Marked
    <3> QED BY <3>1, <3>2, <3>3 DEF TreeInv
  <2> QED BY <2>1, <2>2, <2>3, <2>4, <2>5 DEF Next
<1> QED
  BY <1>1, <1>2, ValidityAlways, PTL DEF Spec

(* detect_hole_cycle reports a disconnected interior exactly when the      *)
(* rings touch in a cycle through different points: it lets no such part   *)
(* pass and refuses no other, for any number of rings and of touches, in   *)
(* whatever order they are followed.                                       *)
THEOREM CycleSearchDecides == Spec => CycleVerdict
<1> DEFINE Verdict ==
      pc = "cycle" /\ pc' # "cycle" =>
        (pc' = "nested" <=> \A C \in SUBSET Contacts : ~GoesRound(C))
<1>1. ValidityInv /\ ValidityInv' /\ TreeInv /\ [Next]_vars => [Verdict]_vars
  <2> SUFFICES ASSUME ValidityInv, ValidityInv', TreeInv, [Next]_vars, pc = "cycle", pc' # "cycle"
               PROVE  pc' = "nested" <=> Tree
    BY DEF Tree
  <2>1. NextRoot \/ FollowTouch
    BY DEF Next, vars, Gate, BeginPart, CheckHole, CheckPairs, CheckNested,
           ShellDuplicates, RingPairs, NestedShells
  <2>2. Searching
    BY DEF Searching, ValidityInv, PlaceInv, HolesInv, CycleInv
  <2>3. CASE NextRoot
    <3>1. pc' = "nested" /\ CyclesFound' /\ at' = at /\ parts' = parts
      BY <2>2, <2>3, NextRootKeeps DEF NextRoot, Continue, Go
    <3>2. Tree'
      BY <3>1 DEF CyclesFound, Tree
    <3> QED BY <3>1, <3>2, SameTree
  <2>4. CASE FollowTouch
    <3>1. ~Tree
      BY <2>2, <2>4, FollowTouchTree
    <3>2. pc' # "nested"
      BY <2>4 DEF FollowTouch, FinishPart, Continue, Go
    <3> QED BY <3>1, <3>2
  <2> QED BY <2>1, <2>3, <2>4
<1> HIDE DEF Verdict
<1>2. Spec => [][Verdict]_vars
  BY <1>1, TreeAlways, PTL DEF Spec
<1> QED
  BY <1>2 DEF Verdict, CycleVerdict
=============================================================================
