---------------------------- MODULE MCMergeShells ----------------------------
(* Lists of shells for the runs of MergeShells. *)
EXTENDS MergeShells

Squares(n) == {Square(p[1], p[2]) : p \in {p \in (0 .. n) \X (0 .. n) : p[1] < p[2]}}

Plain(n) == {[ring |-> r, holes |-> {}] : r \in Squares(n)}

(* Shells with one hole, which touches no side. *)
Holed(n) == {[ring |-> p[1], holes |-> {p[2]}] :
               p \in {p \in Squares(n) \X Squares(n) : Strictly(p[2], p[1])}}

UpTo(S, n) == UNION {[1 .. k -> S] : k \in 0 .. n}

TwoPairs == {<<a, a, b, b, p, q>> : a \in {[ring |-> Square(0, 1), holes |-> {}]},
                                    b \in Plain(3), p \in Plain(4), q \in Plain(5)}

(* Every list of up to three shells on five positions, holes included, of  *)
(* up to three plain shells on six, enough to nest twice, and of up to     *)
(* four plain shells on five, enough for two pairs or three siblings; and  *)
(* lists that begin with two pairs, the second of which does not cancel.   *)
AllLists == UpTo(Plain(4) \cup Holed(4), 3) \cup UpTo(Plain(5), 3) \cup UpTo(Plain(4), 4)
              \cup TwoPairs

(* Every list of up to four plain shells on four positions.                *)
PlainLists == UpTo(Plain(3), 4)
=============================================================================
