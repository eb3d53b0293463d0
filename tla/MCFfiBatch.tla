----------------------------- MODULE MCFfiBatch -----------------------------
(* The workers of the rayon pool in the runs of FfiBatch. *)
EXTENDS FfiBatch, TLC

CONSTANTS w1, w2

Pool == {w1, w2}

(* No worker is told from another. *)
Symmetric == Permutations(Pool)
=============================================================================
