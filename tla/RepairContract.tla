--------------------------- MODULE RepairContract ---------------------------
(***************************************************************************)
(* What one repair call promises, with no word on how: the caller hands    *)
(* over a polygon and, in one step, receives an answer that is valid or    *)
(* empty, and an answer that still has area when the polygon was valid to  *)
(* begin with.  docs/ARCHITECTURE.md:14 has no exception ("No arm may ship *)
(* geometry the validator rejects"); the code has one, which the contract  *)
(* grants: a polygon the validator rejects may come back as it was, wound, *)
(* when the fast gate passed it unrepaired.  An engine's work never does.  *)
(***************************************************************************)
EXTENDS RepairGeometry

VARIABLES input, returned, answer

vars == <<input, returned, answer>>

Init == ~returned /\ answer = Empty

Answer == /\ ~returned
          /\ returned'
          /\ answer' \in Allowed(input)
          /\ UNCHANGED input

Spec == Init /\ [][Answer]_vars
=============================================================================
