--------------------------- MODULE MCRepairLadder ---------------------------
(* Model values for the runs of RepairLadder. *)
EXTENDS RepairLadder

Borrowed == {"borrowed"}
Owned == {"owned"}
BothEntries == {"borrowed", "owned"}
AllMethods == {"Arrange", "Structure", "Auto"}
StructureOnly == {"Structure"}
NeverKeep == {FALSE}
=============================================================================
