------------------------ MODULE MCMultiPolygonLadder ------------------------
(* Model values for the runs of MultiPolygonLadder. *)
EXTENDS MultiPolygonLadder

BothEntries == {"serial", "parallel"}
SerialOnly == {"serial"}
ParallelOnly == {"parallel"}
=============================================================================
