--------------------------- MODULE MCParallelMoves --------------------------
(***************************************************************************)
(* Every group of parallel moves among MaxLoc locations.                   *)
(***************************************************************************)
EXTENDS ParallelMoves

CONSTANT MaxLoc

Locations == 1 .. MaxLoc
=============================================================================
