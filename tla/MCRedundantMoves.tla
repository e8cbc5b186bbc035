-------------------------- MODULE MCRedundantMoves --------------------------
(* A register, the dedicated scratch register, and two stack slots.  The   *)
(* slots are interchangeable, and so are the values.                       *)
EXTENDS RedundantMoves, TLC

CONSTANTS r1, scratch, s1, s2

MCReg == {r1, scratch}
MCScratch == {scratch}
MCAlloc == MCReg \cup {s1, s2}
MCSymmetry == Permutations({s1, s2}) \cup Permutations(Value)
=============================================================================
