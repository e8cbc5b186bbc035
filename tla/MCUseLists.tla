----------------------------- MODULE MCUseLists -----------------------------
(***************************************************************************)
(* Two interchangeable values, a terminator, a global, and one block       *)
(* besides the entry.                                                      *)
(***************************************************************************)
EXTENDS UseLists, TLC

CONSTANTS v1, v2, t1, g1, entry, b1

TwoValues == {v1, v2}
OneTerminator == {t1}
OneGlobal == {g1}
TwoBlocks == {entry, b1}

Handles == Permutations(TwoValues)
=============================================================================
