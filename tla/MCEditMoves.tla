----------------------------- MODULE MCEditMoves ----------------------------
(***************************************************************************)
(* Two registers, two spill slots and a dedicated scratch register, which  *)
(* a class may or may not have.  The allocation kind is in the high bits   *)
(* of an allocation, so that registers come before stack slots.            *)
(***************************************************************************)
EXTENDS EditMoves

TwoRegs == {1, 2}
Scratch == {3}
TwoSlots == {4, 5}
TwoExtra == <<6, 7>>
AllSlots == {4, 5, 6, 7}
AnyThenOne == <<4, 1>>
OneGroup == <<2>>
NoRegs == {}
=============================================================================
