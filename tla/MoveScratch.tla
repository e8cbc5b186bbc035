----------------------------- MODULE MoveScratch ----------------------------
(***************************************************************************)
(* `MoveAndScratchResolver::compute` of taki_mir/src/reg_alloc/moves.rs:   *)
(* the scratch location of a resolved group becomes a free register or an  *)
(* extra stack slot, and moves from the stack to the stack go through a    *)
(* free register or through one that is borrowed, saved and reloaded.      *)
(***************************************************************************)
EXTENDS Integers, Sequences, FiniteSets

CONSTANTS Regs,        \* allocatable registers
          Dedicated,   \* the dedicated scratch register, if there is one
          Slots,       \* spill slots
          ExtraSlots,  \* extra_spillslots_by_class, in order of use
          Victim       \* preferred_victim_by_class

Loc   == Regs \cup Slots
Extra == {ExtraSlots[i] : i \in DOMAIN ExtraSlots}
Alloc == Loc \cup Dedicated \cup Extra
Stack == Slots \cup Extra

(* The dedicated scratch register is not allocatable, and the extra slots  *)
(* are nobody else's.                                                      *)
ASSUME ScratchAssumption ==
    /\ Alloc \subseteq Nat \ {0} /\ IsFiniteSet(Loc)
    /\ Regs \cap Dedicated = {} /\ Stack \cap (Regs \cup Dedicated) = {}
    /\ Slots \cap Extra = {}
    /\ Len(ExtraSlots) = 2 /\ ExtraSlots[1] # ExtraSlots[2]
    /\ Victim \in Regs

VARIABLES ret,           \* the resolved moves
          scratch_used,  \* whether they name the scratch location
          free_regs      \* the registers `find_free_reg` returns, in order

NoLoc == 0               \* the scratch location of a resolved group

Edit == [src : Alloc, dst : Alloc]
-----------------------------------------------------------------------------
Mv(from, to) == [src |-> from, dst |-> to]
IsStackToStack(m) == m.src \in Stack /\ m.dst \in Stack

scratch == IF free_regs # <<>> THEN Head(free_regs) ELSE ExtraSlots[1]

(* Mutated form: the save of a cycle keeps its empty destination. *)
WithScratchSource ==
    LET fill(l) == IF l = NoLoc THEN scratch ELSE l
    IN [i \in DOMAIN ret |-> Mv(fill(ret[i].src), ret[i].dst)]

(* `with_scratch` *)
WithScratch ==
    LET fill(l) == IF l = NoLoc THEN scratch ELSE l
    IN [i \in DOMAIN ret |-> Mv(fill(ret[i].src), fill(ret[i].dst))]

(* The second call of `find_free_reg`, or the borrowed register and the    *)
(* slot its contents are saved in.                                         *)
still_free == IF scratch_used /\ free_regs # <<>> THEN Tail(free_regs) ELSE free_regs
borrowed == still_free = <<>>
scratch_reg == IF borrowed THEN Victim ELSE Head(still_free)
save_slot == IF scratch_used /\ free_regs = <<>> THEN ExtraSlots[2] ELSE ExtraSlots[1]

(* One move, given the output so far, whether the scratch register holds   *)
(* something other than its own contents, and whether the save slot is out *)
(* of date.                                                                *)
ThroughScratch(acc, m) ==
    [out |-> acc.out
             \o (IF borrowed /\ acc.save_dirty
                 THEN <<Mv(scratch_reg, save_slot)>> ELSE <<>>)
             \o <<Mv(m.src, scratch_reg), Mv(scratch_reg, m.dst)>>,
     scratch_dirty |-> TRUE,
     save_dirty |-> acc.save_dirty /\ ~borrowed]

(* Mutated form: the borrowed register is not reloaded before it is read. *)
DirectlyUnrestored(acc, m) ==
    [out |-> Append(acc.out, m),
     scratch_dirty |-> acc.scratch_dirty /\ m.dst # scratch_reg,
     save_dirty |-> acc.save_dirty \/ m.dst = scratch_reg]

Directly(acc, m) ==
    LET reload == m.src = scratch_reg /\ acc.scratch_dirty
    IN [out |-> acc.out
                \o (IF reload THEN <<Mv(save_slot, scratch_reg)>> ELSE <<>>)
                \o <<m>>,
        scratch_dirty |-> acc.scratch_dirty /\ ~reload /\ m.dst # scratch_reg,
        save_dirty |-> acc.save_dirty \/ m.dst = scratch_reg]

Through(acc, m) == IF IsStackToStack(m) THEN ThroughScratch(acc, m) ELSE Directly(acc, m)

(* The loop over the moves, and the reload of the borrowed register. *)
Unstacked(moves) ==
    LET acc[n \in 0 .. Len(moves)] ==
            IF n = 0 THEN [out |-> <<>>, scratch_dirty |-> FALSE, save_dirty |-> TRUE]
            ELSE Through(acc[n - 1], moves[n])
        end == acc[Len(moves)]
    IN end.out \o (IF borrowed /\ end.scratch_dirty
                   THEN <<Mv(save_slot, scratch_reg)>> ELSE <<>>)

Filled == IF scratch_used THEN WithScratch ELSE ret

(* Mutated form: stack-to-stack moves are looked for before the scratch    *)
(* location is filled in.                                                  *)
ComputeTooEarly ==
    IF \A i \in DOMAIN ret : ~IsStackToStack(ret[i]) THEN Filled ELSE Unstacked(Filled)

Compute ==
    IF \A i \in DOMAIN Filled : ~IsStackToStack(Filled[i]) THEN Filled ELSE Unstacked(Filled)
=============================================================================
