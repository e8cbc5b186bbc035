----------------------------- MODULE EditMoves ------------------------------
(***************************************************************************)
(* From the allocator's parallel moves to machine code, for one register   *)
(* class: `resolve_inserted_moves` (taki_mir/src/reg_alloc/ion/moves.rs)   *)
(* resolves each group with ParallelMoves, replaces the scratch location   *)
(* and the stack-to-stack moves (`MoveAndScratchResolver::compute`), and   *)
(* passes the result through the redundant-move eliminator;                *)
(* `VCodeContainer::finalize_for_emission` and the target's ABI expand     *)
(* what is left into loads, stores and register moves.                     *)
(*                                                                         *)
(* `val` is the machine: the contents of every location.  A slot in Far is *)
(* outside the immediate range of a load or store, so that the expansion   *)
(* first computes its address in the registers of AddressTemp.             *)
(***************************************************************************)
EXTENDS MoveScratch, Functions

CONSTANTS Far,          \* slots out of immediate range
          AddressTemp,  \* registers the expansion of a far access writes
          GroupSizes    \* for each group of moves, a bound on its moves

MaxGroups == Len(GroupSizes)

ASSUME GroupsAssumption == Far \subseteq Stack /\ GroupSizes \in Seq(Nat \ {0})

VARIABLES parallel_moves, state, stack, group,
          allocs, reverse_allocs, val,
          pc,         \* "idle", "resolve" a group, or apply its "edits"
          edits,      \* moves of the group that are not yet applied
          before,     \* history: the machine when the group started
          groups      \* groups done

PM == INSTANCE ParallelMoves

Unknown == -1
Original == -2
\* A value an instruction produces, and what an address computation leaves.
Fresh(l) == -10 - l
Address == -3
Value == Alloc \cup {Fresh(l) : l \in Alloc} \cup {Address}

RM == INSTANCE RedundantMoves
        WITH Reg <- Regs \cup Dedicated, Scratch <- Dedicated,
             None <- Unknown, Orig <- Original, req <- pc

pmvars == <<parallel_moves, state, stack, ret, scratch_used, group>>
rmvars == <<allocs, reverse_allocs, val>>
vars   == <<pmvars, rmvars, pc, free_regs, edits, before, groups>>

TypeOK ==
    /\ RM!TypeOK /\ PM!TypeOK
    /\ pc \in {"idle", "resolve", "edits"}
    /\ free_regs \in Seq(Regs \cup Dedicated)
    /\ edits \in Seq(Edit)
    /\ groups \in 0 .. MaxGroups

Init ==
    /\ PM!Init
    /\ allocs = [a \in Alloc |-> Unknown]
    /\ reverse_allocs = [a \in Alloc |-> {}]
    /\ val = [a \in Alloc |-> a]
    /\ pc = "idle" /\ free_regs = <<>> /\ edits = <<>> /\ before = val
    /\ groups = 0
-----------------------------------------------------------------------------
(* The moves at the next program point.  `find_free_reg` offers the        *)
(* dedicated scratch register of the class, if it has one, and then the    *)
(* registers that are not in use here and that no move of the group names. *)
AddGroup(g, dedicated, unused) ==
    /\ unused \cap (DOMAIN g \cup Range(g)) = {}
    /\ PM!Start(g)
    /\ free_regs' = dedicated \o PM!Sorted(unused)
    /\ before' = val
    /\ pc' = "resolve" /\ UNCHANGED <<rmvars, edits, groups>>

ResolveStep ==
    /\ pc = "resolve" /\ PM!Step
    /\ UNCHANGED <<rmvars, pc, free_regs, edits, before, groups>>
-----------------------------------------------------------------------------
ReplaceScratch ==
    /\ pc = "resolve" /\ PM!Resolved
    /\ edits' = Compute
    /\ pc' = "edits"
    /\ UNCHANGED <<pmvars, rmvars, free_regs, before, groups>>
-----------------------------------------------------------------------------
(* `finalize_for_emission` on one edit: a register move, a load or a store, *)
(* whose address is computed first when the slot is far.                   *)
Expanded(m) ==
    LET addressed == [a \in Alloc |->
                        IF {m.src, m.dst} \cap Far # {} /\ a \in AddressTemp
                        THEN Address ELSE val[a]]
    IN [addressed EXCEPT ![m.dst] = addressed[m.src]]

(* `process_move` on the next move: elided, or emitted as an edit. *)
ApplyEdit ==
    /\ pc = "edits" /\ edits # <<>>
    /\ LET m == Head(edits) IN
       \/ m.src = m.dst /\ RM!SelfMove(m.dst)
       \/ m.src # m.dst /\ RM!ElidedMove(m.src, m.dst)
       \/ /\ m.src # m.dst /\ ~RM!Elide(m.src, m.dst)
          /\ RM!Record(m.src, m.dst, RM!Cleared({m.dst}), RM!Drained({m.dst}))
          /\ val' = Expanded(m)
    /\ edits' = Tail(edits)
    /\ UNCHANGED <<pmvars, pc, free_regs, before, groups>>

(* The group's resolver goes out of scope. *)
GroupDone ==
    /\ pc = "edits" /\ edits = <<>>
    /\ pc' = "idle" /\ groups' = groups + 1
    /\ PM!Reset /\ free_regs' = <<>> /\ before' = val
    /\ UNCHANGED <<rmvars, edits>>

(* Mutated form: the tracker keeps what it knows of the scratch register. *)
InstructionKeepsScratch(W) ==
    LET written == W \cup Dedicated IN
    /\ pc = "idle" /\ groups \in 1 .. MaxGroups - 1
    /\ allocs' = RM!Cleared(W)
    /\ reverse_allocs' = RM!Drained(W)
    /\ val' = [a \in Alloc |-> IF a \in written THEN Fresh(a) ELSE val[a]]
    /\ UNCHANGED <<pmvars, pc, free_regs, edits, before, groups>>

(* An instruction between two groups that writes W, and may clobber the    *)
(* dedicated scratch register.                                             *)
Instruction(W) ==
    LET written == W \cup Dedicated IN
    /\ pc = "idle" /\ groups \in 1 .. MaxGroups - 1
    /\ allocs' = RM!Cleared(written)
    /\ reverse_allocs' = RM!Drained(written)
    /\ val' = [a \in Alloc |-> IF a \in written THEN Fresh(a) ELSE val[a]]
    /\ UNCHANGED <<pmvars, pc, free_regs, edits, before, groups>>

Finished == pc = "idle" /\ groups = MaxGroups /\ UNCHANGED vars

BoundedGroups ==
    {g \in PM!Groups : Cardinality(DOMAIN g) \in 1 .. GroupSizes[groups + 1]}

Next ==
    \/ /\ pc = "idle" /\ groups < MaxGroups
       /\ \E g \in BoundedGroups, dedicated \in {<<>>} \cup {<<r>> : r \in Dedicated},
             unused \in SUBSET Regs :
            AddGroup(g, dedicated, unused)
    \/ ResolveStep \/ ReplaceScratch \/ ApplyEdit \/ GroupDone
    \/ \E l \in Loc : Instruction({l})
    \/ Finished

Spec == Init /\ [][Next]_vars
-----------------------------------------------------------------------------
(* When the edits of a group have run, every destination holds what its    *)
(* source held before the group, and every other live location is as it    *)
(* was: whatever was used as scratch, borrowed and saved, or elided.       *)
GroupApplied ==
    pc = "edits" /\ edits = <<>> =>
        \A l \in Loc \ Range(free_regs) :
            val[l] = before[IF l \in DOMAIN group THEN group[l] ELSE l]

(* No edit moves from the stack to the stack: the expansion needs no       *)
(* register of its own for one.                                            *)
EditsUseRegister ==
    \A i \in DOMAIN edits : ~IsStackToStack(edits[i])

(* What the eliminator calls a copy is one, throughout. *)
CopiesAgree == RM!CopiesAgree
=============================================================================
