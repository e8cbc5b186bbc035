--------------------------- MODULE RedundantMoves ---------------------------
(***************************************************************************)
(* Redundant-move elimination: `RedundantMoveEliminator` of                *)
(* taki_mir/src/reg_alloc/ion/redundant_moves.rs, driven as                *)
(* `resolve_inserted_moves` (ion/moves.rs) drives it.  Moves arrive in     *)
(* program order; between two of them the locations written by the         *)
(* instructions in between are cleared, and everything is cleared at a     *)
(* block boundary.  A move the eliminator elides is not emitted, so the    *)
(* machine keeps whatever the destination held.                            *)
(*                                                                         *)
(* The tracker's map from a location to a `RedundantMoveState` is total    *)
(* here: an absent key and the state `None` are both None, as in the       *)
(* code's `unwrap_or(RedundantMoveState::None)`.  The virtual register     *)
(* carried by a state is dropped: no decision of the code reads it beyond  *)
(* whether the move came with one.                                         *)
(***************************************************************************)
CONSTANTS Alloc,      \* the locations: physical registers and stack slots
          Reg,        \* the ones that are registers (`Allocation::is_reg`)
          Scratch,    \* dedicated scratch registers (`scratch_by_class`)
          Value,      \* what a location can hold
          None, Orig  \* the two states that are not a copy

ASSUME AllocAssumption ==
    /\ Reg \subseteq Alloc
    /\ Scratch \subseteq Reg
    /\ None \notin Alloc /\ Orig \notin Alloc /\ None # Orig

VARIABLES allocs,          \* allocs[a]: the location a is a copy of, or None/Orig
          reverse_allocs,  \* reverse_allocs[a]: the locations recorded as copies of a
          val,             \* the machine: contents of every location
          req              \* the request being served

vars == <<allocs, reverse_allocs, val, req>>

MM == INSTANCE MoveMachine

TypeOK ==
    /\ allocs \in [Alloc -> Alloc \cup {None, Orig}]
    /\ reverse_allocs \in [Alloc -> SUBSET Alloc]
    /\ val \in [Alloc -> Value]

Init ==
    /\ allocs = [a \in Alloc |-> None]
    /\ reverse_allocs = [a \in Alloc |-> {}]
    /\ MM!Init
-----------------------------------------------------------------------------
(* Mutated form: only the location itself is forgotten.                    *)
ClearedAlone(S) ==
    [a \in Alloc |-> IF a \in S THEN None ELSE allocs[a]]

(* `clear_alloc` for every location of S: the recorded copies of a cleared *)
(* location are drained and forgotten, and so is its own state.  Clearing  *)
(* one location after the other gives this result in any order.            *)
Cleared(S) ==
    [a \in Alloc |-> IF a \in S \/ \E s \in S : a \in reverse_allocs[s]
                     THEN None ELSE allocs[a]]

Drained(S) ==
    [a \in Alloc |-> IF a \in S THEN {} ELSE reverse_allocs[a]]

(* The destination is recorded as a copy of the source, or the source as a *)
(* copy of the destination.                                                *)
Elide(from, to) ==
    \/ allocs[to] = from
    \/ allocs[from] = to

(* Mutated forms: the copy is indexed the wrong way round, or what the     *)
(* source was a copy of is indexed in its place.                           *)
RecordSwapped(from, to, tracked, reversed) ==
    IF from \in Reg \/ to \in Reg
    THEN /\ allocs' = [tracked EXCEPT ![to] = from]
         /\ reverse_allocs' = [reversed EXCEPT ![to] = @ \cup {from}]
    ELSE /\ allocs' = tracked
         /\ reverse_allocs' = reversed

RecordOrigin(from, to, tracked, reversed) ==
    IF from \in Reg \/ to \in Reg
    THEN /\ allocs' = [tracked EXCEPT ![to] = from]
         /\ reverse_allocs' = [reversed EXCEPT ![from] = @ \cup {tracked[from]}]
    ELSE /\ allocs' = tracked
         /\ reverse_allocs' = reversed

(* A tracked move records the copy unless both ends are on the stack.      *)
Record(from, to, tracked, reversed) ==
    IF from \in Reg \/ to \in Reg
    THEN /\ allocs' = [tracked EXCEPT ![to] = from]
         /\ reverse_allocs' = [reversed EXCEPT ![from] = @ \cup {to}]
    ELSE /\ allocs' = tracked
         /\ reverse_allocs' = reversed

(* `process_move` on a value that already sits in its destination.         *)
SelfMove(a) ==
    /\ allocs' = [Cleared({a}) EXCEPT ![a] = Orig]
    /\ reverse_allocs' = Drained({a})
    /\ UNCHANGED val

(* `process_move` on an elided move: nothing is emitted.                   *)
ElidedMove(from, to) ==
    /\ Elide(from, to)
    /\ Record(from, to, allocs, reverse_allocs)
    /\ UNCHANGED val

(* `process_move` on a move that is emitted (`edits.add`).                 *)
EmittedMove(from, to) ==
    /\ ~Elide(from, to)
    /\ Record(from, to, Cleared({to}), Drained({to}))
    /\ val' = [val EXCEPT ![to] = val[from]]

(* One resolved move.  A move without a virtual register is one the        *)
(* scratch resolver made up, and never has equal ends.                     *)
ProcessMove(from, to) ==
    /\ req' = [op |-> "move", from |-> from, to |-> to]
    /\ IF from = to
       THEN SelfMove(from)
       ELSE ElidedMove(from, to) \/ EmittedMove(from, to)

(* `redundant_move_process_side_effects` over one instruction that defines *)
(* or clobbers W: those and the dedicated scratch registers are cleared.   *)
SideEffects(W) ==
    LET written == W \cup Scratch IN
    /\ req' = [op |-> "inst", writes |-> written]
    /\ allocs' = Cleared(written)
    /\ reverse_allocs' = Drained(written)
    /\ val' \in [Alloc -> Value]
    /\ \A a \in Alloc \ written : val'[a] = val[a]

(* The next move is in another block: `clear`.                             *)
Clear ==
    /\ req' = [op |-> "boundary"]
    /\ allocs' = [a \in Alloc |-> None]
    /\ reverse_allocs' = [a \in Alloc |-> {}]
    /\ val' \in [Alloc -> Value]

Next ==
    \/ \E from, to \in Alloc : ProcessMove(from, to)
    \/ \E W \in SUBSET Alloc : SideEffects(W)
    \/ Clear

Spec == Init /\ [][Next]_vars
-----------------------------------------------------------------------------
(* Whatever the tracker calls a copy holds the same value as its original, *)
(* however many moves, instructions and invalidations came in between.     *)
CopiesAgree ==
    \A a \in Alloc : allocs[a] \in Alloc => val[a] = val[allocs[a]]

(* Every copy can be found from its original, so overwriting the original  *)
(* in `clear_alloc` cannot miss it.                                        *)
CopiesIndexed ==
    \A a \in Alloc : allocs[a] \in Alloc => a \in reverse_allocs[allocs[a]]

(* Skipping the elided moves cannot be observed: every requested move,     *)
(* emitted or not, leaves the machine as if it had been executed.          *)
ElisionUnobservable == MM!Spec
=============================================================================
