---------------------------- MODULE MoveMachine ----------------------------
(***************************************************************************)
(* What the allocator's edits promise: a machine whose locations (physical *)
(* registers and stack slots) change only as the program asked.  A         *)
(* requested move really happens; an instruction overwrites the locations  *)
(* it writes with anything at all and leaves the others alone; a block     *)
(* boundary forgets every location, because control may arrive from        *)
(* another predecessor.                                                    *)
(***************************************************************************)
CONSTANTS Alloc,     \* the locations (`Allocation`)
          Value      \* what a location can hold

VARIABLES val,       \* val[a]: the contents of location a
          req        \* the last request: a move, an instruction, a boundary

Start == [op |-> "start"]

Init == /\ val \in [Alloc -> Value]
        /\ req = Start

Move(from, to) ==
    /\ req' = [op |-> "move", from |-> from, to |-> to]
    /\ val' = [val EXCEPT ![to] = val[from]]

\* W: the locations an instruction defines or clobbers.
Inst(W) ==
    /\ req' = [op |-> "inst", writes |-> W]
    /\ val' \in [Alloc -> Value]
    /\ \A a \in Alloc \ W : val'[a] = val[a]

Boundary ==
    /\ req' = [op |-> "boundary"]
    /\ val' \in [Alloc -> Value]

Next ==
    \/ \E from, to \in Alloc : Move(from, to)
    \/ \E W \in SUBSET Alloc : Inst(W)
    \/ Boundary

Spec == Init /\ [][Next]_<<val, req>>
=============================================================================
