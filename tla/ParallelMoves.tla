---------------------------- MODULE ParallelMoves ---------------------------
(***************************************************************************)
(* `ParallelMoves::resolve` of taki_mir/src/reg_alloc/moves.rs: a set of   *)
(* moves that happen in parallel is put into an order in which they can be *)
(* done one at a time, with one scratch location breaking each cycle.      *)
(*                                                                         *)
(* A location is a number, ordered as `Allocation::bits` orders them.  The *)
(* loop of `resolve` is a depth-first walk: every iteration is an action.  *)
(* The result is kept reversed from the start (the code reverses it at the *)
(* end), so pushing on `ret` prepends here.                                *)
(***************************************************************************)
EXTENDS Integers, Sequences, FiniteSets, Functions

CONSTANT Loc   \* the locations a move may name

ASSUME LocAssumption == Loc \subseteq Nat \ {0} /\ IsFiniteSet(Loc)

VARIABLES parallel_moves,  \* the moves, sorted by destination
          state,           \* one of "ToDo", "Pending", "Done" for every move
          stack,           \* the indices of the moves being followed
          ret,             \* the resolved moves
          scratch_used,
          group            \* history: the moves as they were added

pvars == <<parallel_moves, state, stack, ret, scratch_used, group>>

NoLoc == 0       \* Allocation::none(): the scratch location, not chosen yet
NONE  == 0       \* must_come_before of a move nothing waits for

Move == [src : Loc, dst : Loc]

(* The moves on the stack are the pending ones, each of them once. *)
TypeOK ==
    /\ parallel_moves \in Seq(Move)
    /\ state \in [DOMAIN parallel_moves -> {"ToDo", "Pending", "Done"}]
    /\ stack \in Seq(DOMAIN parallel_moves)
    /\ IsInjective(stack)
    /\ Range(stack) = {i \in DOMAIN state : state[i] = "Pending"}
    /\ ret \in Seq([src : Loc \cup {NoLoc}, dst : Loc \cup {NoLoc}])
    /\ scratch_used \in BOOLEAN
-----------------------------------------------------------------------------
(* A group of moves is a function from the destinations to the sources:    *)
(* no location is written twice.  `resolve` sorts it by destination, drops *)
(* duplicates, and drops the moves that go nowhere.                        *)
Rank(d, dsts) == Cardinality({e \in dsts : e <= d})
Sorted(dsts) ==
    [i \in 1 .. Cardinality(dsts) |-> CHOOSE d \in dsts : Rank(d, dsts) = i]

(* Mutated form: a move that goes nowhere is kept. *)
EffectiveAll(g) == DOMAIN g

Effective(g) ==
    IF Cardinality(DOMAIN g) <= 1 THEN DOMAIN g
    ELSE {d \in DOMAIN g : g[d] # d}

MovesOf(g) ==
    LET order == Sorted(Effective(g))
    IN [i \in DOMAIN order |-> [src |-> g[order[i]], dst |-> order[i]]]

(* `sources_overlap_dests` *)
Overlapping(g) ==
    /\ Cardinality(DOMAIN g) > 1
    /\ \E d \in Effective(g) : g[d] \in Effective(g)

(* `resolve` up to its loop: moves that cannot disturb each other are      *)
(* returned as they are.                                                   *)
Start(g) ==
    /\ group' = g
    /\ parallel_moves' = MovesOf(g)
    /\ state' = [i \in DOMAIN MovesOf(g) |->
                    IF Overlapping(g) THEN "ToDo" ELSE "Done"]
    /\ stack' = <<>>
    /\ ret' = IF Overlapping(g) THEN <<>> ELSE MovesOf(g)
    /\ scratch_used' = FALSE

(* The move that writes what move i reads: it comes after i in the result, *)
(* so it is followed first.                                                *)
must_come_before(i) ==
    LET writers == {j \in DOMAIN parallel_moves :
                       parallel_moves[j].dst = parallel_moves[i].src}
    IN IF writers = {} THEN NONE ELSE CHOOSE j \in writers : TRUE

top == stack[Len(stack)]
next == must_come_before(top)

ToDo == {i \in DOMAIN parallel_moves : state[i] = "ToDo"}

(* The next move that nothing has reached yet. *)
Root ==
    /\ stack = <<>> /\ ToDo # {}
    /\ LET first == CHOOSE i \in ToDo : \A j \in ToDo : i <= j
       IN /\ stack' = <<first>>
          /\ state' = [state EXCEPT ![first] = "Pending"]
    /\ UNCHANGED <<parallel_moves, ret, scratch_used, group>>

(* Mutated form: the writer is not put on the stack. *)
DescendInPlace ==
    /\ stack # <<>> /\ next # NONE /\ state[next] = "ToDo"
    /\ UNCHANGED pvars

(* The writer of the source is not placed yet: follow it. *)
Descend ==
    /\ stack # <<>> /\ next # NONE /\ state[next] = "ToDo"
    /\ stack' = Append(stack, next)
    /\ state' = [state EXCEPT ![next] = "Pending"]
    /\ UNCHANGED <<parallel_moves, ret, scratch_used, group>>

AllDone(S) == [i \in DOMAIN state |-> IF i \in S THEN "Done" ELSE state[i]]
MovesAt(s) == [i \in DOMAIN s |-> parallel_moves[s[i]]]

(* Mutated form: of the moves that are placed only one is marked. *)
UnwindTop ==
    /\ stack # <<>> /\ (next = NONE \/ (next # NONE /\ state[next] = "Done"))
    /\ ret' = MovesAt(stack) \o ret
    /\ state' = AllDone({top})
    /\ stack' = <<>>
    /\ UNCHANGED <<parallel_moves, scratch_used, group>>

(* No writer, or one that is placed: the whole stack can be placed. *)
Unwind ==
    /\ stack # <<>> /\ (next = NONE \/ (next # NONE /\ state[next] = "Done"))
    /\ ret' = MovesAt(stack) \o ret
    /\ state' = AllDone(Range(stack))
    /\ stack' = <<>>
    /\ UNCHANGED <<parallel_moves, scratch_used, group>>

(* Mutated form: the cycle's last source is read after it was overwritten. *)
BreakCycleLate ==
    /\ stack # <<>> /\ next # NONE /\ state[next] = "Pending"
    /\ LET first == CHOOSE k \in DOMAIN stack : stack[k] = next
           last  == parallel_moves[top]
       IN /\ ret' = MovesAt(SubSeq(stack, first, Len(stack) - 1))
                    \o <<[src |-> last.src, dst |-> NoLoc],
                         [src |-> NoLoc, dst |-> last.dst]>> \o ret
          /\ state' = AllDone(Range(SubSeq(stack, first, Len(stack))))
          /\ stack' = SubSeq(stack, 1, first - 1)
    /\ scratch_used' = TRUE
    /\ UNCHANGED <<parallel_moves, group>>

(* The walk came back to a move on the stack: a cycle.  The last source is *)
(* saved in the scratch location before the others move, and restored      *)
(* from it into the last destination.  What led into the cycle stays on    *)
(* the stack.                                                              *)
BreakCycle ==
    /\ stack # <<>> /\ next # NONE /\ state[next] = "Pending"
    /\ LET first == CHOOSE k \in DOMAIN stack : stack[k] = next
           last  == parallel_moves[top]
       IN /\ ret' = <<[src |-> last.src, dst |-> NoLoc]>>
                    \o MovesAt(SubSeq(stack, first, Len(stack) - 1))
                    \o <<[src |-> NoLoc, dst |-> last.dst]>> \o ret
          /\ state' = AllDone(Range(SubSeq(stack, first, Len(stack))))
          /\ stack' = SubSeq(stack, 1, first - 1)
    /\ scratch_used' = TRUE
    /\ UNCHANGED <<parallel_moves, group>>

Step == Root \/ Descend \/ Unwind \/ BreakCycle

Resolved == stack = <<>> /\ ToDo = {}

Groups == UNION {[dsts -> Loc] : dsts \in SUBSET Loc}
NoMoves == <<>>

Init ==
    /\ group = NoMoves /\ parallel_moves = <<>> /\ state = <<>>
    /\ stack = <<>> /\ ret = <<>> /\ scratch_used = FALSE

(* The next group gets a resolver of its own. *)
Reset == Start(NoMoves)

(* The group is added, resolved and returned. *)
Next ==
    \/ group = NoMoves /\ \E g \in Groups \ {NoMoves} : Start(g)
    \/ Step
    \/ group # NoMoves /\ Resolved /\ UNCHANGED pvars

Spec == Init /\ [][Next]_pvars /\ WF_pvars(Step)
-----------------------------------------------------------------------------
(* The contents of every location after the moves of s, one at a time.     *)
Moved(v, m) == [v EXCEPT ![m.dst] = v[m.src]]

Perform(s, val) ==
    LET after[n \in 0 .. Len(s)] ==
            IF n = 0 THEN val ELSE Moved(after[n - 1], s[n])
    IN after[Len(s)]

Untouched == [l \in Loc \cup {NoLoc} |-> l]

(* A resolved group moves every source, as it was before the first move,   *)
(* to its destination, and disturbs no other location.                     *)
ResolvedInParallel ==
    Resolved =>
        \A l \in Loc : Perform(ret, Untouched)[l] =
                       IF l \in DOMAIN group THEN group[l] ELSE l

(* The scratch location is asked for exactly when the moves form a cycle   *)
(* that has more than one location.                                        *)
CycleFrom(l) ==
    LET at[n \in 0 .. Cardinality(Loc)] ==
            IF n = 0 THEN l
            ELSE IF at[n - 1] \in DOMAIN group THEN group[at[n - 1]] ELSE NoLoc
    IN group[l] # l /\ \E n \in 1 .. Cardinality(Loc) : at[n] = l

ScratchOnlyForCycles ==
    Resolved => (scratch_used <=> \E l \in DOMAIN group : CycleFrom(l))

(* The walk ends for every group: each iteration of the loop follows or    *)
(* places at least one move.                                               *)
ResolveReturns == (group # NoMoves) ~> Resolved
=============================================================================
