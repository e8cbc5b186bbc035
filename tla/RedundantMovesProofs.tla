------------------------ MODULE RedundantMovesProofs ------------------------
(***************************************************************************)
(* Redundant-move elimination is sound for any set of locations and        *)
(* values: the tracked copies agree, and no elided move can be observed.   *)
(* CopiesAgree alone is not inductive: overwriting a location only forgets *)
(* the copies listed in its reverse map, so the proof carries the fact     *)
(* that every copy is listed there (CopiesIndexed).                        *)
(***************************************************************************)
EXTENDS RedundantMoves, TLAPS

IInv == TypeOK /\ CopiesAgree /\ CopiesIndexed

(* The writes of a step are confined to W, and afterwards W and its listed *)
(* copies are forgotten: the tracker stays right about the rest.           *)
LEMMA ClearKeeps ==
    ASSUME IInv, NEW W \in SUBSET Alloc,
           allocs' = Cleared(W), reverse_allocs' = Drained(W),
           val' \in [Alloc -> Value],
           \A a \in Alloc \ W : val'[a] = val[a]
    PROVE  IInv'
<1>1. TypeOK'
  BY AllocAssumption DEF IInv, TypeOK, Cleared, Drained
<1>2. ASSUME NEW a \in Alloc, allocs'[a] \in Alloc
      PROVE  /\ allocs'[a] = allocs[a]
             /\ a \notin W /\ allocs[a] \notin W
  BY <1>2, AllocAssumption DEF IInv, TypeOK, Cleared, CopiesIndexed
<1>3. CopiesAgree'
  BY <1>2 DEF IInv, CopiesAgree
<1>4. CopiesIndexed'
  BY <1>2 DEF IInv, TypeOK, CopiesIndexed, Drained
<1>. QED  BY <1>1, <1>3, <1>4 DEF IInv

(* Recording `to` as a copy of `from` on top of a sound tracker is sound   *)
(* when the two locations hold the same value.                             *)
LEMMA RecordKeeps ==
    ASSUME IInv, NEW from \in Alloc, NEW to \in Alloc,
           val[to] = val[from], UNCHANGED val,
           Record(from, to, allocs, reverse_allocs)
    PROVE  IInv'
<1>1. TypeOK'
  BY DEF IInv, TypeOK, Record
<1>2. CopiesAgree'
  BY DEF IInv, TypeOK, CopiesAgree, Record
<1>3. CopiesIndexed'
  BY DEF IInv, TypeOK, CopiesIndexed, Record
<1>. QED  BY <1>1, <1>2, <1>3 DEF IInv

(* An elided move's destination already holds the source's value.          *)
LEMMA ElideAgrees ==
    ASSUME IInv, NEW from \in Alloc, NEW to \in Alloc, Elide(from, to)
    PROVE  val[to] = val[from]
BY DEF IInv, CopiesAgree, Elide

(* A move to itself forgets the location and its copies. *)
LEMMA SelfMoveKeeps ==
    ASSUME IInv, NEW a \in Alloc, SelfMove(a)
    PROVE  IInv'
<1>1. /\ UNCHANGED val
      /\ allocs' = [Cleared({a}) EXCEPT ![a] = Orig]
      /\ reverse_allocs' = Drained({a})
  BY DEF SelfMove
<1>2. TypeOK'
  BY <1>1, AllocAssumption DEF IInv, TypeOK, Cleared, Drained
<1>3. ASSUME NEW b \in Alloc, allocs'[b] \in Alloc
      PROVE  /\ allocs'[b] = allocs[b]
             /\ b # a /\ allocs[b] # a
  BY <1>1, <1>3, AllocAssumption DEF IInv, TypeOK, Cleared, CopiesIndexed
<1>4. CopiesAgree'
  BY <1>1, <1>3 DEF IInv, CopiesAgree
<1>5. CopiesIndexed'
  BY Zenon, <1>1, <1>3 DEF IInv, TypeOK, CopiesIndexed, Drained
<1>. QED  BY <1>2, <1>4, <1>5 DEF IInv

(* A move that is emitted forgets the destination and records the copy. *)
LEMMA EmittedKeeps ==
    ASSUME IInv, NEW from \in Alloc, NEW to \in Alloc, from # to,
           EmittedMove(from, to)
    PROVE  IInv'
<1>. DEFINE tracked == Cleared({to})
            reversed == Drained({to})
<1>1. /\ val' = [val EXCEPT ![to] = val[from]]
      /\ Record(from, to, tracked, reversed)
  BY DEF EmittedMove
<1>2. /\ tracked \in [Alloc -> Alloc \cup {None, Orig}]
      /\ reversed \in [Alloc -> SUBSET Alloc]
  BY DEF IInv, TypeOK, Cleared, Drained
<1>3. ASSUME NEW a \in Alloc, tracked[a] \in Alloc
      PROVE  /\ a # to /\ tracked[a] # to
             /\ val[a] = val[tracked[a]]
             /\ a \in reversed[tracked[a]]
  BY <1>3, AllocAssumption DEF IInv, TypeOK, CopiesAgree, CopiesIndexed, Cleared, Drained
<1>. HIDE DEF tracked, reversed
<1>4. TypeOK'
  <2>1. allocs' \in [Alloc -> Alloc \cup {None, Orig}]
    BY <1>1, <1>2 DEF Record
  <2>2. reverse_allocs' \in [Alloc -> SUBSET Alloc]
    BY <1>1, <1>2 DEF Record
  <2>3. val' \in [Alloc -> Value]
    BY <1>1 DEF IInv, TypeOK
  <2>. QED  BY <2>1, <2>2, <2>3 DEF TypeOK
<1>5. CopiesAgree'
  <2>1. SUFFICES ASSUME NEW a \in Alloc, allocs'[a] \in Alloc
                 PROVE  val'[a] = val'[allocs'[a]]
    BY DEF CopiesAgree
  <2>2. CASE a = to /\ allocs'[a] = from
    BY <1>1, <2>2 DEF IInv, TypeOK
  <2>3. CASE allocs'[a] = tracked[a]
    BY <1>1, <1>3, <2>1, <2>3 DEF IInv, TypeOK
  <2>. QED  BY <1>1, <1>2, <2>2, <2>3 DEF Record
<1>6. CopiesIndexed'
  BY <1>1, <1>2, <1>3 DEF CopiesIndexed, Record
<1>. QED  BY <1>4, <1>5, <1>6 DEF IInv

(* The invariant is inductive: one case per operation of the eliminator.   *)
LEMMA NextKeeps == IInv /\ [Next]_vars => IInv'
<1>. SUFFICES ASSUME IInv, [Next]_vars  PROVE IInv'
  OBVIOUS
<1>1. ASSUME NEW from \in Alloc, NEW to \in Alloc, ProcessMove(from, to)
      PROVE  IInv'
  <2>1. CASE from = to
    BY <1>1, <2>1, SelfMoveKeeps DEF ProcessMove
  <2>2. CASE from # to /\ ElidedMove(from, to)
    BY <2>2, ElideAgrees, RecordKeeps DEF ElidedMove
  <2>3. CASE from # to /\ EmittedMove(from, to)
    BY <2>3, EmittedKeeps
  <2>. QED  BY <1>1, <2>1, <2>2, <2>3 DEF ProcessMove
<1>2. ASSUME NEW W \in SUBSET Alloc, SideEffects(W)
      PROVE  IInv'
  <2>1. W \cup Scratch \in SUBSET Alloc
    BY AllocAssumption
  <2>. QED  BY <1>2, <2>1, ClearKeeps DEF SideEffects
<1>3. CASE Clear
  BY <1>3, AllocAssumption DEF Clear, IInv, TypeOK, CopiesAgree, CopiesIndexed
<1>4. CASE UNCHANGED vars
  BY <1>4 DEF vars, IInv, TypeOK, CopiesAgree, CopiesIndexed
<1>. QED  BY <1>1, <1>2, <1>3, <1>4 DEF Next

(* Nothing is tracked at first. *)
LEMMA InitEstablishes == Init => IInv
BY AllocAssumption DEF Init, MM!Init, IInv, TypeOK, CopiesAgree, CopiesIndexed

(* In every execution of the eliminator the locations it calls copies hold *)
(* equal values (`RedundantMoveState::Copy`), whatever moves, instructions *)
(* and block boundaries came before.                                       *)
THEOREM CopiesAlwaysAgree == Spec => []CopiesAgree
<1>1. IInv => CopiesAgree
  BY DEF IInv
<1>. QED  BY <1>1, InitEstablishes, NextKeeps, PTL DEF Spec

(* The table and the reverse index are tables of locations throughout:     *)
(* `process_move` and `clear_alloc` never record a copy of something that  *)
(* is not one.                                                             *)
THEOREM TypeCorrect == Spec => []TypeOK
<1>1. IInv => TypeOK
  BY DEF IInv
<1>. QED  BY <1>1, InitEstablishes, NextKeeps, PTL DEF Spec

(* Types, and the completeness of the reverse index `clear_alloc` relies   *)
(* on, hold in every execution.                                            *)
THEOREM TrackerIndexed == Spec => [](TypeOK /\ CopiesIndexed)
<1>1. IInv => TypeOK /\ CopiesIndexed
  BY DEF IInv
<1>. QED  BY <1>1, InitEstablishes, NextKeeps, PTL DEF Spec

(* `process_move` may drop a move without anyone noticing: the machine     *)
(* that skips the elided moves implements the one that executes every      *)
(* requested move.                                                         *)
THEOREM EliminationRefines == Spec => ElisionUnobservable
<1>1. Init => MM!Init
  BY DEF Init
<1>2. IInv /\ [Next]_vars => [MM!Next]_<<val, req>>
  <2>. SUFFICES ASSUME IInv, [Next]_vars  PROVE [MM!Next]_<<val, req>>
    OBVIOUS
  <2>1. ASSUME NEW from \in Alloc, NEW to \in Alloc, ProcessMove(from, to)
        PROVE  MM!Move(from, to)
    <3>1. CASE from = to
      BY <2>1, <3>1 DEF ProcessMove, SelfMove, MM!Move, IInv, TypeOK
    <3>2. CASE from # to /\ ElidedMove(from, to)
      <4>1. val[to] = val[from] /\ UNCHANGED val
        BY <3>2, ElideAgrees DEF ElidedMove
      <4>. QED  BY <2>1, <4>1 DEF ProcessMove, MM!Move, IInv, TypeOK
    <3>3. CASE from # to /\ EmittedMove(from, to)
      BY <2>1, <3>3 DEF ProcessMove, EmittedMove, MM!Move
    <3>. QED  BY <2>1, <3>1, <3>2, <3>3 DEF ProcessMove
  <2>2. ASSUME NEW W \in SUBSET Alloc, SideEffects(W)
        PROVE  MM!Inst(W \cup Scratch)
    BY <2>2 DEF SideEffects, MM!Inst
  <2>3. Clear => MM!Boundary
    BY DEF Clear, MM!Boundary
  <2>4. UNCHANGED vars => UNCHANGED <<val, req>>
    BY DEF vars
  <2>5. \A W \in SUBSET Alloc : W \cup Scratch \in SUBSET Alloc
    BY AllocAssumption
  <2>. QED  BY Zenon, <2>1, <2>2, <2>3, <2>4, <2>5 DEF Next, MM!Next
<1>. QED
  BY <1>1, <1>2, InitEstablishes, NextKeeps, PTL
     DEF Spec, ElisionUnobservable, MM!Spec

=============================================================================
