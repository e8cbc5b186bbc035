--------------------------- MODULE EditMovesProofs --------------------------
(***************************************************************************)
(* A group of parallel moves has its effect on the machine, for any        *)
(* registers, slots and groups.  The scratch location's and the borrowed   *)
(* register's part is taken from MoveScratchProofs, the eliminator's from  *)
(* RedundantMovesProofs; the resolver's invariant, proved of ParallelMoves *)
(* alone, is carried over to the composition.  The invariant that joins    *)
(* them says that what is left of the edits leads from the machine as it   *)
(* is to the machine the group asks for.                                   *)
(***************************************************************************)
EXTENDS EditMoves, MoveScratchProofs

RMP == INSTANCE RedundantMovesProofs
         WITH Reg <- Regs \cup Dedicated, Scratch <- Dedicated,
              None <- Unknown, Orig <- Original, req <- pc

(* The free registers are registers, each of them once, and none that the  *)
(* group names.                                                            *)
FreeDistinct == \A i, j \in DOMAIN free_regs : free_regs[i] = free_regs[j] => i = j
FreeOfGroup == \A r \in Offered : r \notin DOMAIN group /\ r \notin Range(group)
FreeInv == FreeTyped /\ FreeDistinct /\ FreeOfGroup

(* What the group asks of the location l, and edits that do it. *)
Asked(l) == before[IF l \in DOMAIN group THEN group[l] ELSE l]
GroupReached(s) ==
    \E w \in Machine(Value) :
        /\ Reaches(s, Value, val, w)
        /\ \A l \in Loc \ Offered : w[l] = Asked(l)

(* An access to a slot leaves the registers alone: no slot is out of the   *)
(* range of an immediate, or an address is computed in registers that are  *)
(* not allocated.                                                          *)
AddressesApart == Far = {} \/ AddressTemp \cap Alloc = {}

(* The groups are within their bound. *)
GroupsInv ==
    /\ pc \in {"idle", "resolve", "edits"}
    /\ groups \in 0 .. MaxGroups
    /\ pc # "idle" => groups < MaxGroups

EffectInv ==
    /\ RMP!IInv
    /\ pc = "resolve" => before = val
    /\ pc = "edits" => GroupReached(edits)

(* Whatever the expansion of an edit writes: types, free registers that    *)
(* the group does not name, and edits that use a register.                 *)
ShapeInv ==
    /\ RM!TypeOK
    /\ FreeInv
    /\ edits \in Seq(RegEdit)
    /\ GroupsInv
    /\ pc = "resolve" => before = val

(* What the proof takes from the resolver: the order it sorts in lists     *)
(* every register once, and its result can be completed.                   *)
SortedLists ==
    \A S \in SUBSET Regs : \E n \in Nat :
        /\ PM!Sorted(S) \in [1 .. n -> S]
        /\ \A i, j \in 1 .. n : PM!Sorted(S)[i] = PM!Sorted(S)[j] => i = j

Completes == Compute \in Seq(RegEdit) /\ GroupReached(Compute)

-----------------------------------------------------------------------------
(* The allocations are as the eliminator expects them. *)
LEMMA AllocFacts == RMP!AllocAssumption
BY ScratchAssumption DEF RMP!AllocAssumption, Unknown, Original, Alloc, Loc

(* Every value that a step writes is a value. *)
LEMMA ValueFacts ==
    /\ Address \in Value /\ \A a \in Alloc : a \in Value /\ Fresh(a) \in Value
BY DEF Value

(* An expanded move leaves values in the machine. *)
LEMMA ExpandedType ==
    ASSUME val \in Machine(Value), NEW m \in Edit
    PROVE  Expanded(m) \in Machine(Value)
<1> DEFINE addressed == [a \in Alloc |->
                           IF {m.src, m.dst} \cap Far # {} /\ a \in AddressTemp
                           THEN Address ELSE val[a]]
<1>1. addressed \in Machine(Value)
  BY ValueFacts DEF Machine
<1>2. m.src \in Alloc /\ m.dst \in Alloc
  BY DEF Edit
<1>3. Expanded(m) = [addressed EXCEPT ![m.dst] = addressed[m.src]]
  BY DEF Expanded
<1> HIDE DEF addressed
<1> QED BY <1>1, <1>2, <1>3 DEF Machine

(* Where addresses are apart it is the move. *)
LEMMA ExpandedMove ==
    ASSUME AddressesApart, val \in Machine(Value), NEW m \in Edit
    PROVE  Expanded(m) = Copied(val, m)
<1> DEFINE addressed == [a \in Alloc |->
                           IF {m.src, m.dst} \cap Far # {} /\ a \in AddressTemp
                           THEN Address ELSE val[a]]
<1>1. \A a \in Alloc : ~({m.src, m.dst} \cap Far # {} /\ a \in AddressTemp)
  BY DEF AddressesApart
<1>2. addressed = val
  <2>1. val = [a \in Alloc |-> val[a]]
    BY DEF Machine
  <2>2. addressed = [a \in Alloc |-> val[a]]
    BY <1>1
  <2> QED BY <2>1, <2>2
<1>3. Expanded(m) = [addressed EXCEPT ![m.dst] = addressed[m.src]]
  BY DEF Expanded
<1> HIDE DEF addressed
<1> QED BY <1>2, <1>3 DEF Copied

(* The tracker keeps its type under each of the updates of a step. *)
LEMMA RecordType ==
    ASSUME NEW from \in Alloc, NEW to \in Alloc,
           NEW t \in [Alloc -> Alloc \cup {Unknown, Original}],
           NEW r \in [Alloc -> SUBSET Alloc], RM!Record(from, to, t, r)
    PROVE  /\ allocs' \in [Alloc -> Alloc \cup {Unknown, Original}]
           /\ reverse_allocs' \in [Alloc -> SUBSET Alloc]
<1>1. CASE from \in Regs \cup Dedicated \/ to \in Regs \cup Dedicated
  <2>1. /\ allocs' = [t EXCEPT ![to] = from]
        /\ reverse_allocs' = [r EXCEPT ![from] = @ \cup {to}]
    BY <1>1 DEF RM!Record
  <2> QED BY <2>1
<1>2. CASE ~(from \in Regs \cup Dedicated \/ to \in Regs \cup Dedicated)
  BY <1>2 DEF RM!Record
<1> QED BY <1>1, <1>2

(* Forgetting copies keeps the types of the tracker. *)
LEMMA ClearType ==
    ASSUME RM!TypeOK, NEW S \in SUBSET Alloc
    PROVE  /\ RM!Cleared(S) \in [Alloc -> Alloc \cup {Unknown, Original}]
           /\ RM!Drained(S) \in [Alloc -> SUBSET Alloc]
BY DEF RM!TypeOK, RM!Cleared, RM!Drained

(* The three cases of `process_move` for the edit m. *)
Processed(m) ==
    \/ m.src = m.dst /\ RM!SelfMove(m.dst)
    \/ m.src # m.dst /\ RM!ElidedMove(m.src, m.dst)
    \/ /\ m.src # m.dst /\ ~RM!Elide(m.src, m.dst)
       /\ RM!Record(m.src, m.dst, RM!Cleared({m.dst}), RM!Drained({m.dst}))
       /\ val' = Expanded(m)

(* An edit keeps the types of the tracker and of the machine. *)
LEMMA ProcessedType ==
    ASSUME RM!TypeOK, NEW m \in Edit, Processed(m)
    PROVE  RM!TypeOK'
<1>1. /\ m.src \in Alloc /\ m.dst \in Alloc /\ {m.dst} \in SUBSET Alloc
      /\ val \in Machine(Value)
      /\ allocs \in [Alloc -> Alloc \cup {Unknown, Original}]
      /\ reverse_allocs \in [Alloc -> SUBSET Alloc]
  BY DEF Edit, RM!TypeOK, Machine
<1> DEFINE t == RM!Cleared({m.dst})
           r == RM!Drained({m.dst})
<1>2. t \in [Alloc -> Alloc \cup {Unknown, Original}] /\ r \in [Alloc -> SUBSET Alloc]
  BY <1>1, ClearType
<1>3. CASE RM!SelfMove(m.dst)
  <2>1. allocs' = [t EXCEPT ![m.dst] = Original] /\ reverse_allocs' = r /\ val' = val
    BY <1>3 DEF RM!SelfMove
  <2> HIDE DEF t, r
  <2> QED BY <1>1, <1>2, <2>1 DEF RM!TypeOK, Machine
<1>4. CASE RM!ElidedMove(m.src, m.dst)
  <2>1. RM!Record(m.src, m.dst, allocs, reverse_allocs) /\ val' = val
    BY <1>4 DEF RM!ElidedMove
  <2>2. /\ allocs' \in [Alloc -> Alloc \cup {Unknown, Original}]
        /\ reverse_allocs' \in [Alloc -> SUBSET Alloc]
    BY <1>1, <2>1, RecordType
  <2> QED BY <1>1, <2>1, <2>2 DEF RM!TypeOK, Machine
<1>5. CASE RM!Record(m.src, m.dst, t, r) /\ val' = Expanded(m)
  <2> HIDE DEF t, r
  <2>1. /\ allocs' \in [Alloc -> Alloc \cup {Unknown, Original}]
        /\ reverse_allocs' \in [Alloc -> SUBSET Alloc]
    BY <1>1, <1>2, <1>5, RecordType
  <2>2. val' \in Machine(Value)
    BY <1>1, <1>5, ExpandedType
  <2> QED BY <2>1, <2>2 DEF RM!TypeOK, Machine
<1> QED BY <1>3, <1>4, <1>5 DEF Processed

(* Elided or emitted, an edit does the move. *)
LEMMA ProcessedMoves ==
    ASSUME AddressesApart, RMP!IInv, NEW m \in Edit, Processed(m)
    PROVE  RMP!IInv' /\ val' = Copied(val, m)
<1>1. /\ m.src \in Alloc /\ m.dst \in Alloc /\ val \in Machine(Value)
      /\ val \in [Alloc -> Value]
  BY DEF Edit, RMP!IInv, RMP!TypeOK, Machine
<1>2. CASE m.src = m.dst /\ RM!SelfMove(m.dst)
  <2>1. RMP!SelfMove(m.dst) /\ val' = val
    BY <1>2 DEF RM!SelfMove, RMP!SelfMove, RM!Cleared, RMP!Cleared, RM!Drained, RMP!Drained
  <2>2. RMP!IInv'
    BY <1>1, <2>1, AllocFacts, RMP!SelfMoveKeeps
  <2>3. Copied(val, m) = val
    BY <1>1, <1>2 DEF Copied
  <2> QED BY <2>1, <2>2, <2>3
<1>3. CASE m.src # m.dst /\ RM!ElidedMove(m.src, m.dst)
  <2>1. RMP!Elide(m.src, m.dst) /\ RMP!Record(m.src, m.dst, allocs, reverse_allocs)
        /\ val' = val
    BY <1>3 DEF RM!ElidedMove, RM!Elide, RMP!Elide, RM!Record, RMP!Record
  <2>2. val[m.dst] = val[m.src]
    BY <1>1, <2>1, AllocFacts, RMP!ElideAgrees
  <2>3. RMP!IInv'
    BY <1>1, <2>1, <2>2, AllocFacts, RMP!RecordKeeps
  <2>4. Copied(val, m) = val
    BY <1>1, <2>2 DEF Copied
  <2> QED BY <2>1, <2>3, <2>4
<1>4. CASE /\ m.src # m.dst /\ ~RM!Elide(m.src, m.dst)
           /\ RM!Record(m.src, m.dst, RM!Cleared({m.dst}), RM!Drained({m.dst}))
           /\ val' = Expanded(m)
  <2>1. val' = Copied(val, m)
    BY <1>1, <1>4, ExpandedMove
  <2>2. RMP!EmittedMove(m.src, m.dst)
    BY <1>4, <2>1 DEF Copied, RMP!EmittedMove, RM!Elide, RMP!Elide, RM!Record, RMP!Record,
       RM!Cleared, RMP!Cleared, RM!Drained, RMP!Drained
  <2>3. RMP!IInv'
    BY <1>1, <1>4, <2>2, AllocFacts, RMP!EmittedKeeps
  <2> QED BY <2>1, <2>3
<1> QED BY <1>2, <1>3, <1>4 DEF Processed

(* The edits that are left still lead to the machine the group asks for. *)
LEMMA ApplyEffect ==
    ASSUME AddressesApart, EffectInv, edits \in Seq(RegEdit), ApplyEdit
    PROVE  EffectInv'
<1> DEFINE m == Head(edits)
<1>1. /\ pc = "edits" /\ edits # <<>> /\ Processed(m)
      /\ edits' = Tail(edits) /\ pc' = pc /\ free_regs' = free_regs /\ before' = before
      /\ group' = group
  BY DEF ApplyEdit, Processed, pmvars
<1>2. m \in Edit /\ edits \in Seq(Edit)
  BY <1>1, RegEdits
<1>3. RMP!IInv /\ GroupReached(edits)
  BY <1>1 DEF EffectInv
<1>4. RMP!IInv' /\ val' = Copied(val, m)
  BY <1>1, <1>2, <1>3, ProcessedMoves
<1>5. PICK w \in Machine(Value) :
         Reaches(edits, Value, val, w) /\ \A l \in Loc \ Offered : w[l] = Asked(l)
  BY <1>3 DEF GroupReached
<1>6. Reaches(edits', Value, val', w)
  BY <1>1, <1>2, <1>4, <1>5, ReachesTail
<1>7. \A l \in Loc \ Offered' : w[l] = Asked(l)'
  BY <1>1, <1>5 DEF Offered, Asked
<1>8. GroupReached(edits)'
  BY <1>6, <1>7 DEF GroupReached
<1> QED BY <1>1, <1>4, <1>8 DEF EffectInv

(* An instruction invalidates what it writes. *)
LEMMA InstructionKeeps ==
    ASSUME RM!TypeOK, NEW l \in Loc, Instruction({l})
    PROVE  RM!TypeOK' /\ (RMP!IInv => RMP!IInv')
<1> DEFINE S == {l} \cup Dedicated
           t == RM!Cleared(S)
           r == RM!Drained(S)
<1>1. S \in SUBSET Alloc
  BY DEF Alloc
<1>2. /\ allocs' = t /\ reverse_allocs' = r
      /\ val' = [a \in Alloc |-> IF a \in S THEN Fresh(a) ELSE val[a]]
  BY DEF Instruction
<1>3. t \in [Alloc -> Alloc \cup {Unknown, Original}] /\ r \in [Alloc -> SUBSET Alloc]
  BY <1>1, ClearType
<1>4. val' \in [Alloc -> Value] /\ \A a \in Alloc \ S : val'[a] = val[a]
  BY <1>2, ValueFacts DEF RM!TypeOK
<1>5. RM!TypeOK'
  <2> HIDE DEF t, r
  <2> QED BY <1>2, <1>3, <1>4 DEF RM!TypeOK
<1>6. allocs' = RMP!Cleared(S) /\ reverse_allocs' = RMP!Drained(S)
  BY <1>2 DEF RM!Cleared, RMP!Cleared, RM!Drained, RMP!Drained
<1> HIDE DEF S
<1>7. RMP!IInv => RMP!IInv'
  BY <1>1, <1>4, <1>6, AllocFacts, RMP!ClearKeeps
<1> QED BY <1>5, <1>7

(* What the resolved moves do to the locations the edits do to the machine. *)
LEMMA ReplaceReaches ==
    ASSUME ResolvedWell, val \in Machine(Value), before = val,
           NEW v, CellRun(v, Value, val),
           \A l \in Loc : v[Len(ret)][l] = val[IF l \in DOMAIN group THEN group[l] ELSE l]
    PROVE  Compute \in Seq(RegEdit) /\ GroupReached(Compute)
<1>1. Compute \in Seq(RegEdit) /\ AppliesTo(Compute, Value, val, v)
  BY ComputeApplies
<1>2. PICK w \in Machine(Value) :
         /\ Reaches(Compute, Value, val, w)
         /\ \A l \in Loc \ Offered : w[l] = v[Len(ret)][l]
  BY <1>1 DEF AppliesTo
<1>3. \A l \in Loc \ Offered : w[l] = Asked(l)
  BY <1>2 DEF Asked
<1> QED BY <1>1, <1>2, <1>3 DEF GroupReached

(* Nothing changes for the free registers. *)
LEMMA FreeSame ==
    ASSUME FreeInv, free_regs' = free_regs, group' = group
    PROVE  FreeInv'
BY DEF FreeInv, FreeTyped, FreeDistinct, FreeOfGroup, Offered

(* Nothing changes for the tracker. *)
LEMMA TrackerSame ==
    ASSUME UNCHANGED rmvars
    PROVE  (RM!TypeOK => RM!TypeOK') /\ (RMP!IInv => RMP!IInv')
BY DEF rmvars, RM!TypeOK, RMP!IInv, RMP!TypeOK, RMP!CopiesAgree, RMP!CopiesIndexed

(* A new group is offered registers that it does not name. *)
LEMMA AddGroupShape ==
    ASSUME ShapeInv, pc = "idle", groups < MaxGroups, NEW g \in BoundedGroups,
           NEW d \in {<<>>} \cup {<<r>> : r \in Dedicated}, NEW unused \in SUBSET Regs,
           SortedLists, AddGroup(g, d, unused)
    PROVE  ShapeInv'
<1>1. /\ unused \cap (DOMAIN g \cup Range(g)) = {} /\ PM!Start(g)
      /\ free_regs' = d \o PM!Sorted(unused) /\ before' = val /\ pc' = "resolve"
      /\ UNCHANGED rmvars /\ edits' = edits /\ groups' = groups
  BY DEF AddGroup
<1>2. g \in PM!Groups
  BY DEF BoundedGroups
<1>4. group' = g /\ val' = val
  BY <1>1 DEF PM!Start, rmvars
<1>5. RM!TypeOK'
  BY <1>1, TrackerSame DEF ShapeInv
<1> DEFINE s == PM!Sorted(unused)
<1>6. PICK n \in Nat : /\ s \in [1 .. n -> unused]
                       /\ \A i, j \in 1 .. n : s[i] = s[j] => i = j
  BY DEF SortedLists
<1> DEFINE f == free_regs'
<1>7. f = d \o s
  BY <1>1
<1> HIDE DEF s, f
<1>8. /\ f \in Seq(Regs \cup Dedicated)
      /\ \A i, j \in DOMAIN f : f[i] = f[j] => i = j
      /\ \A i \in DOMAIN f : f[i] \in Dedicated \/ f[i] \in unused
  BY <1>6, <1>7, OfferedFacts, ZenonT(60)
<1>9. \A r \in Dedicated \cup unused : r \notin DOMAIN g /\ r \notin Range(g)
  <2>1. DOMAIN g \subseteq Loc /\ Range(g) \subseteq Loc
    BY <1>2 DEF PM!Groups, Range
  <2>2. Dedicated \cap Loc = {}
    BY ScratchAssumption DEF Loc, Stack
  <2> QED BY <1>1, <2>1, <2>2
<1>10. FreeInv'
  BY <1>4, <1>8, <1>9 DEF f, FreeInv, FreeTyped, FreeDistinct, FreeOfGroup, Offered
<1>11. edits' \in Seq(RegEdit) /\ GroupsInv' /\ before' = val'
  BY <1>1, <1>4 DEF ShapeInv, GroupsInv
<1> QED BY <1>5, <1>10, <1>11 DEF ShapeInv

(* An iteration of the resolver's loop. *)
LEMMA ResolveStepShape ==
    ASSUME ShapeInv, ResolveStep
    PROVE  ShapeInv' /\ group' = group
<1>1. /\ PM!Step /\ UNCHANGED rmvars /\ pc' = pc /\ free_regs' = free_regs
      /\ edits' = edits /\ before' = before /\ groups' = groups /\ val' = val
  BY DEF ResolveStep, rmvars
<1>2. group' = group
  BY <1>1 DEF PM!Step, PM!Root, PM!Descend, PM!Unwind, PM!BreakCycle
<1>4. RM!TypeOK' /\ FreeInv'
  BY <1>1, <1>2, TrackerSame, FreeSame DEF ShapeInv
<1>5. edits' \in Seq(RegEdit) /\ GroupsInv' /\ (pc' = "resolve" => before' = val')
  BY <1>1 DEF ShapeInv, GroupsInv
<1> QED BY <1>2, <1>4, <1>5 DEF ShapeInv

(* `compute` *)
LEMMA ReplaceShape ==
    ASSUME ShapeInv, ReplaceScratch, Completes
    PROVE  ShapeInv'
<1>1. /\ pc = "resolve" /\ edits' = Compute /\ pc' = "edits" /\ UNCHANGED rmvars
       /\ free_regs' = free_regs /\ groups' = groups /\ group' = group
  BY DEF ReplaceScratch, pmvars
<1>2. RM!TypeOK' /\ FreeInv'
  BY <1>1, TrackerSame, FreeSame DEF ShapeInv
<1>3. edits' \in Seq(RegEdit)
  BY <1>1 DEF Completes
<1>4. GroupsInv'
  BY <1>1 DEF ShapeInv, GroupsInv
<1> QED BY <1>1, <1>2, <1>3, <1>4 DEF ShapeInv

(* One edit. *)
LEMMA ApplyShape ==
    ASSUME ShapeInv, ApplyEdit
    PROVE  ShapeInv'
<1>1. /\ pc = "edits" /\ edits # <<>> /\ Processed(Head(edits)) /\ edits' = Tail(edits)
      /\ pc' = pc /\ free_regs' = free_regs /\ groups' = groups
      /\ group' = group
  BY DEF ApplyEdit, Processed, pmvars
<1>2. FreeInv'
  BY <1>1, FreeSame DEF ShapeInv
<1>3. edits \in Seq(RegEdit) /\ RM!TypeOK
  BY DEF ShapeInv
<1>4. edits' \in Seq(RegEdit) /\ Head(edits) \in RegEdit
  BY <1>1, <1>3
<1>5. RM!TypeOK'
  BY <1>1, <1>3, <1>4, RegEdits, ProcessedType
<1>6. GroupsInv'
  BY <1>1 DEF ShapeInv, GroupsInv
<1> QED BY <1>1, <1>2, <1>4, <1>5, <1>6 DEF ShapeInv

(* The end of a group. *)
LEMMA DoneShape ==
    ASSUME ShapeInv, GroupDone
    PROVE  ShapeInv'
<1>1. /\ pc = "edits" /\ pc' = "idle" /\ groups' = groups + 1
      /\ free_regs' = <<>> /\ UNCHANGED rmvars /\ edits' = edits
  BY DEF GroupDone
<1>4. RM!TypeOK'
  BY <1>1, TrackerSame DEF ShapeInv
<1>5. FreeInv'
  <2> DEFINE f == free_regs'
  <2>1. f \in Seq(Regs \cup Dedicated) /\ DOMAIN f = {}
    BY <1>1
  <2> HIDE DEF f
  <2> QED BY <2>1 DEF f, FreeInv, FreeTyped, FreeDistinct, FreeOfGroup, Offered
<1>6. edits' \in Seq(RegEdit)
  BY <1>1 DEF ShapeInv
<1>7. GroupsInv'
  <2>1. MaxGroups \in Nat
    BY GroupsAssumption DEF MaxGroups
  <2>2. groups \in 0 .. MaxGroups /\ groups < MaxGroups
    BY <1>1 DEF ShapeInv, GroupsInv
  <2> QED BY <1>1, <2>1, <2>2 DEF GroupsInv, MaxGroups
<1> QED BY <1>1, <1>4, <1>5, <1>6, <1>7 DEF ShapeInv

(* An instruction between two groups. *)
LEMMA InstructionShape ==
    ASSUME ShapeInv, NEW l \in Loc, Instruction({l})
    PROVE  ShapeInv'
<1>1. /\ pc = "idle" /\ pc' = pc /\ free_regs' = free_regs /\ edits' = edits
      /\ groups' = groups /\ group' = group
  BY DEF Instruction, pmvars
<1>2. RM!TypeOK' /\ FreeInv'
  BY <1>1, InstructionKeeps, FreeSame DEF ShapeInv
<1>3. edits' \in Seq(RegEdit) /\ GroupsInv'
  BY <1>1 DEF ShapeInv, GroupsInv
<1> QED BY <1>1, <1>2, <1>3 DEF ShapeInv

(* A step that changes nothing keeps the shape of the state. *)
LEMMA StutterShape ==
    ASSUME ShapeInv, UNCHANGED vars
    PROVE  ShapeInv'
<1>1. /\ UNCHANGED rmvars /\ val' = val /\ pc' = pc /\ free_regs' = free_regs
      /\ edits' = edits /\ before' = before /\ groups' = groups /\ group' = group
  BY DEF vars, pmvars, rmvars
<1>2. RM!TypeOK' /\ FreeInv'
  BY <1>1, TrackerSame, FreeSame DEF ShapeInv
<1>3. edits' \in Seq(RegEdit) /\ GroupsInv' /\ (pc' = "resolve" => before' = val')
  BY <1>1 DEF ShapeInv, GroupsInv
<1> QED BY <1>2, <1>3 DEF ShapeInv

(* One case per action. *)
LEMMA NextShape ==
    ASSUME ShapeInv, [Next]_vars, SortedLists, ReplaceScratch => Completes
    PROVE  ShapeInv'
<1>1. ASSUME pc = "idle", groups < MaxGroups, NEW g \in BoundedGroups,
             NEW d \in {<<>>} \cup {<<r>> : r \in Dedicated}, NEW unused \in SUBSET Regs,
             AddGroup(g, d, unused)
      PROVE  ShapeInv'
  BY <1>1, AddGroupShape
<1>2. CASE ResolveStep
  BY <1>2, ResolveStepShape
<1>3. CASE ReplaceScratch
  BY <1>3, ReplaceShape
<1>4. CASE ApplyEdit
  BY <1>4, ApplyShape
<1>5. CASE GroupDone
  BY <1>5, DoneShape
<1>6. ASSUME NEW l \in Loc, Instruction({l}) PROVE ShapeInv'
  BY <1>6, InstructionShape
<1>7. CASE Finished \/ UNCHANGED vars
  BY <1>7, StutterShape DEF Finished
<1> QED BY Zenon, <1>1, <1>2, <1>3, <1>4, <1>5, <1>6, <1>7 DEF Next

(* Before the first group nothing is pending and nothing is tracked. *)
LEMMA InitShape ==
    ASSUME Init
    PROVE  ShapeInv /\ EffectInv
<1>1. /\ allocs = [a \in Alloc |-> Unknown] /\ reverse_allocs = [a \in Alloc |-> {}]
      /\ val = [a \in Alloc |-> a] /\ pc = "idle" /\ free_regs = <<>> /\ edits = <<>>
      /\ groups = 0
  BY DEF Init
<1>2. val \in [Alloc -> Value]
  BY <1>1, ValueFacts
<1>3. RM!TypeOK
  BY <1>1, <1>2 DEF RM!TypeOK
<1>4. Unknown \notin Alloc
  BY AllocFacts DEF RMP!AllocAssumption
<1>5. RMP!IInv
  BY <1>1, <1>2, <1>4 DEF RMP!IInv, RMP!TypeOK, RMP!CopiesAgree, RMP!CopiesIndexed
<1>6. FreeInv
  <2>1. free_regs \in Seq(Regs \cup Dedicated) /\ DOMAIN free_regs = {}
    BY <1>1
  <2> QED BY <2>1 DEF FreeInv, FreeTyped, FreeDistinct, FreeOfGroup, Offered
<1>7. edits \in Seq(RegEdit)
  BY <1>1
<1>8. GroupsInv
  <2>1. MaxGroups \in Nat
    BY GroupsAssumption DEF MaxGroups
  <2> QED BY <1>1, <2>1 DEF GroupsInv
<1> QED BY <1>1, <1>3, <1>5, <1>6, <1>7, <1>8 DEF ShapeInv, EffectInv

(* The effect of a group is untouched by a step that leaves the machine,   *)
(* the group and its history alone.                                        *)
LEMMA ReachedSame ==
    ASSUME NEW s, GroupReached(s), val' = val, before' = before, group' = group,
           free_regs' = free_regs, edits' = s
    PROVE  GroupReached(edits)'
BY DEF GroupReached, Offered, Asked

(* Every step keeps the effect of the group: what is emitted and what is   *)
(* still to be emitted, one after the other, do the moves that were asked. *)
LEMMA NextEffect ==
    ASSUME AddressesApart, ShapeInv, EffectInv, [Next]_vars, ReplaceScratch => Completes
    PROVE  EffectInv'
<1>1. RMP!IInv /\ RM!TypeOK /\ edits \in Seq(RegEdit)
  BY DEF EffectInv, ShapeInv
<1>2. ASSUME NEW g \in BoundedGroups,
             NEW d \in {<<>>} \cup {<<r>> : r \in Dedicated}, NEW unused \in SUBSET Regs,
             AddGroup(g, d, unused)
      PROVE  EffectInv'
  <2>1. UNCHANGED rmvars /\ pc' = "resolve" /\ before' = val /\ val' = val
    BY <1>2 DEF AddGroup, rmvars
  <2> QED BY <1>1, <2>1, TrackerSame DEF EffectInv
<1>3. CASE ResolveStep
  <2>1. UNCHANGED rmvars /\ pc' = pc /\ pc = "resolve" /\ before' = before /\ val' = val
    BY <1>3 DEF ResolveStep, rmvars
  <2> QED BY <1>1, <2>1, TrackerSame DEF EffectInv
<1>4. CASE ReplaceScratch
  <2>1. /\ UNCHANGED rmvars /\ pc' = "edits" /\ before' = before /\ val' = val
        /\ group' = group /\ free_regs' = free_regs /\ edits' = Compute
    BY <1>4 DEF ReplaceScratch, rmvars, pmvars
  <2>2. GroupReached(edits)'
    BY <1>4, <2>1, ReachedSame DEF Completes
  <2> QED BY <1>1, <2>1, <2>2, TrackerSame DEF EffectInv
<1>5. CASE ApplyEdit
  BY <1>1, <1>5, ApplyEffect
<1>6. CASE GroupDone
  <2>1. UNCHANGED rmvars /\ pc' = "idle"
    BY <1>6 DEF GroupDone
  <2> QED BY <1>1, <2>1, TrackerSame DEF EffectInv
<1>7. ASSUME NEW l \in Loc, Instruction({l}) PROVE EffectInv'
  <2>1. pc' = "idle"
    BY <1>7 DEF Instruction
  <2> QED BY <1>1, <1>7, <2>1, InstructionKeeps DEF EffectInv
<1>8. CASE Finished \/ UNCHANGED vars
  <2>1. /\ UNCHANGED rmvars /\ pc' = pc /\ before' = before /\ val' = val
        /\ group' = group /\ free_regs' = free_regs /\ edits' = edits
    BY <1>8 DEF Finished, vars, rmvars, pmvars
  <2>2. pc = "edits" => GroupReached(edits)'
    BY <2>1, ReachedSame DEF EffectInv
  <2> QED BY <1>1, <2>1, <2>2, TrackerSame DEF EffectInv
<1> QED BY Zenon, <1>2, <1>3, <1>4, <1>5, <1>6, <1>7, <1>8 DEF Next

-----------------------------------------------------------------------------
(* The resolver of the composition.                                        *)

PMP == INSTANCE ParallelMovesProofs

(* The locations are as the resolver expects them. *)
LEMMA LocFacts == PMP!LocAssumption
<1>1. Loc \subseteq Nat \ {0}
  BY ScratchAssumption DEF Alloc
<1>2. PMP!IsFiniteSet(Loc) <=> IsFiniteSet(Loc)
  BY DEF IsFiniteSet, PMP!IsFiniteSet
<1> QED BY <1>1, <1>2, ScratchAssumption DEF PMP!LocAssumption

(* The resolver of the composition is the resolver. *)
LEMMA SameStep == PM!Step => PMP!Step
BY DEF PM!Step, PMP!Step, PM!Root, PMP!Root, PM!Descend, PMP!Descend, PM!Unwind, PMP!Unwind,
   PM!BreakCycle, PMP!BreakCycle, PM!next, PMP!next, PM!top, PMP!top,
   PM!must_come_before, PMP!must_come_before, PM!ToDo, PMP!ToDo, PM!AllDone, PMP!AllDone,
   PM!MovesAt, PMP!MovesAt, PM!NONE, PMP!NONE, PM!NoLoc, PMP!NoLoc,
   PM!Range, PMP!Range

(* A group is added to the resolver as to the resolver alone. *)
LEMMA SameStart ==
    ASSUME NEW g, PM!Start(g)
    PROVE  PMP!Start(g)
BY DEF PM!Start, PMP!Start, PM!MovesOf, PMP!MovesOf, PM!Overlapping, PMP!Overlapping,
   PM!Effective, PMP!Effective, PM!Sorted, PMP!Sorted, PM!Rank, PMP!Rank,
   PM!Cardinality, PMP!Cardinality

(* The resolver starts empty. *)
LEMMA SameInit == PM!Init => PMP!Init
BY DEF PM!Init, PMP!Init, PM!NoMoves, PMP!NoMoves

(* The walk is over for the composition when it is for the resolver. *)
LEMMA SameResolved == PM!Resolved => PMP!Resolved
BY DEF PM!Resolved, PMP!Resolved, PM!ToDo, PMP!ToDo

(* The resolver's types, as the composition states them. *)
LEMMA SameType == PMP!TypeOK => PM!TypeOK
BY DEF PM!TypeOK, PMP!TypeOK, PM!Move, PMP!Move, PM!NoLoc, PMP!NoLoc,
   PM!IsInjective, PMP!IsInjective, PM!Range, PMP!Range

(* The resolver's invariant and free registers that the group does not     *)
(* name make moves that `compute` can complete.                            *)
LEMMA ResolverWell ==
    ASSUME PMP!ResolverInv, FreeInv
    PROVE  ResolvedWell
<1>1. /\ ret \in Seq(PMP!AnyMove) /\ scratch_used \in BOOLEAN
      /\ ret \in Seq(PMP!Named(group))
      /\ ~scratch_used => \A n \in DOMAIN ret : ret[n].src # PMP!NoLoc /\ ret[n].dst # PMP!NoLoc
  BY LocFacts, PMP!ResolverNames
<1>2. PMP!AnyMove = CellMove /\ PMP!NoLoc = NoLoc
  BY DEF PMP!AnyMove, PMP!Cell, PMP!NoLoc, CellMove, Cells, NoLoc
<1>3. ret \in Seq(CellMove) /\ DOMAIN ret = 1 .. Len(ret)
  BY <1>1, <1>2
<1>4. ASSUME NEW n \in 1 .. Len(ret)
      PROVE  ret[n].src \notin Offered /\ ret[n].dst \notin Offered
  <2> DEFINE N == PMP!Named(group)
  <2>1. ret[n] \in N
    BY <1>1, <1>4
  <2>2. /\ ret[n].src \in Range(group) \/ ret[n].src = NoLoc
        /\ ret[n].dst \in DOMAIN group \/ ret[n].dst = NoLoc
    BY <2>1 DEF PMP!Named, PMP!Range, Range, PMP!NoLoc, NoLoc
  <2>3. NoLoc \notin Offered
    <3>1. free_regs \in Seq(Regs \cup Dedicated)
      BY DEF FreeInv, FreeTyped
    <3>2. \A i \in DOMAIN free_regs : free_regs[i] \in Regs \cup Dedicated
      BY <3>1
    <3> QED BY <3>2, ScratchAssumption DEF Offered, NoLoc, Alloc, Loc
  <2> QED BY <2>2, <2>3 DEF FreeInv, FreeOfGroup
<1> QED BY <1>1, <1>2, <1>3, <1>4 DEF ResolvedWell, FreeInv, FreeDistinct

(* The edits that `compute` makes of a resolved group do what it asks. *)
LEMMA ReplaceKeeps ==
    ASSUME PMP!ResolverInv, ShapeInv, ReplaceScratch
    PROVE  Completes
<1>1. ResolvedWell /\ val \in Machine(Value) /\ before = val /\ PMP!Resolved
  BY ResolverWell, SameResolved DEF ShapeInv, ReplaceScratch, RM!TypeOK, Machine
<1> DEFINE v0 == [c \in PMP!Cell |-> IF c = NoLoc THEN val[scratch] ELSE val[c]]
<1>2. PMP!Cell = Cells
  BY DEF PMP!Cell, Cells, PMP!NoLoc, NoLoc
<1>3. v0 \in [PMP!Cell -> Value]
  <2>1. scratch \in Alloc /\ \A c \in Cells : c # NoLoc => c \in Alloc
    BY <1>1, ScratchUnnamed DEF Cells, Alloc
  <2> QED BY <1>1, <1>2, <2>1 DEF Machine
<1>4. NoLoc \notin Loc
  BY ScratchAssumption DEF NoLoc, Alloc
<1>5. (\A l \in Loc : v0[l] = val[l]) /\ v0[NoLoc] = val[scratch]
  BY <1>2, <1>4 DEF Cells
<1> HIDE DEF v0
<1>6. PMP!Delivers(v0, Value)
  BY <1>1, <1>3, LocFacts, PMP!ResolverDelivers
<1>7. PICK v : /\ PMP!Runs(v, ret, v0, Value)
               /\ \A l \in Loc : v[Len(ret)][l] = v0[IF l \in DOMAIN group THEN group[l] ELSE l]
  BY <1>6 DEF PMP!Delivers
<1>8. CellRun(v, Value, val)
  BY Zenon, <1>2, <1>5, <1>7 DEF CellRun, PMP!Runs, PMP!Moved
<1>9. ASSUME NEW l \in Loc
      PROVE  v[Len(ret)][l] = val[IF l \in DOMAIN group THEN group[l] ELSE l]
  <2>1. group \in PMP!Groups
    BY LocFacts, PMP!ResolverNames
  <2>2. l \in DOMAIN group => group[l] \in Loc
    BY <2>1 DEF PMP!Groups
  <2> QED BY <1>5, <1>7, <2>2
<1> QED BY <1>1, <1>8, <1>9, ReplaceReaches DEF Completes

(* A resolver that nobody calls. *)
LEMMA ResolverSame ==
    ASSUME PMP!ResolverInv, UNCHANGED pmvars
    PROVE  PMP!ResolverInv'
<1>1. UNCHANGED PMP!pvars
  BY DEF pmvars, PMP!pvars
<1> QED BY <1>1, LocFacts, PMP!IdleResolver

(* The resolver's invariant holds throughout: a group starts a resolver,   *)
(* only its own steps touch it, and the end of the group drops it.         *)
LEMMA NextResolver ==
    ASSUME PMP!ResolverInv, [Next]_vars
    PROVE  PMP!ResolverInv'
<1>1. ASSUME NEW g \in BoundedGroups, NEW d, NEW unused, AddGroup(g, d, unused)
      PROVE  PMP!ResolverInv'
  <2>1. g \in PMP!Groups /\ PM!Start(g)
    BY <1>1 DEF BoundedGroups, AddGroup, PM!Groups, PMP!Groups
  <2> QED BY <2>1, SameStart, LocFacts, PMP!StartResolver
<1>2. CASE ResolveStep
  BY <1>2, SameStep, LocFacts, PMP!StepResolver DEF ResolveStep
<1>3. CASE GroupDone
  <2>1. PM!Start(PM!NoMoves)
    BY <1>3 DEF GroupDone, PM!Reset
  <2>2. PM!NoMoves \in PMP!Groups
    <3>1. PMP!NoMoves \in PMP!Groups
      BY LocFacts, PMP!NoMovesIsGroup
    <3> QED BY <3>1 DEF PM!NoMoves, PMP!NoMoves
  <2> QED BY <2>1, <2>2, SameStart, LocFacts, PMP!StartResolver
<1>4. CASE UNCHANGED pmvars
  BY <1>4, ResolverSame
<1>5. ReplaceScratch \/ ApplyEdit \/ Finished \/ UNCHANGED vars => UNCHANGED pmvars
  BY DEF ReplaceScratch, ApplyEdit, Finished, vars
<1>6. \A l \in Loc : Instruction({l}) => UNCHANGED pmvars
  BY DEF Instruction
<1> QED BY Zenon, <1>1, <1>2, <1>3, <1>4, <1>5, <1>6 DEF Next

(* The registers that are offered as free are listed once each. *)
LEMMA FreeListed == SortedLists
<1> SUFFICES ASSUME NEW S \in SUBSET Regs
             PROVE  \E n \in Nat :
                       /\ PM!Sorted(S) \in [1 .. n -> S]
                       /\ \A i, j \in 1 .. n : PM!Sorted(S)[i] = PM!Sorted(S)[j] => i = j
  BY DEF SortedLists
<1> DEFINE s == PM!Sorted(S)
           n == PMP!Cardinality(S)
<1>1. S \in SUBSET Loc
  BY DEF Loc
<1>2. s = PMP!Sorted(S)
  BY DEF PM!Sorted, PMP!Sorted, PM!Rank, PMP!Rank, PM!Cardinality, PMP!Cardinality
<1> HIDE DEF s, n
<1>3. /\ n \in Nat /\ s \in [1 .. n -> S]
      /\ \A i, j \in 1 .. n : s[i] = s[j] => i = j
  BY <1>1, <1>2, LocFacts, PMP!SortedFacts DEF n
<1> QED BY <1>3 DEF s

(* The inductive invariants of the composition. *)
TypeInv == PMP!ResolverInv /\ ShapeInv
IInv == TypeInv /\ EffectInv

(* Before the first group both invariants hold. *)
LEMMA InitInv == Init => IInv
<1> SUFFICES ASSUME Init PROVE IInv
  OBVIOUS
<1>1. PMP!ResolverInv
  BY SameInit, LocFacts, PMP!InitResolver DEF Init
<1> QED BY <1>1, InitShape DEF IInv, TypeInv

(* Every step keeps the shape of the state, whatever an expansion writes. *)
LEMMA NextType == TypeInv /\ [Next]_vars => TypeInv'
<1> SUFFICES ASSUME PMP!ResolverInv, ShapeInv, [Next]_vars PROVE TypeInv'
  BY DEF TypeInv
<1>1. PMP!ResolverInv'
  BY NextResolver
<1>2. ShapeInv'
  BY ReplaceKeeps, FreeListed, NextShape
<1> QED BY <1>1, <1>2 DEF TypeInv

(* Where addresses are apart, every step keeps what the groups did. *)
LEMMA NextInv ==
    ASSUME AddressesApart
    PROVE  IInv /\ [Next]_vars => IInv'
<1> SUFFICES ASSUME TypeInv, EffectInv, [Next]_vars PROVE IInv'
  BY DEF IInv
<1>1. TypeInv'
  BY NextType
<1>2. EffectInv'
  BY ReplaceKeeps, NextEffect DEF TypeInv
<1> QED BY <1>1, <1>2 DEF IInv
-----------------------------------------------------------------------------
(* The shape of the state, in every execution. *)
LEMMA TypeInvariant == Spec => []TypeInv
<1>1. Init => TypeInv
  BY InitInv DEF IInv
<1> QED BY <1>1, NextType, PTL DEF Spec

(* The resolver, the scratch resolver and the eliminator keep the types of *)
(* what they share, for any registers, slots and groups: in particular the *)
(* resolver's stack holds its pending moves, each of them once.            *)
THEOREM TypeCorrect == Spec => []TypeOK
<1>1. TypeInv => TypeOK
  <2> SUFFICES ASSUME TypeInv PROVE TypeOK
    OBVIOUS
  <2>1. PM!TypeOK
    BY LocFacts, PMP!ResolverNames, SameType DEF TypeInv
  <2>2. RM!TypeOK /\ pc \in {"idle", "resolve", "edits"} /\ groups \in 0 .. MaxGroups
        /\ free_regs \in Seq(Regs \cup Dedicated)
    BY DEF TypeInv, ShapeInv, GroupsInv, FreeInv, FreeTyped
  <2>3. edits \in Seq(Edit)
    BY RegEdits DEF TypeInv, ShapeInv
  <2> QED BY <2>1, <2>2, <2>3 DEF TypeOK
<1> QED BY <1>1, TypeInvariant, PTL

(* `compute` leaves no move from the stack to the stack, whatever group is *)
(* resolved and whatever registers are free: the expansion of an edit      *)
(* never needs a register that is not its own.                             *)
THEOREM EditsAlwaysUseRegister == Spec => []EditsUseRegister
<1>1. TypeInv => EditsUseRegister
  <2> SUFFICES ASSUME TypeInv, NEW i \in DOMAIN edits PROVE ~IsStackToStack(edits[i])
    BY DEF EditsUseRegister
  <2>1. edits \in Seq(RegEdit)
    BY DEF TypeInv, ShapeInv
  <2>2. edits[i] \in RegEdit
    BY <2>1
  <2> QED BY <2>2 DEF RegEdit
<1> QED BY <1>1, TypeInvariant, PTL

(* Where the expansion of an edit writes no allocatable register (AArch64, *)
(* whose far slots are addressed through registers outside the allocation, *)
(* or a frame within the immediate range), a group of moves that is        *)
(* resolved, completed and passed through the eliminator puts in every     *)
(* destination what its source held before, and disturbs nothing else that *)
(* is in use.                                                              *)
THEOREM GroupsApplied == ASSUME AddressesApart PROVE Spec => []GroupApplied
<1>1. Init => IInv
  BY InitInv
<1>2. IInv /\ [Next]_vars => IInv'
  BY NextInv
<1>3. IInv => GroupApplied
  <2> SUFFICES ASSUME IInv, pc = "edits", edits = <<>>, NEW l \in Loc \ Range(free_regs)
               PROVE  val[l] = before[IF l \in DOMAIN group THEN group[l] ELSE l]
    BY DEF GroupApplied
  <2>1. PICK w \in Machine(Value) :
           Reaches(edits, Value, val, w) /\ \A k \in Loc \ Offered : w[k] = Asked(k)
    BY DEF IInv, EffectInv, GroupReached
  <2>2. val = w
    BY <2>1, ReachesEnd
  <2>3. l \notin Offered
    BY DEF Offered, Range
  <2> QED BY <2>1, <2>2, <2>3 DEF Asked
<1> QED BY <1>1, <1>2, <1>3, PTL DEF Spec

(* Under the same condition the eliminator is right about every copy it    *)
(* knows of, over moves, scratch registers and instructions.               *)
THEOREM CopiesAlwaysAgree == ASSUME AddressesApart PROVE Spec => []CopiesAgree
<1>1. Init => IInv
  BY InitInv
<1>2. IInv /\ [Next]_vars => IInv'
  BY NextInv
<1>3. IInv => CopiesAgree
  BY DEF IInv, EffectInv, RMP!IInv, RMP!CopiesAgree, CopiesAgree, RM!CopiesAgree
<1> QED BY <1>1, <1>2, <1>3, PTL DEF Spec
=============================================================================
