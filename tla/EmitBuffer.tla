----------------------------- MODULE EmitBuffer -----------------------------
(***************************************************************************)
(* The emission buffer of taki_mir/src/emit_buffer.rs, driven as           *)
(* `AsmWriter::write_function` (emit.rs) drives it: the blocks are bound   *)
(* and emitted in lowered order, every bound label triggers the branch     *)
(* simplification loop, and at the end of the function the loop runs once  *)
(* more before `resolve` checks ranges and inserts veneers.                *)
(*                                                                         *)
(* Slots are numbered from 0 as in the code, so slot i is slots[i + 1].    *)
(* An instruction's text is reduced to the block it belongs to; a          *)
(* conditional branch keeps the block whose condition it tests and whether *)
(* its current mnemonic is the original one or the inverted one.           *)
(* Distances are counted in instructions (every slot is 4 bytes wide).     *)
(*                                                                         *)
(* `raw` and `raw_offsets` are history: the slots and labels as the        *)
(* backend emitted them, with no simplification.                           *)
(***************************************************************************)
EXTENDS Integers, Sequences, FiniteSets, SequencesExt

CONSTANTS NumBlocks,           \* lowered blocks of the function
          BodyBlocks,          \* the blocks that may have instructions
          LabelListThreshold,  \* LABEL_LIST_THRESHOLD
          CondReach,           \* reach of a conditional branch, in instructions
          JumpReach,           \* reach of an unconditional branch
          JumpVeneerLines,     \* lines of an unconditional branch's veneer
          MaxRounds            \* MAX_ROUNDS of the veneer relaxation

ASSUME BufferAssumption ==
    /\ NumBlocks \in Nat \ {0}
    /\ BodyBlocks \subseteq 0 .. NumBlocks - 1
    /\ LabelListThreshold \in Nat
    /\ CondReach \in Nat /\ JumpReach \in Nat
    /\ JumpVeneerLines \in Nat \ {0}
    /\ MaxRounds \in Nat

VARIABLES slots, label_offsets, label_aliases, latest_branches,
          labels_at_tail, labels_at_tail_off, enable_branch_opt,
          pc,          \* what the emitter does next
          block,       \* the block being emitted
          round,       \* relaxation rounds done by `resolve`
          raw, raw_offsets

buffer == <<slots, label_offsets, label_aliases, latest_branches,
            labels_at_tail, labels_at_tail_off>>
vars == <<buffer, enable_branch_opt, pc, block, round, raw, raw_offsets>>

Blocks == 0 .. NumBlocks - 1
Unbound == -1            \* usize::MAX
NoAlias == -1            \* label_aliases[l] = None

Text(b)       == [k |-> "text", blk |-> b]
Ret(b)        == [k |-> "ret", blk |-> b]
Cond(b, t)    == [k |-> "cond", blk |-> b, sense |-> TRUE, target |-> t]
Jump(b, t)    == [k |-> "jump", blk |-> b, target |-> t]
\* A branch rewritten by insert_veneer, and the veneer spliced in after it.
SkipVeneer(s)   == [k |-> "skip", blk |-> s.blk, sense |-> ~s.sense]
EnterVeneer(s)  == [k |-> "enter", blk |-> s.blk]
VeneerOf(s)     == [k |-> "veneer", blk |-> s.blk, target |-> s.target,
                    lines |-> IF s.k = "cond" THEN 1 ELSE JumpVeneerLines]

Slot == [k : {"text", "ret", "enter"}, blk : Blocks]
   \cup [k : {"cond"}, blk : Blocks, sense : BOOLEAN, target : Blocks]
   \cup [k : {"jump"}, blk : Blocks, target : Blocks]
   \cup [k : {"skip"}, blk : Blocks, sense : BOOLEAN]
   \cup [k : {"veneer"}, blk : Blocks, target : Blocks,
         lines : {1, JumpVeneerLines}]

IsBlockBranch(s) == s.k \in {"cond", "jump"}

TypeOK ==
    /\ slots \in Seq(Slot) /\ raw \in Seq(Slot)
    /\ label_offsets \in [Blocks -> Int] /\ raw_offsets \in [Blocks -> Int]
    /\ label_aliases \in [Blocks -> Blocks \cup {NoAlias}]
    /\ latest_branches \in Seq([start : Nat, labels : SUBSET Blocks])
    /\ labels_at_tail \subseteq Blocks /\ labels_at_tail_off \in Nat
    /\ enable_branch_opt \in BOOLEAN
    /\ pc \in {"bind", "opt", "body", "optend", "resolve", "done"}
    /\ block \in Blocks \cup {-1} /\ round \in 0 .. MaxRounds

Init ==
    /\ slots = <<>> /\ raw = <<>>
    /\ label_offsets = [b \in Blocks |-> Unbound]
    /\ raw_offsets = [b \in Blocks |-> Unbound]
    /\ label_aliases = [b \in Blocks |-> NoAlias]
    /\ latest_branches = <<>>
    /\ labels_at_tail = {} /\ labels_at_tail_off = 0
    /\ enable_branch_opt \in BOOLEAN
    /\ pc = "bind" /\ block = -1 /\ round = 0
-----------------------------------------------------------------------------
(* `resolved`: the end of a label's alias chain.                           *)
Chase(l) ==
    LET at[n \in 0 .. NumBlocks + 1] ==
            IF n = 0 THEN l
            ELSE LET m == at[n - 1] IN
                 IF label_aliases[m] = NoAlias THEN m ELSE label_aliases[m]
    IN at[NumBlocks + 1]

(* `resolve_label_offset` *)
OffsetOf(l) == label_offsets[Chase(l)]

cur_slot == Len(slots)

(* `lazily_clear_labels_at_tail`: the list is dropped once it is stale.    *)
TailLabels == IF cur_slot > labels_at_tail_off THEN {} ELSE labels_at_tail


-----------------------------------------------------------------------------
(* The CFGs lowering produces: every block but the entry is reached from   *)
(* an earlier one, and critical edges are split, so the two targets of a   *)
(* conditional terminator have no other predecessor.                       *)
Edges(b) == {raw[i].target : i \in {j \in DOMAIN raw : /\ IsBlockBranch(raw[j])
                                                       /\ raw[j].blk = b}}
Targeted(t)   == \E b \in Blocks : t \in Edges(b)
CondTarget(t) == \E b \in Blocks : t \in Edges(b) /\ Cardinality(Edges(b)) = 2

NextIsReached(targets) ==
    block + 1 \in Blocks => Targeted(block + 1) \/ block + 1 \in targets

(* `put_branch`: the record of a new branch takes the labels at the tail.  *)
PutBranches(new) ==
    /\ slots' = slots \o new
    /\ raw' = raw \o new
    /\ latest_branches' =
         latest_branches \o
         [i \in DOMAIN new |-> [start |-> cur_slot + i - 1,
                                labels |-> IF i = 1 THEN TailLabels ELSE {}]]
    /\ labels_at_tail' = IF Len(new) = 1 THEN TailLabels ELSE {}
    /\ labels_at_tail_off' = cur_slot + Len(new) - 1
    /\ UNCHANGED <<label_offsets, label_aliases, raw_offsets>>

(* `end_inst`: the pending text becomes a slot. *)
PutText(s) ==
    /\ slots' = Append(slots, s)
    /\ raw' = Append(raw, s)
    /\ UNCHANGED <<label_offsets, label_aliases, latest_branches,
                   labels_at_tail, labels_at_tail_off, raw_offsets>>

(* `bind_label` of the next block, up to its call of the optimizer. *)
BindLabel ==
    /\ pc = "bind" /\ block + 1 \in Blocks
    /\ block' = block + 1
    /\ label_offsets' = [label_offsets EXCEPT ![block + 1] = cur_slot]
    /\ labels_at_tail' = TailLabels \cup {block + 1}
    /\ labels_at_tail_off' = cur_slot
    /\ raw_offsets' = [raw_offsets EXCEPT ![block + 1] = Len(raw)]
    /\ pc' = "opt"
    /\ UNCHANGED <<slots, label_aliases, latest_branches, enable_branch_opt,
                   round, raw>>

EmitBody ==
    /\ pc = "body" /\ block \in BodyBlocks
    /\ \A i \in DOMAIN raw : raw[i] # Text(block)
    /\ PutText(Text(block))
    /\ UNCHANGED <<enable_branch_opt, pc, block, round>>

EmitRet ==
    /\ pc = "body" /\ NextIsReached({})
    /\ PutText(Ret(block))
    /\ pc' = "bind" /\ UNCHANGED <<enable_branch_opt, block, round>>

EmitJump(t) ==
    /\ pc = "body" /\ NextIsReached({t}) /\ ~CondTarget(t)
    /\ PutBranches(<<Jump(block, t)>>)
    /\ pc' = "bind" /\ UNCHANGED <<enable_branch_opt, block, round>>

(* A conditional terminator is a conditional branch to its true target and *)
(* a jump to its false one, on both backends.                              *)
EmitCondBr(t, f) ==
    /\ pc = "body" /\ NextIsReached({t, f})
    /\ t # f /\ ~Targeted(t) /\ ~Targeted(f)
    /\ PutBranches(<<Cond(block, t), Jump(block, f)>>)
    /\ pc' = "bind" /\ UNCHANGED <<enable_branch_opt, block, round>>

(* The last block is out: `write_function` runs the optimizer once more. *)
EmitEnd ==
    /\ pc = "bind" /\ block + 1 \notin Blocks
    /\ pc' = "optend"
    /\ UNCHANGED <<buffer, enable_branch_opt, block, round, raw, raw_offsets>>
-----------------------------------------------------------------------------
(* `optimize_branches`: one action per rule of its loop, tried in order on *)
(* the last recorded branch while that branch is the last slot.            *)
last == Last(latest_branches)
last_branch == slots[last.start + 1]

Editable ==
    /\ enable_branch_opt
    /\ latest_branches # <<>>
    /\ last.start + 1 = cur_slot
    /\ Cardinality(last.labels) <= LabelListThreshold

(* R1: the branch goes where control falls through to anyway. *)
IsFallthrough == Editable /\ OffsetOf(last_branch.target) = cur_slot

(* Mutated form: a jump may lead back to itself. *)
TailJumpUnguarded ==
    /\ Editable /\ ~IsFallthrough
    /\ last_branch.k = "jump"

(* A jump that does not lead back to itself. *)
TailJump ==
    /\ Editable /\ ~IsFallthrough
    /\ last_branch.k = "jump"
    /\ OffsetOf(last_branch.target) # last.start

(* R2: labels bound at the jump can name its target instead. *)
IsThreadable == TailJump /\ last.labels # {}

prev_branch == slots[latest_branches[Len(latest_branches) - 1].start + 1]

TailPair ==
    /\ TailJump /\ last.labels = {}
    /\ Len(latest_branches) > 1
    /\ latest_branches[Len(latest_branches) - 1].start + 1 = last.start

(* R3: no label and no path leads to the jump. *)
IsDeadJump == TailPair /\ prev_branch.k = "jump"

(* R4: the conditional branch only skips the jump. *)
IsInvertible ==
    TailPair /\ prev_branch.k = "cond" /\ OffsetOf(prev_branch.target) = cur_slot

(* Mutated forms: the labels at the tail stay behind, or the tail is       *)
(* placed one slot before the removed branch.                              *)
TruncateLeavesTailLabels(kept) ==
    /\ slots' = kept
    /\ latest_branches' = Front(latest_branches)
    /\ labels_at_tail' = TailLabels \cup last.labels
    /\ labels_at_tail_off' = last.start
    /\ UNCHANGED <<label_offsets, label_aliases, enable_branch_opt, pc, block,
                   round, raw, raw_offsets>>

TruncateOffByOne(kept) ==
    /\ slots' = kept
    /\ latest_branches' = Front(latest_branches)
    /\ label_offsets' = [l \in Blocks |-> IF l \in TailLabels THEN last.start
                                          ELSE label_offsets[l]]
    /\ labels_at_tail' = TailLabels \cup last.labels
    /\ labels_at_tail_off' = last.start - 1
    /\ UNCHANGED <<label_aliases, enable_branch_opt, pc, block, round, raw,
                   raw_offsets>>

(* `truncate_last_branch`: labels at the tail move back with it. *)
TruncateLastBranch(kept) ==
    /\ slots' = kept
    /\ latest_branches' = Front(latest_branches)
    /\ label_offsets' = [l \in Blocks |-> IF l \in TailLabels THEN last.start
                                          ELSE label_offsets[l]]
    /\ labels_at_tail' = TailLabels \cup last.labels
    /\ labels_at_tail_off' = last.start
    /\ UNCHANGED <<label_aliases, enable_branch_opt, pc, block, round, raw,
                   raw_offsets>>

RemoveFallthrough == IsFallthrough /\ TruncateLastBranch(Front(slots))

RemoveDeadJump == IsDeadJump /\ TruncateLastBranch(Front(slots))

InvertBranch ==
    /\ IsInvertible
    /\ TruncateLastBranch(
         [Front(slots) EXCEPT ![last.start].sense = ~@,
                              ![last.start].target = last_branch.target])

(* Mutated form: the redirected labels stay on the branch's record. *)
ThreadKeepsLabels ==
    /\ IsThreadable
    /\ label_aliases' = [l \in Blocks |-> IF l \in last.labels
                                          THEN last_branch.target
                                          ELSE label_aliases[l]]
    /\ UNCHANGED <<slots, label_offsets, latest_branches, labels_at_tail,
                   labels_at_tail_off, enable_branch_opt, pc, block, round,
                   raw, raw_offsets>>

ThreadLabels ==
    /\ IsThreadable
    /\ label_aliases' = [l \in Blocks |-> IF l \in last.labels
                                          THEN last_branch.target
                                          ELSE label_aliases[l]]
    /\ latest_branches' = [latest_branches EXCEPT ![Len(latest_branches)].labels = {}]
    /\ UNCHANGED <<slots, label_offsets, labels_at_tail, labels_at_tail_off,
                   enable_branch_opt, pc, block, round, raw, raw_offsets>>

(* The loop breaks, and records the tail has moved past are purged.  With  *)
(* the optimization off only stale tail labels are dropped.                *)
OptimizeDone ==
    /\ ~(IsFallthrough \/ IsThreadable \/ IsDeadJump \/ IsInvertible)
    /\ pc' = IF pc = "opt" THEN "body" ELSE "resolve"
    /\ IF enable_branch_opt
       THEN /\ latest_branches' = IF /\ latest_branches # <<>>
                                     /\ last.start + 1 < cur_slot
                                  THEN <<>> ELSE latest_branches
            /\ UNCHANGED <<labels_at_tail, labels_at_tail_off>>
       ELSE /\ labels_at_tail' = TailLabels /\ labels_at_tail_off' = cur_slot
            /\ UNCHANGED latest_branches
    /\ UNCHANGED <<slots, label_offsets, label_aliases, enable_branch_opt,
                   block, round, raw, raw_offsets>>

OptimizeBranches ==
    /\ pc \in {"opt", "optend"}
    /\ \/ RemoveFallthrough
       \/ ThreadLabels
       \/ RemoveDeadJump
       \/ InvertBranch
       \/ OptimizeDone
-----------------------------------------------------------------------------
(* `slot_len` and the `byte_offsets` table, in instructions. *)
SlotLen(s) == IF s.k = "veneer" THEN s.lines ELSE 1
Position(i) == FoldLeft(LAMBDA n, s : n + SlotLen(s), 0, SubSeq(slots, 1, i))

Reach(s) == IF s.k = "cond" THEN CondReach ELSE JumpReach
InRange(s, from, to) == to - from \in -Reach(s) .. Reach(s)

BlockBranches == {i \in 0 .. cur_slot - 1 : IsBlockBranch(slots[i + 1])}

(* The offset `resolve` looks up for a branch: that of its target label,   *)
(* not of the end of the label's alias chain.                              *)
CheckedOffset(i) == label_offsets[slots[i + 1].target]

(* The look-up stays inside the table of slot boundaries. *)
Indexable(i) == CheckedOffset(i) \in 0 .. cur_slot

OutOfRange ==
    {i \in BlockBranches :
        ~InRange(slots[i + 1], Position(i), Position(CheckedOffset(i)))}

(* One round of `resolve`: `insert_veneer` for every branch out of range,  *)
(* from the last to the first.                                             *)
InsertVeneers ==
    /\ pc = "resolve" /\ round < MaxRounds
    /\ \A i \in BlockBranches : Indexable(i)
    /\ OutOfRange # {}
    /\ LET rewritten(i) ==
             LET s == slots[i] IN
             IF i - 1 \notin OutOfRange THEN <<s>>
             ELSE <<IF s.k = "cond" THEN SkipVeneer(s) ELSE EnterVeneer(s),
                    VeneerOf(s)>>
       IN slots' = FlattenSeq([i \in DOMAIN slots |-> rewritten(i)])
    /\ label_offsets' =
         [l \in Blocks |->
            label_offsets[l] + Cardinality({i \in OutOfRange : i < label_offsets[l]})]
    /\ round' = round + 1
    /\ UNCHANGED <<label_aliases, latest_branches, labels_at_tail,
                   labels_at_tail_off, enable_branch_opt, pc, block, raw,
                   raw_offsets>>

ResolveDone ==
    /\ pc = "resolve"
    /\ \A i \in BlockBranches : Indexable(i)
    /\ OutOfRange = {}
    /\ pc' = "done"
    /\ UNCHANGED <<buffer, enable_branch_opt, block, round, raw, raw_offsets>>

Finished == pc = "done" /\ UNCHANGED vars

Next ==
    \/ BindLabel \/ EmitBody \/ EmitRet
    \/ \E t \in Blocks \ {0} : EmitJump(t)
    \/ \E t, f \in Blocks \ {0} : EmitCondBr(t, f)
    \/ EmitEnd
    \/ OptimizeBranches
    \/ InsertVeneers \/ ResolveDone
    \/ Finished

Spec == Init /\ [][Next]_vars /\ WF_vars(Next)
-----------------------------------------------------------------------------
(* Running emitted code P: its slots, and where each label leads (the name *)
(* and offset at the end of its alias chain).  E(i) is what running from   *)
(* slot i does.                                                            *)
Emitted  == [code |-> slots, name |-> [l \in Blocks |-> Chase(l)],
             at |-> [l \in Blocks |-> OffsetOf(l)]]
AsWritten == [code |-> raw, name |-> [l \in Blocks |-> l], at |-> raw_offsets]

Goto(P, E(_), l) ==
    CASE P.at[l] = Unbound -> <<"goto", P.name[l]>>
      [] P.at[l] > Len(P.code) -> <<"lost", l>>
      [] OTHER -> E(P.at[l])

(* The way the conditional branch at slot i takes when its block's         *)
(* condition holds, or does not.                                           *)
Arm(P, E(_), i, holds) ==
    LET s == P.code[i + 1] IN
    CASE s.sense # holds -> E(i + 1)
      [] s.k = "skip" /\ s.sense = holds -> E(i + 2)
      [] OTHER -> Goto(P, E, s.target)

(* What running from a slot does first: the text of a block, a return, a   *)
(* test whose outcome matters, a jump to a block that is not emitted yet,  *)
(* reaching the end of what is emitted, or spinning through jumps for ever. *)
FirstEffect(P) ==
    LET end == Len(P.code)
        effect[n \in 0 .. end + 1, i \in 0 .. end] ==
            LET E(j) == effect[n - 1, j]
                s == P.code[i + 1]
            IN CASE n = 0 -> <<"spin", 0>>
                 [] n > 0 /\ i = end -> <<"tail", 0>>
                 [] OTHER ->
                    CASE s.k \in {"text", "ret"} -> <<s.k, s.blk>>
                      [] s.k \in {"jump", "veneer"} -> Goto(P, E, s.target)
                      [] s.k = "enter" -> E(i + 1)
                      [] OTHER -> IF Arm(P, E, i, TRUE) = Arm(P, E, i, FALSE)
                                  THEN Arm(P, E, i, TRUE)
                                  ELSE <<"cond", s.blk>>
    IN [i \in 0 .. end |-> effect[end + 1, i]]

(* What P does from its entry, from every bound label, after every text    *)
(* and on both outcomes of every test it makes.                            *)
Behaviour(P) ==
    LET first == FirstEffect(P)
        E(i) == first[i]
        slot(k) == {i \in 0 .. Len(P.code) - 1 : P.code[i + 1].k \in k}
    IN   {<<"entry", 0, first[0]>>}
    \cup {<<"label", l, Goto(P, E, l)>> : l \in 0 .. block}
    \cup {<<"text", P.code[i + 1].blk, E(i + 1)>> : i \in slot({"text"})}
    \cup {<<"true", P.code[i + 1].blk, Arm(P, E, i, TRUE)>> : i \in slot({"cond", "skip"})}
    \cup {<<"false", P.code[i + 1].blk, Arm(P, E, i, FALSE)>> : i \in slot({"cond", "skip"})}

(* At every moment of emission, the simplified code with its aliases and   *)
(* veneers does what the code the backend wrote does: no rule drops, adds  *)
(* or redirects a path.                                                    *)
ControlFlowKept == Behaviour(Emitted) \subseteq Behaviour(AsWritten)

(* `resolved` never runs into its "label alias cycle" panic. *)
NoAliasCycle == \A l \in Blocks : label_aliases[Chase(l)] = NoAlias

(* The rewriting loop of `optimize_branches` cannot cycle. *)
RewritingEnds ==
    (pc \in {"opt", "optend"}) ~> (pc \in {"body", "resolve"})

(* "every emitted branch is inside its `LabelKind` reach" (emit_buffer.rs  *)
(* line 353): the label a branch is rendered with is within reach.         *)
RenderedInRange ==
    pc = "done" =>
        \A i \in BlockBranches :
            InRange(slots[i + 1], Position(i), Position(OffsetOf(slots[i + 1].target)))
=============================================================================
