--------------------------- MODULE MiddleEndPasses ---------------------------
(***************************************************************************)
(* The passes of the middle end that move scalar variables into SSA values *)
(* and tidy up behind themselves, as operators on one function:            *)
(* UnreachableBasicBlock, SSATransform, DeadCodeElimination,               *)
(* ScalarGlobalPromotion, SimplifyCFG and DeadPhiElimination.              *)
(*                                                                         *)
(* A function f is a record of                                             *)
(*   layout  the blocks, the entry first;                                  *)
(*   term    the targets of each block's terminator (see FlowGraph);       *)
(*   cond    a branch's condition: a constant 0 or 1, or any other value;  *)
(*   body    the loads and stores of each block, in order;                 *)
(*   params  the block parameters;                                         *)
(*   args    per edge, the values passed to the target's parameters; for a *)
(*           return, one list: the values returned.                        *)
(* The slots are the promotable local allocas, Locals, and the scalar      *)
(* globals, Globals, that nothing but direct loads and stores touches.     *)
(* A value is a tuple <<kind, slot, block, number>>: a load, a parameter,  *)
(* a constant, an undefined value.                                         *)
(***************************************************************************)
EXTENDS FlowGraph

CONSTANTS Locals, Globals

ASSUME SlotsDistinct == ToSet(Locals) \cap Globals = {}

Entry(f) == f.layout[1]

IsReturn(f, bb) == f.term[bb] = <<>>

ParamRef(slot, bb) == <<"param", slot, bb, 0>>

NoValue == <<"none", "", 0, 0>>

Load(id, slot) == [id |-> id, op |-> "load", slot |-> slot, src |-> NoValue]

Store(id, slot, src) == [id |-> id, op |-> "store", slot |-> slot, src |-> src]

\* The values the instructions of a block use (the users' side of used_by).
UsedIn(f, bb) ==
    {f.body[bb][i].src : i \in DOMAIN f.body[bb]}
    \cup UNION {ToSet(f.args[bb][k]) : k \in DOMAIN f.args[bb]}

UsedValues(f) == UNION {UsedIn(f, f.layout[n]) : n \in DOMAIN f.layout}

Subst(values, rep, with) ==
    [i \in DOMAIN values |-> IF values[i] = rep THEN with ELSE values[i]]

\* utils::visit_and_replace: every user of rep uses with instead.
VisitAndReplace(f, rep, with) ==
    [f EXCEPT
       !.body = [bb \in DOMAIN f.body |->
                   [i \in DOMAIN f.body[bb] |->
                      IF f.body[bb][i].src = rep
                      THEN [f.body[bb][i] EXCEPT !.src = with]
                      ELSE f.body[bb][i]]],
       !.args = [bb \in DOMAIN f.args |->
                   [k \in DOMAIN f.args[bb] |->
                      Subst(f.args[bb][k], rep, with)]]]

RemoveInsts(f, ids) ==
    [f EXCEPT !.body = [bb \in DOMAIN f.body |->
       SelectSeq(f.body[bb], LAMBDA inst : inst.id \notin ids)]]

RemoveBlocks(f, gone) ==
    LET Keep(g) == [bb \in DOMAIN g |-> IF bb \in gone THEN <<>> ELSE g[bb]]
    IN  [f EXCEPT !.layout = SelectSeq(f.layout, LAMBDA bb : bb \notin gone),
                  !.term = Keep(f.term), !.body = Keep(f.body),
                  !.params = Keep(f.params), !.args = Keep(f.args)]

-----------------------------------------------------------------------------
(* dce.rs: UnreachableBasicBlock and DeadCodeElimination.                  *)

\* An unreachable block is removed only when nothing uses what it computes,
\* its own instructions included.
AllUnused(f, bb) ==
    \A i \in DOMAIN f.body[bb] : f.body[bb][i].id \notin UsedValues(f)

RECURSIVE UnreachableBasicBlock(_)
UnreachableBasicBlock(f) ==
    LET ids == BuildCfgBoth(f.term, Entry(f)).ids
        island == {bb \in ToSet(f.layout) :
                     ~Contains(ids, bb) /\ AllUnused(f, bb)}
    IN  IF island = {} THEN f
        ELSE UnreachableBasicBlock(RemoveBlocks(f, island))

\* Stores and terminators are critical; of the instructions modelled only a
\* load can be dead, and its operand is a slot.
DeadCodeElimination(f) ==
    RemoveInsts(f, UNION {{f.body[bb][i].id : i \in
        {j \in DOMAIN f.body[bb] : /\ f.body[bb][j].op = "load"
                                   /\ f.body[bb][j].id \notin UsedValues(f)}}
        : bb \in ToSet(f.layout)})

-----------------------------------------------------------------------------
(* Where a slot needs a block parameter: ssa.rs dominance_analysis and the *)
(* copy of it in scalar_global_promotion.rs.                               *)

RECURSIVE Runner(_, _, _)
Runner(map, from, stop) ==
    IF from = stop THEN {} ELSE {from} \cup Runner(map, map[from], stop)

DominanceAnalysis(prece, map) ==
    [r \in DOMAIN map |->
       {id \in DOMAIN map :
          /\ Len(prece[id]) >= 2
          /\ \E k \in DOMAIN prece[id] : r \in Runner(map, prece[id][k], map[id])}]

\* Mutant: the new parameters are not definitions themselves.
DirectFronts(frontier, worked) == worked

RECURSIVE Fronts(_, _)
Fronts(frontier, worked) ==
    LET next == worked \cup UNION {frontier[id] : id \in worked}
    IN  IF next = worked THEN worked ELSE Fronts(frontier, next)

DefBlocks(f, slot) ==
    {bb \in ToSet(f.layout) : \E i \in DOMAIN f.body[bb] :
        f.body[bb][i].op = "store" /\ f.body[bb][i].slot = slot}

\* The blocks that get a parameter for the slot.
ParamBlocks(f, cfg, map, slot) ==
    LET frontier == DominanceAnalysis(cfg.prece, map)
        defs == {IdOf(cfg.ids, bb) : bb \in DefBlocks(f, slot)}
    IN  {cfg.ids[id] : id \in Fronts(frontier, UNION {frontier[d] : d \in defs})}

AddParams(f, slot, blocks) ==
    [f EXCEPT !.params = [bb \in DOMAIN f.params |->
       IF bb \in blocks THEN Append(f.params[bb], ParamRef(slot, bb))
                        ELSE f.params[bb]]]

\* A store in a block without an id: IDAllocator::get_id panics.
KeyNotFound(f, slots) ==
    LET ids == BuildCfgBoth(f.term, Entry(f)).ids
    IN  \E slot \in slots : \E bb \in DefBlocks(f, slot) : ~Contains(ids, bb)

-----------------------------------------------------------------------------
(* ssa.rs: the renaming walk over the dominator tree.                      *)

TopOr(stack, default) == IF stack = <<>> THEN default ELSE Last(stack)

\* One instruction; a load's users are rewritten at once, so that a later
\* store already has the replacement as its source.
RenameInst(s, bb, i) ==
    LET inst == s.f.body[bb][i]
    IN  IF inst.slot \notin ToSet(Locals) THEN s
        ELSE IF inst.op = "store"
        THEN [s EXCEPT !.st[inst.slot] = Append(@, inst.src)]
        ELSE [s EXCEPT !.f = VisitAndReplace(s.f, inst.id,
                TopOr(s.st[inst.slot], <<"undef_load", inst.slot, bb, i>>))]

InsertedAt(inserted, bb) ==
    SelectSeq(Locals, LAMBDA slot : bb \in inserted[slot])

\* Mutant: a branch passes the values along its true arm only.
RenameTrueArm(s, bb, inserted) ==
    IF IsReturn(s.f, bb) THEN s
    ELSE LET slots == InsertedAt(inserted, s.f.term[bb][1])
         IN  [s EXCEPT !.f.args[bb][1] = @ \o [j \in DOMAIN slots |->
                TopOr(s.st[slots[j]], <<"undef_arg", slots[j], bb, 1>>)]]

RenameTerminator(s, bb, inserted) ==
    IF IsReturn(s.f, bb) THEN s
    ELSE [s EXCEPT !.f.args[bb] = [k \in DOMAIN s.f.args[bb] |->
            LET slots == InsertedAt(inserted, s.f.term[bb][k])
            IN  s.f.args[bb][k] \o [j \in DOMAIN slots |->
                  TopOr(s.st[slots[j]], <<"undef_arg", slots[j], bb, k>>)]]]

PushParams(s, bb, inserted) ==
    FoldLeft(LAMBDA t, slot :
               [t EXCEPT !.st[slot] = Append(@, ParamRef(slot, bb))],
             s, InsertedAt(inserted, bb))

RenameBlock(s, bb, inserted) ==
    RenameTerminator(
      FoldLeft(LAMBDA t, i : RenameInst(t, bb, i),
               PushParams(s, bb, inserted),
               [i \in DOMAIN s.f.body[bb] |-> i]),
      bb, inserted)

\* Leaving a node pops what it pushed.
RECURSIVE Rename(_, _, _, _, _)
Rename(s, tree, ids, node, inserted) ==
    LET below == FoldLeft(LAMBDA t, c : Rename(t, tree, ids, c, inserted),
                          RenameBlock(s, ids[node], inserted), tree[node])
    IN  [below EXCEPT !.st = s.st]

LocalInsts(f, bb) ==
    {f.body[bb][i].id : i \in {j \in DOMAIN f.body[bb] :
                                 f.body[bb][j].slot \in ToSet(Locals)}}

\* run_on after the unreachable blocks are gone.
PromoteLocals(f) ==
    LET cfg == BuildCfgBoth(f.term, Entry(f))
        map == Idom(cfg.prece, RpoPath(cfg.graph))
        inserted == [slot \in ToSet(Locals) |-> ParamBlocks(f, cfg, map, slot)]
        extended == FoldLeft(LAMBDA g, slot : AddParams(g, slot, inserted[slot]),
                             f, Locals)
        renamed == Rename([f |-> extended,
                           st |-> [slot \in ToSet(Locals) |-> <<>>]],
                          BuildDominanceTree(map), cfg.ids, 1, inserted).f
    IN  RemoveInsts(renamed, UNION {LocalInsts(f, bb) : bb \in ToSet(cfg.ids)})

SSATransform(f) == DeadCodeElimination(PromoteLocals(f))

-----------------------------------------------------------------------------
(* scalar_global_promotion.rs.                                             *)

EntryLoad(g) == <<"load", g, 0, 0>>

ThreadInst(s, inst, g) ==
    IF inst.slot # g \/ inst.id = EntryLoad(g) THEN s
    ELSE IF inst.op = "store"
    THEN [s EXCEPT !.stack = Append(@, inst.src), !.removed = @ \cup {inst.id}]
    ELSE [s EXCEPT !.reps = Append(@, <<inst.id, Last(s.stack)>>),
                   !.removed = @ \cup {inst.id}]

ThreadTerminator(s, bb, blocks) ==
    IF IsReturn(s.f, bb)
    THEN [s EXCEPT !.backs = Append(@, <<Last(s.stack), bb>>)]
    ELSE [s EXCEPT !.f.args[bb] = [k \in DOMAIN s.f.args[bb] |->
            IF s.f.term[bb][k] \in blocks
            THEN Append(s.f.args[bb][k], Last(s.stack)) ELSE s.f.args[bb][k]]]

ThreadBlock(s, bb, blocks, g) ==
    LET entered == IF bb \in blocks
                   THEN [s EXCEPT !.stack = Append(@, ParamRef(g, bb))] ELSE s
    IN  ThreadTerminator(
          FoldLeft(LAMBDA t, inst : ThreadInst(t, inst, g), entered, s.f.body[bb]),
          bb, blocks)

\* Mutant: a node leaves what it pushed on the stack.
RECURSIVE ThreadLeaving(_, _, _, _, _, _)
ThreadLeaving(s, tree, ids, node, blocks, g) ==
    FoldLeft(LAMBDA t, c : ThreadLeaving(t, tree, ids, c, blocks, g),
             ThreadBlock(s, ids[node], blocks, g), tree[node])

RECURSIVE Thread(_, _, _, _, _, _)
Thread(s, tree, ids, node, blocks, g) ==
    LET below == FoldLeft(LAMBDA t, c : Thread(t, tree, ids, c, blocks, g),
                          ThreadBlock(s, ids[node], blocks, g), tree[node])
    IN  [below EXCEPT !.stack = s.stack]

\* The walk that extends the terminators and collects the edits.
Threaded(f, g) ==
    LET cfg == BuildCfgBoth(f.term, Entry(f))
        map == Idom(cfg.prece, RpoPath(cfg.graph))
        blocks == ParamBlocks(f, cfg, map, g)
        loaded == [AddParams(f, g, blocks) EXCEPT
                     !.body[Entry(f)] = <<Load(EntryLoad(g), g)>> \o @]
    IN  Thread([f |-> loaded, stack |-> <<EntryLoad(g)>>, reps |-> <<>>,
                removed |-> {}, backs |-> <<>>],
               BuildDominanceTree(map), cfg.ids, 1, blocks, g)

\* The edits in the order promote applies them: loads replaced, accesses
\* removed, write-backs inserted.
ApplyEdits(s, g) ==
    LET replaced == FoldLeft(LAMBDA f, r : VisitAndReplace(f, r[1], r[2]),
                             s.f, s.reps)
    IN  FoldLeft(LAMBDA f, w : [f EXCEPT !.body[w[2]] =
                   Append(@, Store(<<"back", g, w[2], 0>>, g, w[1]))],
                 RemoveInsts(replaced, s.removed), s.backs)

\* Building a write-back registers it with the user list of its source, which
\* panics when that instruction has been removed.
WriteBackPanics(s) == \E n \in DOMAIN s.backs : s.backs[n][1] \in s.removed

UsesGlobal(f, g) ==
    \E bb \in ToSet(f.layout) : \E i \in DOMAIN f.body[bb] : f.body[bb][i].slot = g

-----------------------------------------------------------------------------
(* simplify_cfg.rs.                                                        *)

FoldTo(f, bb, k) ==
    [f EXCEPT !.term[bb] = <<f.term[bb][k]>>, !.args[bb] = <<f.args[bb][k]>>,
              !.cond[bb] = "any"]

FoldConstConditionBranch(f) ==
    FoldLeft(LAMBDA g, bb :
               IF Len(g.term[bb]) = 2 /\ g.cond[bb] # "any"
               THEN FoldTo(g, bb, IF g.cond[bb] = "1" THEN 1 ELSE 2) ELSE g,
             f, f.layout)

FoldBranchSameTargetAndArgs(f) ==
    FoldLeft(LAMBDA g, bb :
               IF /\ Len(g.term[bb]) = 2
                  /\ g.term[bb][1] = g.term[bb][2]
                  /\ g.args[bb][1] = g.args[bb][2]
               THEN FoldTo(g, bb, 1) ELSE g,
             f, f.layout)

\* Blocks that only jump, with nothing passed in or on.
JumpOnly(f) ==
    {bb \in ToSet(Tail(f.layout)) :
       /\ f.body[bb] = <<>> /\ Len(f.term[bb]) = 1
       /\ f.args[bb][1] = <<>> /\ f.params[bb] = <<>>
       /\ f.term[bb][1] # bb}

\* Where a chain of such blocks ends: {} when it runs into a cycle.
RECURSIVE FinalTarget(_, _, _, _)
FinalTarget(f, candidates, bb, path) ==
    IF bb \notin candidates THEN {bb}
    ELSE IF bb \in path THEN {}
    ELSE FinalTarget(f, candidates, f.term[bb][1], path \cup {bb})

RemoveTrivialJumpBlock(f) ==
    LET candidates == JumpOnly(f)
        final == [bb \in candidates |-> FinalTarget(f, candidates, bb, {})]
        removable == {bb \in candidates : final[bb] # {}}
        Retarget(t) == IF t \in removable THEN CHOOSE x \in final[t] : TRUE ELSE t
        retargeted == [f EXCEPT !.term = [bb \in DOMAIN f.term |->
                         [k \in DOMAIN f.term[bb] |-> Retarget(f.term[bb][k])]]]
    IN  RemoveBlocks(retargeted, removable)

RECURSIVE SimplifyCFG(_)
SimplifyCFG(f) ==
    LET next == RemoveTrivialJumpBlock(
                  FoldBranchSameTargetAndArgs(FoldConstConditionBranch(f)))
    IN  IF next = f THEN f ELSE SimplifyCFG(next)

-----------------------------------------------------------------------------
(* dce.rs: DeadPhiElimination, with logical_edge.rs.                       *)

\* What the edges from blocks pass at position i of bb's parameters.
Incoming(f, blocks, bb, i) ==
    UNION {{f.args[p][k][i] : k \in {j \in DOMAIN f.term[p] : f.term[p][j] = bb}}
           : p \in blocks}

\* Parameters that every reachable edge gives one and the same other value.
ForwardedBlockParams(f) ==
    LET live == Reachable(f.term, Entry(f))
        positions == UNION {{<<bb, i>> : i \in DOMAIN f.params[bb]}
                            : bb \in live \ {Entry(f)}}
        at == {a \in positions :
                 \E v \in Incoming(f, live, a[1], a[2]) :
                   /\ v # f.params[a[1]][a[2]]
                   /\ Incoming(f, live, a[1], a[2]) = {v}}
    IN  [p \in {f.params[a[1]][a[2]] : a \in at} |->
           LET a == CHOOSE x \in at : f.params[x[1]][x[2]] = p
           IN  CHOOSE v \in Incoming(f, live, a[1], a[2]) : TRUE]

\* The end of a forwarding chain: {} when it is a cycle.
RECURSIVE ChainEnd(_, _, _)
ChainEnd(forwarded, v, visited) ==
    IF v \notin DOMAIN forwarded THEN {v}
    ELSE IF v \in visited THEN {}
    ELSE ChainEnd(forwarded, forwarded[v], visited \cup {v})

ResolveForwardedParams(forwarded) ==
    LET Ends(p) == ChainEnd(forwarded, p, {})
    IN  [p \in {q \in DOMAIN forwarded : Ends(q) # {}} |->
           CHOOSE v \in Ends(p) : TRUE]

Without(seq, gone) ==
    FoldLeft(LAMBDA kept, i : IF i \in gone THEN kept ELSE Append(kept, seq[i]),
             <<>>, [i \in DOMAIN seq |-> i])

\* Unused parameters go, with the argument at their position on every edge.
DropUnusedParams(f) ==
    LET unused == [bb \in DOMAIN f.params |->
                     IF bb = Entry(f) \/ ~Contains(f.layout, bb) THEN {}
                     ELSE {i \in DOMAIN f.params[bb] :
                             f.params[bb][i] \notin UsedValues(f)}]
    IN  [f EXCEPT
           !.params = [bb \in DOMAIN f.params |->
                         Without(f.params[bb], unused[bb])],
           !.args = [bb \in DOMAIN f.args |-> [k \in DOMAIN f.args[bb] |->
                       IF f.term[bb] = <<>> THEN f.args[bb][k]
                       ELSE Without(f.args[bb][k], unused[f.term[bb][k]])]]]

\* Mutant: the list of index lists, one per block, tested instead of its
\* elements.
DeadPhiAlwaysChanges(f) ==
    LET resolved == ResolveForwardedParams(ForwardedBlockParams(f))
    IN  [func |-> DropUnusedParams(
                    FoldLeft(LAMBDA g, p : VisitAndReplace(g, p, resolved[p]),
                             f, SetToSeq(DOMAIN resolved))),
         changed |-> f.layout # <<>>]

\* The pass reports a change when it resolved or removed a parameter.
DeadPhiElimination(f) ==
    LET resolved == ResolveForwardedParams(ForwardedBlockParams(f))
        replaced == FoldLeft(LAMBDA g, p : VisitAndReplace(g, p, resolved[p]),
                             f, SetToSeq(DOMAIN resolved))
        trimmed == DropUnusedParams(replaced)
    IN  [func |-> trimmed,
         changed |-> DOMAIN resolved # {} \/ trimmed.params # replaced.params]
=============================================================================
