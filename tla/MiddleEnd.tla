----------------------------- MODULE MiddleEnd -----------------------------
(***************************************************************************)
(* One function on its way from the frontend's loads and stores to the     *)
(* lowered blocks: PassesManager::run_passes over the passes of            *)
(* MiddleEndPasses (SSA first, then global promotion, then the others to a *)
(* fixed point), BlockLoweringOrder::new, and then the lowered function    *)
(* run beside the function the frontend made, block by block, with the     *)
(* branches decided alike.                                                 *)
(***************************************************************************)
EXTENDS BlockOrder

CONSTANTS
    Programs,                 \* functions as the frontend makes them
    MAX_PIPELINE_ITERATIONS,  \* rounds before run_passes gives up
    HashOrders                \* iteration orders of the CFG's hash map

ASSUME PipelineAssumption == MAX_PIPELINE_ITERATIONS \in Nat \ {0}

VARIABLES
    prog,      \* the function before the passes
    func,      \* the function now
    pc,        \* the pass about to run, or the stage of the run
    todo,      \* globals not yet considered by the promotion
    round,     \* iteration of the fixed point
    changed,   \* a pass of this iteration changed the function
    panicked,  \* "none", or the pass that panicked
    src,       \* the source function's run: block, memory, values
    tgt        \* the lowered function's run: lowered block, memory, values

vars == <<prog, func, pc, todo, round, changed, panicked, src, tgt>>

\* Memory before the function runs.
Undefined == <<"undef", "", 0, 0>>

InitialMemory ==
    [s \in ToSet(Locals) \cup Globals |->
       IF s \in Globals THEN <<"init", s, 0, 0>> ELSE Undefined]

NotStarted == [at |-> Undefined, mem |-> InitialMemory, env |-> <<>>]

Init ==
    /\ prog \in Programs
    /\ func = prog
    /\ pc = "ssa"
    /\ todo = Globals
    /\ round = 1
    /\ changed = FALSE
    /\ panicked = "none"
    /\ src = NotStarted
    /\ tgt = NotStarted

-----------------------------------------------------------------------------
(* The passes.                                                             *)

Panic(where) ==
    /\ panicked' = where
    /\ pc' = "panicked"
    /\ UNCHANGED <<prog, func, todo, round, changed, src, tgt>>

\* SSATransform::run on the function: unreachable blocks first.
RunSSA ==
    /\ pc = "ssa"
    /\ \E f \in {UnreachableBasicBlock(func)} :
         IF KeyNotFound(f, ToSet(Locals)) THEN Panic("ssa")
         ELSE /\ func' = SSATransform(f)
              /\ pc' = "gsp"
              /\ UNCHANGED <<prog, todo, round, changed, panicked, src, tgt>>

\* One turn of promote_function's loop; the globals come in any order.
PromoteGlobal ==
    /\ pc = "gsp"
    /\ \E g \in todo :
         IF ~UsesGlobal(func, g)
         THEN /\ todo' = todo \ {g}
              /\ UNCHANGED <<prog, func, pc, round, changed, panicked, src, tgt>>
         ELSE IF KeyNotFound(func, {g}) THEN Panic("gsp")
         ELSE \E s \in {Threaded(func, g)} :
                IF WriteBackPanics(s) THEN Panic("gsp")
                ELSE /\ todo' = todo \ {g}
                     /\ func' = ApplyEdits(s, g)
                     /\ UNCHANGED <<prog, pc, round, changed, panicked, src, tgt>>

AllPromoted ==
    /\ pc = "gsp" /\ todo = {}
    /\ pc' = "simplify"
    /\ UNCHANGED <<prog, func, todo, round, changed, panicked, src, tgt>>

RunSimplifyCFG ==
    /\ pc = "simplify"
    /\ func' = SimplifyCFG(func)
    /\ changed' = (changed \/ func' # func)
    /\ pc' = "dpe"
    /\ UNCHANGED <<prog, todo, round, panicked, src, tgt>>

RunDeadPhiElimination ==
    /\ pc = "dpe"
    /\ \E r \in {DeadPhiElimination(func)} :
         /\ func' = r.func
         /\ changed' = (changed \/ r.changed)
    /\ pc' = "dce"
    /\ UNCHANGED <<prog, todo, round, panicked, src, tgt>>

RunDeadCodeElimination ==
    /\ pc = "dce"
    /\ func' = DeadCodeElimination(func)
    /\ changed' = (changed \/ func' # func)
    /\ pc' = "decide"
    /\ UNCHANGED <<prog, todo, round, panicked, src, tgt>>

\* The end of an iteration of run_passes.
NextIteration ==
    /\ pc = "decide" /\ changed
    /\ IF round = MAX_PIPELINE_ITERATIONS THEN Panic("pipeline")
       ELSE /\ round' = round + 1
            /\ changed' = FALSE
            /\ pc' = "simplify"
            /\ UNCHANGED <<prog, func, todo, panicked, src, tgt>>

\* Nothing changed: the function is lowered and both runs are set up.
Lower ==
    /\ pc = "decide" /\ ~changed
    /\ pc' = "run"
    /\ src' = [src EXCEPT !.at = Orig(Entry(prog))]
    /\ tgt' = [tgt EXCEPT !.at = LoweredOrder(func)[1]]
    /\ UNCHANGED <<prog, func, todo, round, changed, panicked>>

-----------------------------------------------------------------------------
(* What a function means: a block's loads and stores in order, then its    *)
(* terminator.                                                             *)

Eval(v, env) ==
    IF v \in DOMAIN env THEN env[v]
    ELSE IF v[1] \in {"undef_load", "undef_arg"} THEN Undefined ELSE v

ExecInst(m, inst) ==
    IF inst.op = "store"
    THEN [m EXCEPT !.mem[inst.slot] = Eval(inst.src, m.env)]
    ELSE [m EXCEPT !.env = (inst.id :> m.mem[inst.slot]) @@ m.env]

ExecBody(f, m, bb) == FoldLeft(ExecInst, m, f.body[bb])

\* The arms a terminator may take.
Arms(f, bb) ==
    IF f.cond[bb] = "1" THEN {1}
    ELSE IF f.cond[bb] = "0" THEN {2} ELSE DOMAIN f.term[bb]

\* Parameters of the target get the arguments at once.
PassArgs(f, m, to, args) ==
    LET params == f.params[to]
        values == [i \in DOMAIN args |-> Eval(args[i], m.env)]
    IN  [m EXCEPT !.env = [p \in ToSet(params) |->
           values[CHOOSE i \in DOMAIN params : params[i] = p]] @@ m.env]

\* Taking the k-th edge out of a lowered block.
TakeEdge(f, m, k) ==
    LET to == LoweredSucc(f, m.at)[k]
        args == CollectOutgoingBlockArgs(f, m.at, k)
    IN  [(IF IsOrig(to) THEN PassArgs(f, m, to[2], args) ELSE m) EXCEPT !.at = to]

GoTo(m, bb) == [m EXCEPT !.at = Orig(bb)]

InStep == src.at = tgt.at

\* Both at the same block: both run it and branch alike.  A branch that was
\* folded to a jump has one arm left.
RunBlock ==
    /\ pc = "run" /\ InStep
    /\ ~IsReturn(prog, src.at[2])
    /\ \E k \in Arms(prog, src.at[2]) :
       \E s \in {ExecBody(prog, src, src.at[2])} :
       \E t \in {ExecBody(func, tgt, src.at[2])} :
         /\ src' = GoTo(s, prog.term[src.at[2]][k])
         /\ tgt' = TakeEdge(func, t, IF Len(func.term[src.at[2]]) = 1 THEN 1 ELSE k)
    /\ UNCHANGED <<prog, func, pc, todo, round, changed, panicked>>

\* An edge block jumps on.
RunEdge ==
    /\ pc = "run" /\ ~IsOrig(tgt.at)
    /\ tgt' = TakeEdge(func, tgt, 1)
    /\ UNCHANGED <<prog, func, pc, todo, round, changed, panicked, src>>

\* The source goes through a block the passes removed.
RunRemoved ==
    /\ pc = "run" /\ IsOrig(tgt.at)
    /\ ~Contains(func.layout, src.at[2])
    /\ \E k \in Arms(prog, src.at[2]) :
         src' = GoTo(ExecBody(prog, src, src.at[2]), prog.term[src.at[2]][k])
    /\ UNCHANGED <<prog, func, pc, todo, round, changed, panicked, tgt>>

RunReturn ==
    /\ pc = "run" /\ InStep
    /\ IsReturn(prog, src.at[2])
    /\ src' = ExecBody(prog, src, src.at[2])
    /\ tgt' = ExecBody(func, tgt, src.at[2])
    /\ pc' = "returned"
    /\ UNCHANGED <<prog, func, todo, round, changed, panicked>>

Finished == pc \in {"returned", "panicked"} /\ UNCHANGED vars

Passes ==
    \/ RunSSA \/ PromoteGlobal \/ AllPromoted
    \/ RunSimplifyCFG \/ RunDeadPhiElimination \/ RunDeadCodeElimination
    \/ NextIteration \/ Lower

Next == Passes \/ RunBlock \/ RunEdge \/ RunRemoved \/ RunReturn \/ Finished

Spec == Init /\ [][Next]_vars

-----------------------------------------------------------------------------
(* Properties.                                                             *)

Reached(f) == Reachable(f.term, Entry(f))

\* Types; and on every edge of a reachable block as many arguments as the
\* target has parameters, which the builders of jumps and branches assert.
TypeOK ==
    /\ pc \in {"ssa", "gsp", "simplify", "dpe", "dce", "decide", "run",
               "returned", "panicked"}
    /\ todo \subseteq Globals
    /\ round \in 1 .. MAX_PIPELINE_ITERATIONS
    /\ changed \in BOOLEAN
    /\ panicked \in {"none", "ssa", "gsp", "pipeline"}
    /\ Reached(func) \subseteq ToSet(func.layout)
    /\ \A bb \in Reached(func) : \A k \in DOMAIN func.term[bb] :
         Len(func.args[bb][k]) = Len(func.params[func.term[bb][k]])

\* v is available before the i-th instruction of bb.
Available(f, bb, i, v) ==
    \/ v[1] \in {"const", "undef_load", "undef_arg", "none"}
    \/ \E d \in ToSet(f.layout) :
         /\ OnEveryPath(f.term, Entry(f), d, bb)
         /\ \/ Contains(f.params[d], v)
            \/ \E j \in DOMAIN f.body[d] :
                 f.body[d][j].id = v /\ (d = bb => j < i)

\* After every pass each value a reachable block uses is computed on every
\* path to the use: the promotions leave no use of a load they removed, and
\* no use above or beside its definition (ssa.rs dfs, scalar_global_promotion
\* thread, DeadPhiElimination's replacements).
DefsDominateUses ==
    pc \notin {"run", "returned"} =>
      \A bb \in Reached(func) :
        /\ \A i \in DOMAIN func.body[bb] :
             Available(func, bb, i, func.body[bb][i].src)
        /\ \A k \in DOMAIN func.args[bb] : \A n \in DOMAIN func.args[bb][k] :
             Available(func, bb, Len(func.body[bb]) + 1, func.args[bb][k][n])

\* The analyses that module v2 of dom_tree.rs and utils/cfg.rs compute are
\* the textbook notions: dominates is "on every path from the entry", and
\* acyclic is "no block reaches itself", whatever order the hash map of the
\* predecessors iterates in.
TreeMatchesGraph ==
    pc = "ssa" =>
      \A hash \in HashOrders :
        LET cfg == CfgNew(prog.term, Entry(prog), hash)
            numbering == Numbering(cfg)
            blocks == Reached(prog)
        IN  /\ ToSet(cfg.rpo) = blocks /\ Len(cfg.rpo) = Cardinality(blocks)
            /\ cfg.acyclic <=> ~HasCycle(prog.term, blocks)
            /\ \A d \in blocks, bb \in blocks :
                 Dominates(numbering, d, bb)
                   <=> OnEveryPath(prog.term, Entry(prog), d, bb)

\* The legacy dominator tree, which ssa.rs, scalar_global_promotion.rs and
\* block_order.rs use, may put a block too high, but never wrongly: the
\* ancestors of a block dominate it, and its parent is an ancestor of each of
\* its predecessors, so that the frontier walk of dominance_analysis ends.
LegacyTreeSound ==
    pc = "ssa" =>
      LET cfg == BuildCfgBoth(prog.term, Entry(prog))
          map == Idom(cfg.prece, RpoPath(cfg.graph))
          up[n \in 0 .. Cardinality(DOMAIN map)] ==
            IF n = 0 THEN [i \in DOMAIN map |-> {i}]
            ELSE [i \in DOMAIN map |-> up[n - 1][i] \cup up[n - 1][map[i]]]
          ancestors == up[Cardinality(DOMAIN map)]
      IN  \A i \in DOMAIN map :
            /\ 1 \in ancestors[i]
            /\ \A a \in ancestors[i] :
                 OnEveryPath(prog.term, Entry(prog), cfg.ids[a], cfg.ids[i])
            /\ \A k \in DOMAIN cfg.prece[i] : map[i] \in ancestors[cfg.prece[i][k]]

\* The state in which the function has just been lowered; no block jumps to
\* the entry.
Lowered == pc = "run" /\ src.at = Orig(Entry(prog))

\* The allocator finds a place for the moves of every edge
\* (choose_move_location never meets a critical edge), a block with several
\* successors carries no arguments, and an edge into a block with parameters
\* carries one argument for each.
EdgesPlaceable ==
    Lowered =>
      LET order == LoweredOrder(func)
      IN  \A n \in DOMAIN order :
            LET succs == LoweredSucc(func, order[n])
            IN  \A k \in DOMAIN succs :
                  LET args == CollectOutgoingBlockArgs(func, order[n], k)
                  IN  /\ CanPlaceMoves(func, order, order[n], succs[k])
                      /\ Len(succs) > 1 => args = <<>>
                      /\ IsOrig(succs[k]) =>
                           Len(args) = Len(func.params[succs[k][2]])

\* Lowering emits every reachable block and every edge block once, each
\* block after all blocks that dominate it and an edge block after its
\* predecessor, although the tree it walks is the legacy one.
DominatorsFirst ==
    Lowered =>
      LET order == LoweredOrder(func)
          At(lb) == CHOOSE n \in DOMAIN order : order[n] = lb
          blocks == Reached(func)
      IN  /\ IsInjective(order)
          /\ {order[n][2] : n \in {m \in DOMAIN order : IsOrig(order[m])}} = blocks
          /\ \A n \in DOMAIN order : \A k \in DOMAIN LoweredSucc(func, order[n]) :
               Contains(order, LoweredSucc(func, order[n])[k])
          /\ \A n \in DOMAIN order :
               ~IsOrig(order[n]) => At(Orig(order[n][2])) < n
          /\ \A d \in blocks, bb \in blocks :
               OnEveryPath(func.term, Entry(func), d, bb)
                 => At(Orig(d)) <= At(Orig(bb))

\* What the lowered run may have where the source run has s: an undefined
\* value may be anything.
Agree(s, t) == s = Undefined \/ s = t

\* The passes and the lowering keep the meaning of the function: it goes
\* through the same blocks, except removed ones, and when it returns the
\* values returned and the globals are those of the source.
ValuesPreserved ==
    /\ (pc = "run" /\ IsOrig(tgt.at) /\ Contains(func.layout, src.at[2])) => InStep
    /\ pc = "returned" =>
         /\ \A g \in Globals : Agree(src.mem[g], tgt.mem[g])
         /\ \A i \in DOMAIN prog.args[src.at[2]][1] :
              Agree(Eval(prog.args[src.at[2]][1][i], src.env),
                    Eval(func.args[src.at[2]][1][i], tgt.env))

\* Every pass runs to its end and the fixed point is reached within the bound
\* of run_passes.
PassesComplete == panicked = "none"

\* scalar_global_promotion.rs: "load once at entry, stores become defs, one
\* write-back before each return".
WriteBackCompletes == panicked # "gsp"

\* dce.rs leaves an unreachable block alone when something uses its values,
\* and the passes after it cope with it.
UnreachableBlocksHarmless == panicked # "ssa"
=============================================================================
