----------------------------- MODULE BlockOrder -----------------------------
(***************************************************************************)
(* block_order.rs: the order in which a function's blocks are lowered, and *)
(* the edge blocks put on the edges that need code of their own.           *)
(* A lowered block is <<"orig", block, 0, 0>> or                           *)
(* <<"edge", pred, succ, successor index>>.                                *)
(***************************************************************************)
EXTENDS MiddleEndPasses

Orig(bb) == <<"orig", bb, 0, 0>>

Edge(pred, succ, k) == <<"edge", pred, succ, k>>

IsOrig(lb) == lb[1] = "orig"

\* Mutant: siblings in CFG post-order.
RECURSIVE DomtreeDfsBackwards(_, _, _)
DomtreeDfsBackwards(node, children, position) ==
    LET child_list == SortSeq(children[node],
                              LAMBDA a, b : position[a] > position[b])
    IN  <<node>> \o FlattenSeq([i \in DOMAIN child_list |->
                      DomtreeDfsBackwards(child_list[i], children, position)])

\* Pre-order over the dominator tree, the children of a node in CFG reverse
\* post-order.
RECURSIVE DomtreeDfs(_, _, _)
DomtreeDfs(node, children, position) ==
    LET child_list == SortSeq(children[node],
                              LAMBDA a, b : position[a] < position[b])
    IN  <<node>> \o FlattenSeq([i \in DOMAIN child_list |->
                      DomtreeDfs(child_list[i], children, position)])

DomtreeRpo(f) ==
    LET cfg == BuildCfgBoth(f.term, Entry(f))
        rpo == RpoPath(cfg.graph)
        tree == BuildDominanceTree(Idom(cfg.prece, rpo))
        ids == DomtreeDfs(1, tree, Positions(rpo))
    IN  [i \in DOMAIN ids |-> cfg.ids[ids[i]]]

\* Edges of every block of the layout count, reachable or not.
InDegree(f, bb) ==
    Cardinality({<<p, k>> \in ToSet(f.layout) \X {1, 2} :
                   k \in DOMAIN f.term[p] /\ f.term[p][k] = bb})

\* Mutant: only edges that carry values are split.
NeedsEdgeForValues(f, bb, k) ==
    Len(f.term[bb]) > 1 /\ f.args[bb][k] # <<>>

\* A multi-way terminator cannot own edge-specific work.
NeedsEdge(f, bb, k) ==
    LET succ == f.term[bb][k]
    IN  /\ Len(f.term[bb]) > 1
        /\ InDegree(f, succ) > 1 \/ f.args[bb][k] # <<>> \/ f.params[succ] # <<>>

SuccBlocks(f, bb) ==
    [k \in DOMAIN f.term[bb] |->
       IF NeedsEdge(f, bb, k) THEN Edge(bb, f.term[bb][k], k)
                              ELSE Orig(f.term[bb][k])]

\* Each block is followed by the edge blocks of its own terminator.
LoweredOrder(f) ==
    LET rpo == DomtreeRpo(f)
    IN  FlattenSeq([i \in DOMAIN rpo |->
          <<Orig(rpo[i])>> \o SelectSeq(SuccBlocks(f, rpo[i]),
                                        LAMBDA lb : ~IsOrig(lb))])

\* succ_indices.
LoweredSucc(f, lb) ==
    IF IsOrig(lb) THEN SuccBlocks(f, lb[2]) ELSE <<Orig(lb[3])>>

\* What lowering passes along the k-th edge out of a lowered block.
CollectOutgoingBlockArgs(f, lb, k) ==
    IF ~IsOrig(lb) THEN f.args[lb[2]][lb[4]]
    ELSE IF ~IsOrig(LoweredSucc(f, lb)[k]) THEN <<>>
    ELSE f.args[lb[2]][k]

\* choose_move_location: moves on the edge go to the end of from or to the
\* start of to; with neither free it panics.
CanPlaceMoves(f, order, from, to) ==
    LET Edges(lb) == {<<p, k>> \in ToSet(order) \X {1, 2} :
                        /\ k \in DOMAIN LoweredSucc(f, p)
                        /\ LoweredSucc(f, p)[k] = lb}
        to_ins == Cardinality(Edges(to)) + (IF to = order[1] THEN 1 ELSE 0)
        from_outs == Len(LoweredSucc(f, from))
    IN  to_ins <= 1 \/ from_outs <= 1
=============================================================================
