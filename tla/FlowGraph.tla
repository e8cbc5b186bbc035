----------------------------- MODULE FlowGraph -----------------------------
(***************************************************************************)
(* The control-flow analyses of the middle end, as pure operators.         *)
(*                                                                         *)
(* A function's control flow is term, which gives every block the sequence *)
(* of its terminator's targets: <<>> for a return, <<t>> for a jump and    *)
(* <<t, f>> for a branch.  The legacy analyses (analysis_passes/cfg.rs and *)
(* dom_tree.rs) number the reachable blocks densely; the ids here are      *)
(* 1, 2, ... where the code's are 0, 1, ...  The data-driven ones          *)
(* (utils/cfg.rs and dom_tree.rs, module v2) work on the blocks.           *)
(***************************************************************************)
EXTENDS Integers, Sequences, FiniteSets, SequencesExt

-----------------------------------------------------------------------------
(* The legacy graph: analysis_passes/cfg.rs.                               *)

IdOf(ids, bb) == CHOOSE i \in DOMAIN ids : ids[i] = bb

CheckOrAllocId(ids, bb) == IF Contains(ids, bb) THEN ids ELSE Append(ids, bb)

Push(s, visits) == [s EXCEPT !.stack = @ \o visits]

Enter(bb) == [node |-> bb, source |-> 0]

FalseArm(id, bb) == [node |-> bb, source |-> id]

AddEdge(s, source, bb) ==
    LET ids == CheckOrAllocId(s.ids, bb)
        target == IdOf(ids, bb)
    IN  [s EXCEPT !.ids = ids,
                  !.graph[source] = Append(@, target),
                  !.prece[target] = Append(@, source)]

\* Entering a block: a branch records its true edge now and its false edge
\* only after the blocks reached through the true one.
EnterBlock(term, s, bb) ==
    LET ids == CheckOrAllocId(s.ids, bb)
        id == IdOf(ids, bb)
        entered == [s EXCEPT !.visited = @ \cup {bb}, !.ids = ids]
    IN  IF term[bb] = <<>> THEN entered
        ELSE Push(AddEdge(entered, id, term[bb][1]),
                  (IF Len(term[bb]) = 2 THEN <<FalseArm(id, term[bb][2])>>
                                        ELSE <<>>)
                  \o <<Enter(term[bb][1])>>)

RECURSIVE Explore(_, _)
Explore(term, s) ==
    IF s.stack = <<>> THEN s
    ELSE LET visit == Last(s.stack)
             popped == [s EXCEPT !.stack = Front(@)]
         IN  Explore(term,
               IF visit.source # 0
               THEN Push(AddEdge(popped, visit.source, visit.node),
                         <<Enter(visit.node)>>)
               ELSE IF visit.node \in s.visited THEN popped
               ELSE EnterBlock(term, popped, visit.node))

\* ids lists the reachable blocks by id; graph and prece are the edges and
\* the reversed edges, parallel ones kept.
BuildCfgBoth(term, entry) ==
    LET none == [i \in 1 .. Cardinality(DOMAIN term) |-> <<>>]
    IN  Explore(term, [stack |-> <<Enter(entry)>>, visited |-> {},
                       ids |-> <<>>, graph |-> none, prece |-> none])

\* A depth-first walk with explicit Enter and Exit visits; path is the
\* postorder so far.
RECURSIVE Postorder(_, _, _, _)
Postorder(graph, stack, visited, path) ==
    IF stack = <<>> THEN path
    ELSE LET visit == Last(stack)
             rest == Front(stack)
         IN  IF visit.exit
             THEN Postorder(graph, rest, visited, Append(path, visit.node))
             ELSE IF visit.node \in visited
             THEN Postorder(graph, rest, visited, path)
             ELSE LET seen == visited \cup {visit.node}
                      next == SelectSeq(Reverse(graph[visit.node]),
                                        LAMBDA n : n \notin seen)
                  IN  Postorder(graph,
                        rest \o <<[node |-> visit.node, exit |-> TRUE]>>
                             \o [i \in DOMAIN next |->
                                  [node |-> next[i], exit |-> FALSE]],
                        seen, path)

RpoPath(graph) ==
    Reverse(Postorder(graph, <<[node |-> 1, exit |-> FALSE]>>, {}, <<>>))

-----------------------------------------------------------------------------
(* Immediate dominators: dom_tree.rs.                                      *)

Unset == 0

\* The walk to a common ancestor, by the order the caller passes: lca in the
\* legacy code, intersect in module v2.
RECURSIVE Lca(_, _, _, _)
Lca(p1, p2, map, order) ==
    IF p1 = p2 THEN p1
    ELSE IF order[p1] > order[p2] THEN Lca(map[p1], p2, map, order)
    ELSE Lca(p1, map[p2], map, order)

\* Mutant: only the first processed predecessor counts.
FirstProcessed(preds, map, order) ==
    Head(SelectSeq(preds, LAMBDA x : map[x] # Unset))

NewIdom(preds, map, order) ==
    LET known == SelectSeq(preds, LAMBDA x : map[x] # Unset)
    IN  FoldLeft(LAMBDA a, b : Lca(a, b, map, order), Head(known), Tail(known))

Sweep(preds, rpo, order, map) ==
    FoldLeft(LAMBDA m, n : [m EXCEPT ![n] = NewIdom(preds[n], m, order)],
             map, Tail(rpo))

RECURSIVE Converge(_, _, _, _)
Converge(preds, rpo, order, map) ==
    LET next == Sweep(preds, rpo, order, map)
    IN  IF next = map THEN map ELSE Converge(preds, rpo, order, next)

Positions(rpo) == [n \in ToSet(rpo) |-> CHOOSE i \in DOMAIN rpo : rpo[i] = n]

\* idom computes the positions of the ids in the reverse postorder, and then
\* passes the reverse postorder itself to lca, where it is read as if it gave
\* the position of each id.
Idom(prece, rpo) ==
    Converge(prece, rpo, rpo,
             [i \in DOMAIN rpo |-> IF i = 1 THEN 1 ELSE Unset])

\* The children of each id, in increasing order.
BuildDominanceTree(map) ==
    [i \in DOMAIN map |->
       SetToSortSeq({v \in DOMAIN map : v > 1 /\ map[v] = i}, LAMBDA a, b : a < b)]

-----------------------------------------------------------------------------
(* The data-driven graph: utils/cfg.rs.                                    *)

\* The two arms of a branch to one block are one structural edge.
BlockSuccessors(term, bb) ==
    IF Len(term[bb]) = 2 /\ term[bb][1] = term[bb][2]
    THEN <<term[bb][1]>> ELSE term[bb]

RECURSIVE Traverse(_, _)
Traverse(term, s) ==
    IF s.stack = <<>> THEN s
    ELSE LET visit == Last(s.stack)
             bb == visit.node
             popped == [s EXCEPT !.stack = Front(@)]
         IN  Traverse(term,
               IF visit.exit
               THEN [popped EXCEPT !.active = @ \ {bb},
                                   !.visited = @ \cup {bb},
                                   !.postorder = Append(@, bb)]
               ELSE IF bb \in s.visited THEN popped
               ELSE IF bb \in s.active THEN [popped EXCEPT !.acyclic = FALSE]
               ELSE LET active == s.active \cup {bb}
                        succs == Reverse(BlockSuccessors(term, bb))
                        next == SelectSeq(succs, LAMBDA n :
                                            n \notin active \cup s.visited)
                    IN  [popped EXCEPT
                           !.active = active,
                           !.acyclic = @ /\ ToSet(succs) \cap active = {},
                           !.stack = @ \o <<[node |-> bb, exit |-> TRUE]>>
                                       \o [i \in DOMAIN next |->
                                            [node |-> next[i], exit |-> FALSE]]])

\* The predecessors of a block are listed in the iteration order of a hash
\* map of the blocks: hash is that order.
CfgNew(term, entry, hash) ==
    LET t == Traverse(term, [stack |-> <<[node |-> entry, exit |-> FALSE]>>,
                             active |-> {}, visited |-> {},
                             postorder |-> <<>>, acyclic |-> TRUE])
    IN  [entry |-> entry, acyclic |-> t.acyclic, rpo |-> Reverse(t.postorder),
         preds |-> [bb \in t.visited |->
                      SelectSeq(hash, LAMBDA p :
                        /\ p \in t.visited
                        /\ Contains(BlockSuccessors(term, p), bb))]]

\* Mutant: the reverse postorder itself, as in the legacy code.
RpoAsIndices(cfg) == cfg.rpo

RpoIndices(cfg) == Positions(cfg.rpo)

\* The entry is its own dominator inside the algorithm only.
FromCfg(cfg) ==
    Converge(cfg.preds, cfg.rpo, RpoIndices(cfg),
             [bb \in ToSet(cfg.rpo) |-> IF bb = cfg.entry THEN bb ELSE Unset])

\* Depth-first numbering of the tree; children are in reverse postorder.
RECURSIVE NumberTree(_, _, _)
NumberTree(children, bb, s) ==
    LET entered == [s EXCEPT !.in[bb] = s.time, !.time = @ + 1]
        below == FoldLeft(LAMBDA t, c : NumberTree(children, c, t),
                          entered, children[bb])
    IN  [below EXCEPT !.out[bb] = below.time, !.time = @ + 1]

Numbering(cfg) ==
    LET idoms == FromCfg(cfg)
        blocks == ToSet(cfg.rpo)
        children == [bb \in blocks |->
                       SelectSeq(Tail(cfg.rpo), LAMBDA c : idoms[c] = bb)]
    IN  NumberTree(children, cfg.entry,
                   [in |-> [bb \in blocks |-> 0],
                    out |-> [bb \in blocks |-> 0], time |-> 0])

Dominates(numbering, d, bb) ==
    /\ numbering.in[d] <= numbering.in[bb]
    /\ numbering.out[bb] <= numbering.out[d]

-----------------------------------------------------------------------------
(* Reference definitions, for the properties.                              *)

RECURSIVE Closure(_, _, _)
Closure(term, avoid, found) ==
    LET next == found \cup ((UNION {ToSet(term[bb]) : bb \in found}) \ avoid)
    IN  IF next = found THEN found ELSE Closure(term, avoid, next)

Reachable(term, entry) == Closure(term, {}, {entry})

\* d is on every path from the entry to bb.
OnEveryPath(term, entry, d, bb) ==
    d = entry \/ d = bb \/ bb \notin Closure(term, {d}, {entry})

\* Some block reaches itself.
HasCycle(term, blocks) ==
    \E bb \in blocks : bb \in Closure(term, {}, ToSet(term[bb]))
=============================================================================
