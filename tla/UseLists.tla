------------------------------ MODULE UseLists ------------------------------
(***************************************************************************)
(* The IR store of raana_ir: the arena of instructions with their reverse  *)
(* use sets (ir/arena.rs, ir/builder.rs), the ownership of instructions by *)
(* the blocks of the layout (ir/layout.rs), and the operations of          *)
(* FunctionData (ir/function.rs) and opt/utils.rs that change the two      *)
(* together.  The optimization passes run one after the other; each one is *)
(* a sequence of these operations.                                         *)
(*                                                                         *)
(* An instruction is reduced to what it uses.  An `op` stands for every    *)
(* value, with the set of its operands (none for a block parameter or an   *)
(* alloc); an `int` is a constant, zero or not.  The order of instructions *)
(* in a block plays no part here.  Handles are never reused.               *)
(***************************************************************************)
EXTENDS Integers, FiniteSets

CONSTANTS Values,       \* handles of instructions that are values
          Terminators,  \* handles of jumps and branches
          Globals,      \* handles in the global arena
          Blocks, Entry,
          MaxOperands,  \* bound: operands of a value, arguments of an edge
          FoldsArguments, \* whether a rewrite may meet a branch on a constant
                          \* that passes the rewritten value on
          NoBlock

Inst  == Values \cup Terminators \cup Globals
Local == Values \cup Terminators
Operand == Values \cup Globals

ASSUME StoreAssumption ==
    /\ Values \cap Terminators = {} /\ Globals \cap Local = {}
    /\ Entry \in Blocks /\ NoBlock \notin Blocks
    /\ FoldsArguments \in BOOLEAN /\ MaxOperands \in Nat
    /\ IsFiniteSet(Operand)

VARIABLES data,       \* the arena: what each handle stands for
          used_by,    \* the reverse uses of each instruction
          bb_used_by, \* the terminators that target each block
          layout,     \* the blocks in the layout
          removed,    \* the blocks that were taken out of it
          parent,     \* the block that holds each instruction
          spent,      \* handles that were handed out
          doomed      \* instructions the running sweep still has to remove

vars == <<data, used_by, bb_used_by, layout, removed, parent, spent, doomed>>

Sets(S) == {s \in SUBSET S : Cardinality(s) <= MaxOperands}

NoData == [k |-> "none"]
Constant == [k : {"int"}, zero : BOOLEAN]
Op     == [k : {"op"}, ops : Sets(Operand)]
Value  == Constant \cup Op
Jump   == [k : {"jump"}, target : Blocks, args : Sets(Operand)]
Branch == [k : {"branch"}, cond : Values, t : Blocks, targs : Sets(Operand),
           f : Blocks, fargs : Sets(Operand)]
Terminator == Jump \cup Branch
Global == [k |-> "global"]

(* `inst_usage` and `bb_usage` *)
Uses(d) == CASE d.k = "op" -> d.ops
             [] d.k = "jump" -> d.args
             [] d.k = "branch" -> {d.cond} \cup d.targs \cup d.fargs
             [] OTHER -> {}
Targets(d) == CASE d.k = "jump" -> {d.target}
                [] d.k = "branch" -> {d.t, d.f}
                [] OTHER -> {}

Live   == {i \in Inst : data[i] # NoData}
Placed == {i \in Local : parent[i] # NoBlock}

TypeOK ==
    /\ data \in [Inst -> Value \cup Terminator \cup {NoData, Global}]
    /\ \A v \in Values : data[v] \in Value \cup {NoData}
    /\ \A t \in Terminators : data[t] \in Terminator \cup {NoData}
    /\ \A g \in Globals : data[g] = Global
    /\ used_by \in [Inst -> SUBSET Local]
    /\ bb_used_by \in [Blocks -> SUBSET Terminators]
    /\ layout \subseteq Blocks /\ removed \subseteq Blocks
    /\ parent \in [Local -> Blocks \cup {NoBlock}]
    /\ spent \subseteq Local /\ doomed \subseteq Placed
    /\ Live \subseteq spent \cup Globals /\ Placed \subseteq Live

Init ==
    /\ data = [i \in Inst |-> IF i \in Globals THEN Global ELSE NoData]
    /\ used_by = [i \in Inst |-> {}]
    /\ bb_used_by = [b \in Blocks |-> {}]
    /\ layout = {Entry} /\ removed = {}
    /\ parent = [i \in Local |-> NoBlock]
    /\ spent = {} /\ doomed = {}
-----------------------------------------------------------------------------
Linked(users, used, i) ==
    [u \in DOMAIN users |-> IF u \in used THEN users[u] \cup {i} ELSE users[u]]
Unlinked(users, used, i) ==
    [u \in DOMAIN users |-> IF u \in used THEN users[u] \ {i} ELSE users[u]]

(* `alloc_local_inst`; looking up an operand without data panics. *)
New(i, d) ==
    /\ i \in Local \ spent /\ Uses(d) \subseteq Live
    /\ Targets(d) \cap removed = {}
    /\ data' = [data EXCEPT ![i] = d]
    /\ used_by' = Linked(used_by, Uses(d), i)
    /\ bb_used_by' = Linked(bb_used_by, Targets(d), i)
    /\ spent' = spent \cup {i}
    /\ UNCHANGED <<layout, removed, parent, doomed>>

(* `push_bb_back`, `insert_bb_after`, `insert_bb_before` *)
PlaceBlock(b) ==
    /\ b \notin layout \cup removed
    /\ layout' = layout \cup {b}
    /\ UNCHANGED <<data, used_by, bb_used_by, removed, parent, spent, doomed>>

InstsOf(b) == {i \in Placed : parent[i] = b}
TerminatorsOf(b) == InstsOf(b) \cap Terminators

(* `insert_inst`, `insert_inst_before` and `insert_before_terminator`, and *)
(* the move of an instruction (`remove_inst`, then one of them).           *)
Place(i, b) ==
    /\ i \in Live \cap Local /\ b \in layout /\ parent[i] # b
    /\ data[i] \notin Constant
    /\ i \in Terminators => TerminatorsOf(b) = {}
    /\ parent' = [parent EXCEPT ![i] = b]
    /\ UNCHANGED <<data, used_by, bb_used_by, layout, removed, spent, doomed>>

(* Mutated form: what the old data used still lists the instruction. *)
ReplaceKeepsLinks(i, d) ==
    /\ i \in Live \ Globals
    /\ Uses(data[i]) \cup Uses(d) \subseteq Live \ {i}
    /\ Targets(d) \cap removed = {}
    /\ data' = [data EXCEPT ![i] = d]
    /\ used_by' = Linked(used_by, Uses(d), i)
    /\ bb_used_by' = Linked(bb_used_by, Targets(d), i)
    /\ UNCHANGED <<layout, removed, parent, spent, doomed>>

(* `replace_inst_with`: new data under the same handle, which keeps its    *)
(* users.                                                                  *)
Replace(i, d) ==
    /\ i \in Live \ Globals
    /\ Uses(data[i]) \cup Uses(d) \subseteq Live \ {i}
    /\ Targets(d) \cap removed = {}
    /\ data' = [data EXCEPT ![i] = d]
    /\ used_by' = Linked(Unlinked(used_by, Uses(data[i]), i), Uses(d), i)
    /\ bb_used_by' = Linked(Unlinked(bb_used_by, Targets(data[i]), i), Targets(d), i)
    /\ UNCHANGED <<layout, removed, parent, spent, doomed>>

(* A value found constant becomes an integer and leaves the layout         *)
(* (`replace_inst_with`, then `detach_layout_inst`).                       *)
Detach(i, d) ==
    /\ i \in Placed \cap Values /\ Uses(data[i]) \subseteq Live
    /\ data' = [data EXCEPT ![i] = d]
    /\ used_by' = Unlinked(used_by, Uses(data[i]), i)
    /\ parent' = [parent EXCEPT ![i] = NoBlock]
    /\ UNCHANGED <<bb_used_by, layout, removed, spent, doomed>>
-----------------------------------------------------------------------------
(* `remove_layout_inst` of every instruction of S: `detach_inst_usage`     *)
(* reaches the operands that still have data in the function's own arena,  *)
(* and the targets that are still in the layout.                           *)
Detached(S) ==
    /\ data' = [i \in Inst |-> IF i \in S THEN NoData ELSE data[i]]
    /\ used_by' = [i \in Inst |->
                     IF i \in S THEN {}
                     ELSE {u \in used_by[i] : u \in S /\ i \in Local
                                                => i \notin Uses(data[u])}]
    /\ bb_used_by' = [b \in Blocks |->
                        {t \in bb_used_by[b] : t \in S /\ b \in layout
                                                 => b \notin Targets(data[t])}]

(* Mutated form: the layout still owns what has no data. *)
FreedInPlace(S) == Detached(S) /\ UNCHANGED parent

Freed(S) ==
    /\ Detached(S)
    /\ parent' = [i \in Local |-> IF i \in S THEN NoBlock ELSE parent[i]]

(* A pass removes an instruction it knows to be unused. *)
RemoveInst(i) ==
    /\ i \in Placed /\ used_by[i] = {}
    /\ Freed({i})
    /\ UNCHANGED <<layout, removed, spent, doomed>>

(* `DeadCodeElimination::run_on_func`, the mark: the live instructions     *)
(* include the critical ones, every terminator among them, and whatever a  *)
(* live one uses.                                                          *)
Closed(live) == \A i \in live : Uses(data[i]) \cap Live \cap Local \subseteq live
NothingPending ==
    \A i \in Live \cap Local : Uses(data[i]) # {} \/ i \in Terminators => i \in Placed

Mark(live) ==
    /\ NothingPending
    /\ Placed \cap Terminators \subseteq live /\ Closed(live)
    /\ doomed' = Placed \ live /\ doomed' # {}
    /\ UNCHANGED <<data, used_by, bb_used_by, layout, removed, parent, spent>>

(* The sweep removes the rest one by one, whether or not another doomed    *)
(* instruction still uses it.                                              *)
Sweep(i) ==
    /\ i \in doomed
    /\ Freed({i})
    /\ doomed' = doomed \ {i}
    /\ UNCHANGED <<layout, removed, spent>>

Edges == {e \in layout \X Blocks :
            \E t \in TerminatorsOf(e[1]) : e[2] \in Targets(data[t])}
Closure(S) == \A e \in Edges : e[1] \in S => e[2] \in S
Reachable == {b \in Blocks : \A S \in SUBSET Blocks :
                                Entry \in S /\ Closure(S) => b \in S}

(* Mutated form: the instructions of the block may have users elsewhere. *)
RemoveBlockInUse(b) ==
    /\ NothingPending
    /\ b \in layout \ Reachable
    /\ Freed(InstsOf(b))
    /\ layout' = layout \ {b} /\ removed' = removed \cup {b}
    /\ UNCHANGED <<spent, doomed>>

(* `UnreachableBasicBlock` and the end of IPSCCP: an unreachable block     *)
(* none of whose instructions is used is taken out with all of them        *)
(* (`remove_layout_basicblock`).                                           *)
RemoveBlock(b) ==
    /\ NothingPending
    /\ b \in layout \ Reachable
    /\ \A i \in InstsOf(b) : used_by[i] = {}
    /\ Freed(InstsOf(b))
    /\ layout' = layout \ {b} /\ removed' = removed \cup {b}
    /\ UNCHANGED <<spent, doomed>>
-----------------------------------------------------------------------------
(* `visit_and_replace_single`: the data of a user of rep.  A branch whose  *)
(* condition is a constant becomes a jump.                                 *)
Subst(S, rep, with) == IF rep \in S THEN (S \ {rep}) \cup {with} ELSE S

Substituted(d, rep, with) ==
    LET cond == IF d.cond = rep THEN with ELSE d.cond IN
    CASE d.k = "op" -> [d EXCEPT !.ops = Subst(@, rep, with)]
      [] d.k = "jump" -> [d EXCEPT !.args = Subst(@, rep, with)]
      [] d.k = "branch" /\ data[cond].k = "int" ->
            IF data[cond].zero
            THEN [k |-> "jump", target |-> d.f, args |-> d.fargs]
            ELSE [k |-> "jump", target |-> d.t, args |-> d.targs]
      [] d.k = "branch" /\ data[cond].k # "int" ->
            [d EXCEPT !.cond = cond, !.targs = Subst(@, rep, with),
                      !.fargs = Subst(@, rep, with)]
      [] OTHER -> d

(* `visit_and_replace`: every instruction in the set of users is replaced  *)
(* in turn.  Some passes leave what was replaced to dead code elimination, *)
(* others remove it at once (`replace_with_value` of strength reduction).  *)
ReplaceUses(rep, with, gone) ==
    LET users == used_by[rep]
        new == [u \in users |-> Substituted(data[u], rep, with)]
        left(i) == (used_by[i] \ users) \cup {u \in users : i \in Uses(new[u])}
    IN
    /\ rep \in Placed \cap Values /\ with \in (Live \cap Values) \ {rep}
    /\ with \notin users /\ \A u \in users : Uses(data[u]) \subseteq Live
    /\ FoldsArguments \/ \A u \in users :
          data[u].k = "branch" /\ new[u].k = "jump" => rep \notin new[u].args
    /\ data' = [i \in Inst |-> CASE i = rep -> IF gone THEN NoData ELSE data[i]
                                 [] i \in users /\ i # rep -> new[i]
                                 [] OTHER -> data[i]]
    /\ used_by' = [i \in Inst |->
                     CASE ~gone -> left(i)
                       [] gone /\ i = rep -> {}
                       [] gone /\ i # rep ->
                            IF i \in Uses(data[rep]) \cap Local
                            THEN left(i) \ {rep} ELSE left(i)]
    /\ bb_used_by' = [b \in Blocks |->
                        {t \in bb_used_by[b] : t \in users => b \in Targets(new[t])}]
    /\ parent' = [parent EXCEPT ![rep] = IF gone THEN NoBlock ELSE @]
    /\ UNCHANGED <<layout, removed, spent, doomed>>

(* Only the sweep itself runs while it has instructions to remove. *)
Idle == doomed = {}

Next ==
    \/ \E v \in Values, d \in Value : Idle /\ New(v, d)
    \/ \E v \in Values, d \in Op : Idle /\ Replace(v, d)
    \/ \E t \in Terminators, d \in Terminator : Idle /\ New(t, d)
    \/ \E t \in Terminators, d \in Terminator : Idle /\ Replace(t, d)
    \/ \E v \in Values, d \in Constant : Idle /\ Detach(v, d)
    \/ \E b \in Blocks : Idle /\ PlaceBlock(b)
    \/ \E b \in Blocks : Idle /\ RemoveBlock(b)
    \/ \E i \in Local, b \in Blocks : Idle /\ Place(i, b)
    \/ \E i \in Local : Idle /\ RemoveInst(i)
    \/ \E live \in SUBSET (Live \cap Local) : Idle /\ Mark(live)
    \/ \E i \in Local : Sweep(i)
    \/ \E rep, with \in Values, gone \in BOOLEAN : Idle /\ ReplaceUses(rep, with, gone)

Spec == Init /\ [][Next]_vars
-----------------------------------------------------------------------------
(* A value's reverse-use set holds its users, all of them and nothing      *)
(* else: replacing a value misses no user, and a value with an empty set   *)
(* can go.  A global's set has every user; removed ones stay in it.        *)
UsersExact ==
    /\ \A v \in Values \cap Live : used_by[v] = {i \in Live : v \in Uses(data[i])}
    /\ \A g \in Globals : {i \in Live : g \in Uses(data[i])} \subseteq used_by[g]

(* The users of a block that are in the layout are the terminators that    *)
(* target it, which is how its predecessors and the arguments of its       *)
(* parameters are found.                                                   *)
PredecessorsFound ==
    \A b \in layout :
        bb_used_by[b] \cap Placed = {t \in Placed : b \in Targets(data[t])}

(* Between two operations every operand of an instruction in the layout    *)
(* has data: no removal leaves a dangling operand behind.                  *)
NoDanglingOperand ==
    doomed = {} => \A i \in Placed : Uses(data[i]) \subseteq Live
=============================================================================
