# A TLA+ verification of AnonBeijingCompiler

AnonBeijingCompiler translates SysY to AArch64 and RISC-V assembly. These
modules model the parts of it where a long sequence of small edits to several
coupled data structures has to come out right: the IR store the optimizer
rewrites, the passes that bring a function into SSA form and clean it up, the
order of its lowered blocks, the register allocator with its move resolution,
and the buffer that simplifies and lays out branches. TLC checks them on small
instances. For every instance, TLAPS proves the results about the IR store, about
move resolution from the parallel moves down to their effect on the machine, and
about the labels of the emission buffer.

The compiler is a sequential program. The nondeterminism in the models is the
program being compiled and the order in which passes use an interface; there
are no processes, messages or crashes.

## The system and its inventory

| Part | Source | State it changes | Modelled |
|---|---|---|---|
| Front end, CLI | `soyo_compiler/` | AST to IR | no: sequential input handling |
| IR store | `raana_ir/src/ir/` | arena, reverse uses, block layout | `UseLists` (owner only, not the order in a block) |
| Rewriting helpers | `raana_ir/src/opt/utils*` | the IR store | `visit_and_replace` in `UseLists`; ids, `CFG`, logical edges in `FlowGraph` and `MiddleEndPasses` |
| CFG and dominators | `opt/analysis_passes/{cfg,dom_tree}.rs` | none (pure) | `FlowGraph` |
| SSA construction | `opt/passes/ssa.rs` | block parameters, uses | `MiddleEndPasses` |
| Scalar global promotion | `opt/passes/scalar_global_promotion.rs` | the same | `MiddleEndPasses`, without the analysis of calls |
| CFG simplification | `opt/passes/simplify_cfg.rs` | terminators, layout | `MiddleEndPasses` |
| DCE, dead parameters, unreachable blocks | `opt/passes/dce.rs` | the IR store | `UseLists` (any live set), `MiddleEndPasses` |
| IPSCCP | `opt/passes/ipsccp.rs` | lattice, then the IR store | its replacement step in `UseLists`; not the solver |
| Other HIR passes and analyses | `opt/passes/*`, `opt/analysis_passes/*` | the IR store | no |
| HIR pass manager | `opt/pass.rs` | fixed-point iteration | `MiddleEnd`, over five passes |
| Block order | `taki_mir/src/block_order.rs` | lowered order, edge blocks | `BlockOrder` |
| Lowering, VCode, MIR passes driver | `taki_mir/src/{lower,vcode,passes}.rs` | VCode | edge arguments in `BlockOrder`, expansion of moves in `EditMoves` |
| Ion allocator | `taki_mir/src/reg_alloc/ion/` | live ranges, bundles, queue, registers, slots | `IonAllocator`, one block and one class |
| Parallel moves | `taki_mir/src/reg_alloc/moves.rs` | move graph, search stack | `ParallelMoves` |
| Scratch and stack-to-stack moves | `reg_alloc/moves.rs`, `ion/moves.rs` | edits | `MoveScratch`, `EditMoves` |
| Redundant moves | `ion/redundant_moves.rs` | copies and reverse index | `RedundantMoves`, `MoveMachine` |
| Emission buffer | `taki_mir/src/emit_buffer*` , `emit.rs` | slots, labels, aliases, veneers | `EmitBuffer` |
| Division magic | `taki_mir/src/div_magic.rs` | none (pure) | no |
| AArch64 passes, scheduler | `anon_armv8/src/{passes,sched}` | VCode | no |
| AArch64 and RISC-V lowering, ABI | `anon_armv8/`, `uika_riscv/` | instructions | terminators, veneers and spill code, as the modules above see them |
| Containers | `tomori_utils/` | pools, maps | no |
| Runtime library, tests, gem5, vendored crates | `sysylib/`, `tests/`, `gem5/`, `dependencies/` | - | no |

`PROJECT.json` lists the components with their files, the hazards with the line
where each one bites, and for every definition the lines it models. The modelled
lines are about 6,700 of the 76,000 lines of Rust outside the tests and
the vendored crates (9%), so most of the compiler, above all the HIR passes and instruction selection, is not covered.

## Modules

**`MoveMachine`** is the abstract specification of moves: locations holding
values, an instruction that overwrites some of them, and moves that are all
performed.

**`RedundantMoves`** is `RedundantMoveEliminator`. `allocs` and
`reverse_allocs` are the code's two maps and `val` is the machine. A move is a
self move, elided, or emitted (`process_move`); `SideEffects` is what the caller
does between two program points; `Clear` is a block boundary. It implements
`MoveMachine`: an elided move changes nothing because the destination already
holds the value.

**`ParallelMoves`** is `ParallelMoves::resolve`: sorting and filtering the
moves, then the depth-first search over `must_come_before` with its explicit
stack, one action per branch of the loop. Locations are numbers so that the sort
is a sort.

**`MoveScratch`** is `MoveAndScratchResolver::compute`: the scratch location of a
resolved group is filled in with a free register or an extra slot, and
stack-to-stack moves go through a free register, or through one that is borrowed,
saved in an extra slot and reloaded when it is read or at the end. `free_regs`
are the registers `find_free_reg` returns, in order.

**`EditMoves`** composes the three. A group of parallel moves is resolved,
completed by `Compute` of `MoveScratch`, every resulting move passes through the
eliminator, and what is left is performed as the target's spill code does it. `Far` are the slots beyond an immediate; `AddressTemp` is
what computing their address overwrites (nothing the moves use on AArch64,
x31 on RISC-V). One register class is modelled.

**`EmitBuffer`** is `EmitBuffer` as `write_function` drives it: bind a block's
label, emit its body and its terminator, and let the rules R1 to R4 rewrite the
tail one rule per step; at the end `resolve` inserts veneers round by round.
Text is reduced to the block it belongs to. `raw` is history: the code as it
would be without rewriting. `Behaviour` runs both.

**`UseLists`** is the IR store: `data` is the arena, `used_by` and
`bb_used_by` the reverse uses of instructions and blocks, `parent` the owner in
the layout. Its actions are the operations passes are made of: allocate,
place, replace under the same handle, turn into a constant and detach, remove,
mark and sweep, remove an unreachable block, replace all uses. An operation
that would panic in the code (an operand without data, a self use) is not
enabled. `NothingPending` is what passes rely on when they remove code: nothing
outside the layout uses anything. A value is reduced to the set of its operands.
When `FoldsArguments` is false, no rewrite meets a branch on a constant that
passes the rewritten value on the arm it takes; finding 3 is about that case.

**`IonAllocator`** is the allocator on a function of one block. `ctx` is the
code's `Ctx`: live ranges, bundles, spill sets, the queue, the map of each
register. `BuildLiveranges`, `FixupMultiFixedVRegs`, `MergeVRegBundles` and
`QueueBundles` are the calls of `Env::init`; `process_bundle` is five actions
(`TakeBundle`, then allocate, split, evict or give up), because what it has
evicted or split is what the next round meets; `SecondChance`,
`AllocateSpillslots` and `ApplyAllocationsAndInsertMoves` follow. The function is
drawn from `Programs`; the allocator itself is deterministic except for an
unstable sort. Spill weights are computed with the rounding of their packed form;
a use keeps the weight it was inserted with when it loses its constraint later.

**`FlowGraph`** has the graph algorithms as operators: `build_cfg_both`,
`rpo_path`, the legacy `idom` (used by SSA construction, global promotion, value
numbering and the block order), `CFG::new` and the newer
dominator tree, and next to them the textbook definitions they are compared with.

**`MiddleEndPasses`** has the passes as functions from a function to a function
with the code's change flag. A value is named by the instruction or parameter
that defines it, and an instruction is a load, a store or a terminator with
arguments: what these passes tell apart.

**`BlockOrder`** is `BlockLoweringOrder::new`, the arguments lowering gives each
edge, and the allocator's condition for placing moves on it.

**`MiddleEnd`** composes the three: `run_passes` with one action per pass
(`PromoteGlobal` per global) in the order `from_config` registers them, without
the passes that come between, then `Lower`, then the lowered function is run in
step with the function the frontend made. Branches go either way, the same in
both; a source value that is undefined may become anything. The run is the
semantics the passes have to keep and models no code.

## Runs

| Run | Checks | Result |
|---|---|---|
| `redundant_moves` | `CopiesAgree`, `CopiesIndexed`, `ElisionUnobservable` | pass, 70,823 states |
| `parallel_moves` | `ResolvedInParallel`, `ScratchOnlyForCycles`, `ResolveReturns` | pass, 46,380 states |
| `edit_moves` | `GroupApplied`, `EditsUseRegister`, `CopiesAgree` | pass, 890,556 states |
| `emit_buffer` | `ControlFlowKept`, `NoAliasCycle`, `RewritingEnds` | pass, 76,600 states |
| `use_lists` | `UsersExact`, `PredecessorsFound`, `NoDanglingOperand` | pass, 47,401 states |
| `ion_allocator` | `RegistersExclusive`, `BundlesAccounted`, `RangesCovered`, `ReadsRightValue`, `RejectsOnlyImpossible`, `Terminates` | pass, 175,706 states |
| `middle_end` | `DefsDominateUses`, `TreeMatchesGraph`, `LegacyTreeSound`, `EdgesPlaceable`, `DominatorsFirst`, `ValuesPreserved`, `PassesComplete` | pass, 125,210 states |
| `edit_moves_riscv` | `GroupApplied` with x31 as scratch and address register | violated |
| `emit_buffer_reach` | `RenderedInRange` | violated |
| `use_lists_fold` | `NoDanglingOperand` with `FoldsArguments` | violated |
| `middle_end_restore` | `WriteBackCompletes` on functions that save and restore a global | violated |
| `middle_end_unreachable` | `UnreachableBlocksHarmless` on functions with an unreachable block that uses its own values | violated |

Every module also has a type invariant, checked in its passing run.

**Bounds.** `redundant_moves`: a register, the scratch register, two slots and
two values; three locations are enough for a copy of a copy, the fourth lets an
unrelated move come between. `parallel_moves`: five locations hold two disjoint
cycles, or a cycle with a tail. `edit_moves`: two registers, a dedicated scratch
register, two slots and the two extra slots, two groups in sequence, the second
of one move, so that what the tracker learned in the first is used in the
second; the victim register is among those the group moves. `emit_buffer`: five
blocks, each of them empty or not, with any jump or conditional branch; reaches
of one and two instructions so that conditional and unconditional veneers occur,
and a label list limit of two so that the limit is met. The rules only look at
the last two branches and the labels at the tail, which five blocks cover in
every arrangement. `use_lists`: two values, a terminator, a global
and two blocks, at most one operand per operand list; that has a user in another
block, a chain of two dead values swept in either order, and a branch whose arms
agree. Handles are never reused, so a run ends when they are used up, and
deadlock is not checked there. What needs two terminators (two predecessors of
one block at once) is outside the bound.

`ion_allocator`: two registers; instruction `i` defines value `i` and reads up to
two earlier ones, as a plain instruction with an early or late result, as one
that ties its result to an input, or as a call with fixed operands that clobbers
the other register. The first instruction is a call without inputs. Four
instructions, the second and fourth from part of these shapes, and five where
values live across calls, reach an eviction, a split of a split, isolated
pieces, both kinds of fixup copy, several spill slots, a shared one, and
rejected functions. `MaxSplits` is 2, so that a spill set that has used up its
splits is cut into minimal bundles. Two cases do not occur in this instance: the panic
of `GiveUp`, and a bundle that finds no register after it has evicted others.

`middle_end`: all graphs of three blocks with code from a menu of
definitions, copies and swaps over two locals and a global, constants in the
entry branch, removable unreachable blocks, and all graphs of four blocks with a
smaller menu; four blocks are the least on which the legacy dominator tree can
differ from the exact one, and a swap in a loop is what makes an order of
replacements matter. The bound on rounds is 8 where the code has 100. Three
orders stand for the iteration order of hash maps. Nothing branches to the
entry: the frontend never targets the block it starts a function with. No
function of this run both reads the global into a local and writes it from one,
which is more than finding 4 needs, and no unreachable block of it uses its own
values (finding 5); the violation runs have those.

**Fairness.** `ParallelMoves` assumes weak fairness of the step of its loop and
`EmitBuffer` of its next step: both are loops of a sequential program, which
goes on as long as it can. `IonAllocator` assumes the same of its next step,
written without `ENABLED` because every state that is not final has a successor
(TLC checks deadlock).

## Findings

1. *RISC-V scratch register.* `x31` is the resolver's dedicated scratch register
   (`uika_riscv/src/abi.rs:709`) and the register in which spill code computes
   addresses beyond 12 bits (`instructions.rs:811`). In a frame larger than
   2 KiB the address overwrites the value on its way.
2. *Branch range.* `resolve` (`emit_buffer.rs:337`) measures to the branch's own
   label, `finish` prints the label it is aliased to. An out-of-reach branch is
   accepted, and the stale offset can lie beyond the table it indexes. The
   passing run checks what the code does when every branch arrives; it makes no
   claim about reach.
3. *Folding while replacing.* `visit_and_replace` (`opt/utils.rs:293`) turns a
   branch on a constant into a jump with the arguments it had, so a value that is
   both tested and passed on keeps a user. `boolean_simplify.rs:226` asserts that
   it has none; `sr.rs:310` removes it.
4. *Write-back of a removed load.* `promote` (`scalar_global_promotion.rs:299`)
   builds its write-backs after it has removed the loads of the global. In a
   function that saves the global and restores it, the value to write back is
   one of those loads, and building the store panics.
5. *Unreachable blocks without a number.* An unreachable block whose values are
   used, if only by itself, is kept (`dce.rs:921`); SSA construction then looks
   up its number (`ssa.rs:343`), which only reachable blocks have, and panics.

Three observations without a run of their own. The legacy `idom`
(`dom_tree.rs:35`) hands `lca` the reverse postorder instead of the positions it
computes for that purpose in lines 21 to 24. On some graphs of four blocks (the
entry branches to 1 and 2, 1 returns, 2 goes to 3, 3 to itself) a block gets
too high a parent, although the comment at its call in `ssa.rs:66` says "get
immediate dominator of each block". `LegacyTreeSound` says what remains true, and
on the same functions `ValuesPreserved` and `DominatorsFirst` hold, so the passes
modelled here get by with that tree.

`RejectsOnlyImpossible` asks that the operands at the very range the allocator
gives up on do not fit. It counts an instruction that reads one value in two
operands as needing two registers, because `split_into_minimal_bundles` gives
each its own bundle; counted by value the allocator does reject more than it
must, and the property does not report that.

The reaches of `label.rs` are symbolic in the model. Read side by side, `RV_B` and
`RV_JAL` (`label.rs:31`) allow 8 KiB and 2 MiB where `uika_riscv/src/lower.rs:1609`
says 4 KiB and 1 MiB, which is what the encodings reach.

## Proofs

| Module | Proves | For any |
|---|---|---|
| `RedundantMovesProofs` | `TypeOK`, `CopiesAgree`, `CopiesIndexed`, the refinement of `MoveMachine` | locations, registers, values |
| `ParallelMovesProofs` | `TypeOK`, `ResolvedInParallel`, `ScratchOnlyForCycles` | finite set of locations |
| `MoveScratchProofs` | what `Compute` does to the machine (lemmas) | registers, slots, free registers |
| `EditMovesProofs` | `TypeOK`, `EditsUseRegister`, `GroupApplied`, `CopiesAgree` | registers, slots, groups, number of groups |
| `EmitBufferProofs` | `TypeOK`, `NoAliasCycle`, the placement of labels | number of blocks, reaches, list limit |
| `UseListsProofs` | `TypeOK`, `UsersExact`, `PredecessorsFound`, `NoDanglingOperand` | values, terminators, globals, blocks |
| `RecursionFacts` | induction over an initial segment and the existence of recursive functions (lemmas) | |

### Moves

`RedundantMovesProofs` proves, for any sets of locations, registers and values:

- `TypeCorrect`: `Spec => []TypeOK`;
- `CopiesAlwaysAgree`: `Spec => []CopiesAgree`;
- `TrackerIndexed`: `Spec => [](TypeOK /\ CopiesIndexed)`;
- `EliminationRefines`: `Spec => MoveMachine's Spec`.

`CopiesAgree` is not inductive: when a location is overwritten, the entries of
its copies are dropped by way of the reverse index, so an entry missing from the
index would survive and be wrong. The inductive invariant `IInv` is the type
invariant with `CopiesAgree` and `CopiesIndexed`. `ClearKeeps` and `RecordKeeps`
are about the two edits of the maps; one lemma per kind of move follows;
`ElideAgrees` says that a move is elided only if source and destination hold the
same value, which is also the heart of the refinement. The only assumptions are
the named ones on the constants in `RedundantMoves`.

`ParallelMovesProofs` proves of the resolver, for any finite set of locations
(`LocAssumption`) and every group of moves over it:

- `TypeCorrect`: `Spec => []TypeOK`;
- `ResolvesInParallel`: `Spec => []ResolvedInParallel`;
- `ScratchCorrect`: `Spec => []ScratchOnlyForCycles`.

`ResolvedInParallel` speaks of the end of the walk only. `WalkInv` says what is
true in the middle of it: the moves that are placed, run one at a time, do what
they mean in parallel (`PlacedInParallel`); no move that is still to be placed
writes what a placed one reads (`DoneClosed`); and the stack is a chain in which
every move reads what the next one writes (`StackIsChain`). The first part of
the module is about `Perform`: it splits over concatenation (`PerformConcat`,
`PerformComposes`), so that prepending the stack to the result can be reasoned
about. A step that closes a cycle saves its last source first, which is
where the chain is needed. For `ScratchCorrect`, while no scratch location was
used the result is in an order in which every move precedes the one that
overwrites its source (`PlacedInOrder`); such an order has no cycle. Conversely a
stack that meets itself is a cycle of the group, found by following the chain.
`ResolverInv` adds which locations a result names and is what a caller relies on.

`MoveScratchProofs` is about `MoveAndScratchResolver::compute` alone. `Reaches`
says that a sequence of edits takes the machine from one state to another;
`Simulates` relates the machine that runs the edits so far with the one that
runs the moves: equal except in the register the loop works with, whose contents
are in the save slot while `scratch_dirty`, and whose saved copy is current
unless `save_dirty`. `StackStep` and `DirectStep` are the two arms of the loop,
`UnstackedReaches` the loop by induction, and `ComputeApplies` the whole
function: every location that is not offered as free ends with what the resolved
moves leave there, and every edit has a register on one side.

`EditMovesProofs` proves of the composition:

- `TypeCorrect`: `Spec => []TypeOK`;
- `EditsAlwaysUseRegister`: `Spec => []EditsUseRegister`;
- `GroupsApplied`: `Spec => []GroupApplied`, if `AddressesApart`;
- `CopiesAlwaysAgree`: `Spec => []CopiesAgree`, if `AddressesApart`.

The invariant has two parts. `TypeInv` is the resolver's `ResolverInv`, carried
over from `ParallelMovesProofs` through an instance, with the shape of the edits and of
the free registers: distinct, and none of them named by the group (`FreeInv`).
`EffectInv` is the eliminator's invariant, again from its own module, with
`GroupReached`: the edits that are still to be emitted take the present machine
to one in which every location not offered as free holds what was asked for. An
edit that is emitted or elided shortens that sequence and advances the machine by the
same move (`ProcessedMoves`). `AddressesApart` says that no slot is far, or that
addresses are computed outside the allocatable and scratch registers. AArch64
computes them in `x14` and `x15` (`anon_armv8/src/abi.rs:409`), which are
neither. On RISC-V it fails, and the run `edit_moves_riscv` violates
`GroupApplied` there, so the hypothesis is needed. Types and
`EditsUseRegister` hold without it. The other assumptions are
`ScratchAssumption` and the named ones on the constants of `EditMoves`.

### Emission

`EmitBufferProofs` proves, for any number of blocks, any reach and any limit on
label lists:

- `TypeCorrect`: `Spec => []TypeOK`;
- `LabelsAgree`: `Spec => []IInv`;
- `AliasesAcyclic`: `Spec => []NoAliasCycle`.

Jump threading redirects the labels on the record of the last branch and is
guarded by a comparison of offsets only; it does not look at alias chains.
That is enough because of where labels are kept: a label on a record or at the
tail is bound exactly there and is not redirected yet (`LabelsPlaced`), and
records are of distinct slots (`RecordsOrdered`). A chain that ends at another
offset then does not end in one of the redirected labels. That chains end is
stated with a rank that decreases along them (`Ends`), which the step lemma for
threading updates; `ChasesEnd` connects it to the bounded chase of the code.

### IR store

`UseListsProofs` proves, for any sets of values, terminators, globals and blocks
(values and globals finitely many, for the bound on operand lists):

- `TypeCorrect`: `Spec => []TypeOK`;
- `UseSetsExact`: `Spec => []UsersExact`;
- `PredecessorsExact`: `Spec => []PredecessorsFound`;
- `OperandsNeverDangle`: `Spec => []NoDanglingOperand`, if `~FoldsArguments`.

The inductive invariant `IInv` adds three things to the types and `UsersExact`:
a handle not yet allocated is in no set (`FreshUnlinked`), nothing uses itself
(`NoSelfUse`), and the users of a block are known for every live terminator,
placed or not (`TargetsExact`). `PredecessorsFound` follows from it, and is not
inductive by itself: a terminator must be recorded before it is placed.
`DataFacts` and `Rewritten` are about instruction data; `NewKeeps`,
`UpdateKeeps`, `FreedKeeps` and `ReplaceUsesKeeps` are about the edits every
operation is made of; `NextKeeps` has one step per operation. For
`OperandsNeverDangle` the strengthening is `SurvivorsKeepOperands`: what a sweep
will leave uses only what it will leave. Its step lemma `NextKeepsOperands`
assumes `~FoldsArguments`; the run `use_lists_fold` violates the property without it. The assumptions are the named ones on the constants in `UseLists`.

### Only model-checked

- Liveness (`ResolveReturns`, `RewritingEnds`, `Terminates`): the prover does
  not treat fairness or `ENABLED`.
- `ControlFlowKept` of `EmitBuffer`: it compares two executions of the code, one
  without the rewriting, and needs an invariant that relates every position of
  one to a position of the other.
- `IonAllocator`: its invariants are about several data structures that change
  together in long steps; no inductive invariant was worked out.
- `FlowGraph`, `MiddleEndPasses`, `BlockOrder` and `MiddleEnd`: written with
  recursive operators, in whose presence the prover has no SMT backend.
- `CopiesAgree` and `GroupApplied` without `AddressesApart`, which RISC-V violates.

The theorems of the library about induction take an operator as a parameter,
which the installed provers cannot instantiate. `RecursionFacts` states what is
needed of them for sets and functions instead (a nonempty set of numbers has a
least element; a set that contains 0 and is closed under successor up to n
contains 0..n; a function defined by recursion over 0..n exists and
satisfies its equation). The recursive functions of `ParallelMoves`,
`MoveScratch` and `EmitBuffer` are treated with it.

## Not modelled

- Passes that decide by arithmetic, memory dependence or calls (IPSCCP's solver,
  value numbering, the loop passes, inlining): the functions of `MiddleEnd` have
  loads, stores and control flow only. A model with arithmetic would have to be
  a second interpreter of the IR, and TLC would see very small functions.
- The allocator across blocks: liveness, block parameters and edge moves. That
  each edge has a place for its moves is checked in `MiddleEnd`; what is moved
  there is not. `Stack` and `Limit` constraints are built by neither target.
- Overlapping register classes (float and vector on AArch64): the moves and the
  allocator are modelled for one class.
- The order of instructions inside a block of the IR store: passes rely on it,
  but the operations that place an instruction differ only in where.
- Instruction selection, encodings and scheduling tables: data, not control.
- `div_magic`: its point is exact 64-bit arithmetic, beyond TLC's integers.
- Containers, front end, printing: sequential code without shared state.
