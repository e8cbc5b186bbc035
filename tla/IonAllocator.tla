---------------------------- MODULE IonAllocator ----------------------------
(***************************************************************************)
(* The Ion register allocator (taki_mir/src/reg_alloc/ion) on a function   *)
(* of one block and one register class, from its operands to the moves it  *)
(* inserts: build_liveranges, fixup_multi_fixed_vregs, merge_vreg_bundles, *)
(* queue_bundles, process_bundles with its eviction and splitting, the     *)
(* second chance of the spilled bundles, the spill slots and               *)
(* apply_allocations_and_insert_moves.                                     *)
(*                                                                         *)
(* `ctx` is the allocator's Ctx.  A live range, a bundle, a spill set and  *)
(* a spill slot is named by its index, from 1; 0 is `invalid`.  A program  *)
(* point is 2 * inst (Before) or 2 * inst + 1 (After), as to_index does.   *)
(* Constraints Stack and Limit and fixed stack slots are left out: neither *)
(* target builds them.                                                     *)
(***************************************************************************)
EXTENDS Integers, Sequences, FiniteSets, SequencesExt

CONSTANTS Preferred, NonPreferred,  \* preferred_regs_by_class and the others
          Programs,                 \* functions: sequences of instructions
          MaxSplits                 \* MAX_SPLITS_PER_SPILLSET

PRegs == Preferred \cup NonPreferred
NoReg == -1
None == 0
NoCost == -1

(***************************************************************************)
(* An instruction is [ops, clobbers], an operand [v, def, early, con] and  *)
(* a constraint [k, r]: the register of a "fixed" one, the operand that a  *)
(* "reuse" one ties, 0 for "reg" and "any".                                *)
(***************************************************************************)
Operand == [v : Nat, def : BOOLEAN, early : BOOLEAN,
            con : [k : {"reg", "any", "fixed", "reuse"}, r : Nat]]

ASSUME IonAssumption ==
    /\ Preferred \cup NonPreferred \subseteq 0..62 /\ MaxSplits \in Nat
    /\ \A p \in Programs : \A i \in DOMAIN p :
           p[i].clobbers \subseteq PRegs /\ p[i].ops \in Seq(Operand)

VARIABLES prog,    \* the function that is allocated
          ctx,     \* Ctx: what the passes of the allocator work on
          cur,     \* process_bundle: the bundle, its hint, the attempt
          phase    \* the step of Env::init and Env::run, or how it ended

vars == <<prog, ctx, cur, phase>>

Before(i) == 2 * i
After(i) == 2 * i + 1
InstOf(pt) == pt \div 2
Overlap(a, b) == a.to > b.from /\ a.from < b.to
Insts == DOMAIN prog
VRegs == UNION {{prog[i].ops[j].v : j \in DOMAIN prog[i].ops} : i \in Insts}
AnyCon == [k |-> "any", r |-> 0]

-----------------------------------------------------------------------------
(* Spill weights, requirements and bundle properties                       *)

\* spill_weight_from_constraint outside of loops.
ConstraintWeight(con, def) ==
    1000 + (IF def THEN 2000 ELSE 0)
         + (CASE con.k = "any" -> 1000 [] con.k \in {"reg", "fixed"} -> 2000
              [] OTHER -> 0)

\* SpillWeight::to_bits and from_bits: nine leading bits of the weight stay.
StoredBits(w) ==
    LET e == Max({j \in 0..20 : 2^(j + 8) <= w} \cup {0})
    IN  (w \div 2^e) * 2^e

\* insert_use_into_liverange: a use keeps the weight of the constraint it is
\* inserted with, also when it loses that constraint later.
UseWeight(con, def) == StoredBits(ConstraintWeight(con, def))

SumOver(s, Op(_)) == FoldLeft(LAMBDA acc, x : acc + Op(x), 0, s)

\* recompute_range_properties.
RecomputeRange(lr) ==
    [lr EXCEPT !.weight = SumOver(lr.uses, LAMBDA u : u.weight),
               !.at_def = @ \/ (lr.uses # <<>> /\ lr.uses[1].def)]

BUNDLE_MAX_SPILL_WEIGHT == 2^28 - 1
MINIMAL_BUNDLE_SPILL_WEIGHT == BUNDLE_MAX_SPILL_WEIGHT - 1 - 256
BUNDLE_MAX_NORMAL_SPILL_WEIGHT == MINIMAL_BUNDLE_SPILL_WEIGHT - 1

MinimalRange(u) ==
    LET i == InstOf(u.pos)
    IN  CASE u.pos = Before(i) /\ ~u.def -> [from |-> Before(i), to |-> After(i)]
          [] u.pos = After(i) /\ u.def   -> [from |-> After(i), to |-> Before(i + 1)]
          [] OTHER                       -> [from |-> Before(i), to |-> Before(i + 1)]

UsesOf(c, b) ==
    LET rs == c.bundles[b].ranges
    IN  FlattenSeq([k \in DOMAIN rs |-> c.ranges[rs[k].lr].uses])

IsFixed(u) == u.con.k = "fixed"

\* compute_requirement: the first use that is fixed to another register than
\* one before it is the conflict (RequirementConflictAt::Other).
Conflicts(us) ==
    {j \in DOMAIN us : IsFixed(us[j]) /\ \E i \in 1..j-1 :
        IsFixed(us[i]) /\ us[i].con.r # us[j].con.r}

Requirement(us) ==
    LET fixed == {j \in DOMAIN us : IsFixed(us[j])}
    IN  IF fixed # {} THEN us[Min(fixed)].con
        ELSE IF \E j \in DOMAIN us : us[j].con.k # "any"
             THEN [k |-> "reg", r |-> 0] ELSE AnyCon

\* recompute_bundle_properties, with compute_bundle_prio.
Recompute(c, b) ==
    LET rs == c.bundles[b].ranges
        Insns(e) == InstOf(e.to) - InstOf(e.from)
        RangeWeight(e) == c.ranges[e.lr].weight
        lr == c.ranges[rs[1].lr]
        us == lr.uses
        min == /\ Len(rs) = 1
               /\ \/ us = <<>>
                  \/ /\ Len(us) = 1
                     /\ MinimalRange(us[1]).from <= lr.from
                     /\ lr.to <= MinimalRange(us[1]).to
        fix == Len(rs) = 1 /\ \E j \in DOMAIN us : IsFixed(us[j])
        pr  == Max({1, SumOver(rs, Insns)})
        w   == IF min
               THEN IF fix THEN BUNDLE_MAX_SPILL_WEIGHT
                    ELSE MINIMAL_BUNDLE_SPILL_WEIGHT
               ELSE Min({BUNDLE_MAX_NORMAL_SPILL_WEIGHT,
                         SumOver(rs, RangeWeight) \div pr})
    IN  [c EXCEPT !.bundles[b].prio = pr, !.bundles[b].minimal = min,
                  !.bundles[b].fixed = fix, !.bundles[b].weight = w]

Bundle(ss, rs) ==
    [ranges |-> rs, spillset |-> ss, alloc |-> NoReg, prio |-> 0,
     weight |-> 0, minimal |-> FALSE, fixed |-> FALSE]

\* PrioQueue::insert and PrioQueue::pop.
Requeue(c, b, hint) ==
    [c EXCEPT !.queue = @ \cup {[prio |-> c.bundles[b].prio, bundle |-> b,
                                 hint |-> hint]}]
NextEntry(c) ==
    CHOOSE e \in c.queue : \A f \in c.queue :
        e.prio > f.prio \/ (e.prio = f.prio /\ e.bundle >= f.bundle)

RecomputeAndQueue(c, b, hint) ==
    IF c.bundles[b].ranges = <<>> THEN c ELSE Requeue(Recompute(c, b), b, hint)

-----------------------------------------------------------------------------
(* Env::init: live ranges, multiply fixed operands, bundles                *)

LateFixedDef(ins, r) ==
    \E j \in DOMAIN ins.ops : LET op == ins.ops[j]
        IN  op.def /\ ~op.early /\ op.con = [k |-> "fixed", r |-> r]

LiveAfter(i, v) ==
    \E k \in Insts : k > i /\ \E j \in DOMAIN prog[k].ops : prog[k].ops[j].v = v

\* An early fixed use of a register that the instruction also defines or
\* clobbers, of a value that lives on: the use loses its constraint, the
\* register is reserved, and a fixup move fills it.
IsRewritten(i, j) ==
    LET op == prog[i].ops[j]
    IN  /\ op.con.k = "fixed" /\ ~op.def /\ op.early /\ LiveAfter(i, op.v)
        /\ LateFixedDef(prog[i], op.con.r) \/ op.con.r \in prog[i].clobbers

\* Mutant: the inputs beside a reused one are not extended.
UnextendedPoint(i, j) == IF prog[i].ops[j].early THEN Before(i) ELSE After(i)

\* Every other input of an instruction with a reused one is read late.
OperandPoint(i, j) ==
    LET ops == prog[i].ops
        op  == ops[j]
        extended == \E k \in DOMAIN ops :
            ops[k].con.k = "reuse" /\ ops[ops[k].con.r].v # op.v
    IN  IF op.early /\ (op.def \/ ~extended) THEN Before(i) ELSE After(i)

OperandUse(i, j) ==
    LET op  == prog[i].ops[j]
        con == IF IsRewritten(i, j) THEN AnyCon ELSE op.con
    IN  [pos |-> OperandPoint(i, j), slot |-> j, def |-> op.def, con |-> con,
         weight |-> UseWeight(con, op.def)]

OperandSites == {<<i, j>> \in Insts \X (1..8) : j \in DOMAIN prog[i].ops}

VRegRange(v) ==
    LET us == {OperandUse(s[1], s[2]) :
                  s \in {t \in OperandSites : prog[t[1]].ops[t[2]].v = v}}
        Earlier(x, y) == x.pos < y.pos \/ (x.pos = y.pos /\ x.slot > y.slot)
        def == CHOOSE u \in us : u.def
        sorted == SetToSortSeq(us, Earlier)
        Exact(u) == ConstraintWeight(u.con, u.def)
    IN  [from |-> def.pos, v |-> v, uses |-> sorted, at_def |-> TRUE,
         to |-> IF us = {def} THEN Before(InstOf(def.pos) + 1)
                ELSE Last(sorted).pos + 1,
         weight |-> SumOver(sorted, Exact), bundle |-> None]

Reserved(from, to) == [from |-> from, to |-> to, lr |-> None]

InitialFixups ==
    {[pos |-> Before(s[1]), from_slot |-> s[2], to_slot |-> s[2],
      preg |-> prog[s[1]].ops[s[2]].con.r] :
        s \in {t \in OperandSites : IsRewritten(t[1], t[2])}}

BuildLiveranges ==
    /\ phase = "build_liveranges"
    /\ ctx' = [ranges |-> [v \in VRegs |-> VRegRange(v)],
               vregs |-> [v \in VRegs |-> <<v>>],
               bundles |-> <<>>, spillsets |-> <<>>, queue |-> {},
               spilled |-> <<>>, slots |-> <<>>, probe |-> 1,
               initial |-> InitialFixups, secondary |-> {},
               pregs |-> [r \in PRegs |->
                   {Reserved(After(i), Before(i + 1)) :
                        i \in {k \in Insts : r \in prog[k].clobbers}}
                   \cup {Reserved(f.pos, f.pos + 1) :
                        f \in {g \in InitialFixups : g.preg = r}}],
               allocs |-> [s \in OperandSites |-> [reg |-> NoReg, slot |-> None]],
               moves |-> {}]
    /\ phase' = "fixup_multi_fixed_vregs"
    /\ UNCHANGED <<prog, cur>>

\* The uses of one range at one point that are fixed to different registers:
\* all but the first lose the constraint and are filled by fixup moves.
Duplicates(us) ==
    {j \in DOMAIN us : IsFixed(us[j]) /\ \E i \in 1..j-1 :
        /\ us[i].pos = us[j].pos /\ IsFixed(us[i])
        /\ us[i].con.r # us[j].con.r
        /\ \A h \in 1..i-1 : us[h].pos = us[j].pos => ~IsFixed(us[h])}

FixupMultiFixedVRegs ==
    /\ phase = "fixup_multi_fixed_vregs"
    /\ LET U(v) == ctx.ranges[v].uses
           Source(v, j) == Min({i \in DOMAIN U(v) : U(v)[i].pos = U(v)[j].pos})
           fixups == UNION {{[pos |-> U(v)[j].pos, to_slot |-> U(v)[j].slot,
                              from_slot |-> U(v)[Source(v, j)].slot,
                              preg |-> U(v)[j].con.r] :
                                 j \in Duplicates(U(v))} : v \in VRegs}
       IN  ctx' = [ctx EXCEPT
             !.secondary = fixups,
             !.ranges = [v \in VRegs |-> [ctx.ranges[v] EXCEPT
                 !.uses = [j \in DOMAIN U(v) |->
                     IF j \in Duplicates(U(v))
                     THEN [U(v)[j] EXCEPT !.con = AnyCon] ELSE U(v)[j]]]],
             !.pregs = [r \in PRegs |-> ctx.pregs[r] \cup
                 {Reserved(f.pos, f.pos + 1) :
                     f \in {g \in fixups : g.preg = r}}]]
    /\ phase' = "merge_vreg_bundles"
    /\ UNCHANGED <<prog, cur>>

ByStart(e, f) == e.from < f.from
Entry(lr, i) == [from |-> lr.from, to |-> lr.to, lr |-> i]

\* merge_bundles: the range of a fixed def counts from the start of its
\* instruction; the spill set that stays covers both.
HasFixedDef(c, b) ==
    \E j \in DOMAIN UsesOf(c, b) : IsFixed(UsesOf(c, b)[j]) /\ UsesOf(c, b)[j].def

\* Mutant: the ranges that change hands keep their old bundle.
NotRepointed(ranges, rs, b) == ranges

InBundle(ranges, rs, b) ==
    FoldLeft(LAMBDA t, e : [t EXCEPT ![e.lr].bundle = b], ranges, rs)

MergeBundles(c, from, to) ==
    LET F == c.bundles[from].ranges
        T == c.bundles[to].ranges
        Start(b, e) == IF HasFixedDef(c, b) THEN Before(InstOf(e.from)) ELSE e.from
        apart == \A f \in ToSet(F), t \in ToSet(T) :
                     Start(from, f) >= t.to \/ Start(to, t) >= f.to
        compatible == Conflicts(UsesOf(c, from) \o UsesOf(c, to)) = {}
        sf == c.spillsets[c.bundles[from].spillset]
    IN  IF from = to \/ ~apart \/ ~compatible THEN c
        ELSE [c EXCEPT
               !.bundles[from].ranges = <<>>,
               !.bundles[to].ranges = SetToSortSeq(ToSet(F \o T), ByStart),
               !.ranges = InBundle(@, F, to),
               !.spillsets[c.bundles[to].spillset].from = Min({@, sf.from}),
               !.spillsets[c.bundles[to].spillset].to = Max({@, sf.to})]

VRegBundle(c, v) == c.ranges[c.vregs[v][1]].bundle

ReuseSites ==
    SetToSortSeq({s \in OperandSites : prog[s[1]].ops[s[2]].con.k = "reuse"},
                 LAMBDA s, t : s[1] < t[1] \/ (s[1] = t[1] /\ s[2] < t[2]))

MergeVRegBundles ==
    /\ phase = "merge_vreg_bundles"
    /\ LET c0 == [ctx EXCEPT
                !.ranges = [v \in VRegs |-> [@[v] EXCEPT !.bundle = v]],
                !.bundles = [v \in VRegs |->
                                Bundle(v, <<Entry(ctx.ranges[v], v)>>)],
                !.spillsets = [v \in VRegs |->
                    [from |-> ctx.ranges[v].from, to |-> ctx.ranges[v].to,
                     splits |-> 0, required |-> FALSE, hint |-> NoReg,
                     spill_bundle |-> None, slot |-> None]]]
           Merge(c, s) ==
               LET ops == prog[s[1]].ops
               IN  MergeBundles(c, VRegBundle(c, ops[ops[s[2]].con.r].v),
                                   VRegBundle(c, ops[s[2]].v))
       IN  ctx' = FoldLeft(Merge, c0, ReuseSites)
    /\ phase' = "queue_bundles"
    /\ UNCHANGED <<prog, cur>>

QueueBundles ==
    /\ phase = "queue_bundles"
    /\ ctx' = FoldLeft(LAMBDA c, b : RecomputeAndQueue(c, b, NoReg), ctx,
                       [b \in DOMAIN ctx.bundles |-> b])
    /\ phase' = "process_bundles"
    /\ UNCHANGED <<prog, cur>>

-----------------------------------------------------------------------------
(* process_bundles: allocation, eviction, splitting                        *)

\* Mutant: the traversal does not wrap around.
TraverseTail(S, offset) == SetToSortSeq({r \in S : r >= offset % 63}, <)

\* RegTraversalIter.
Traverse(S, offset) ==
    SetToSortSeq({r \in S : r >= offset % 63}, <)
        \o SetToSortSeq({r \in S : r < offset % 63}, <)

Candidates(fixed, hint, offset) ==
    IF fixed # NoReg THEN <<fixed>>
    ELSE (IF hint # NoReg THEN <<hint>> ELSE <<>>)
           \o SelectSeq(Traverse(Preferred, offset) \o Traverse(NonPreferred, offset),
                        LAMBDA r : r # hint)

\* What try_to_allocate_bundle_to_reg finds on r: the allocations that the
\* bundle overlaps, in order, up to the first fixed reservation.
Hits(c, b, r) ==
    LET all == SetToSortSeq({e \in c.pregs[r] : \E k \in DOMAIN c.bundles[b].ranges :
                                Overlap(e, c.bundles[b].ranges[k])}, ByStart)
        fixed == {j \in DOMAIN all : all[j].lr = None}
        seen == IF fixed = {} THEN all ELSE SubSeq(all, 1, Min(fixed) - 1)
        first == CHOOSE k \in DOMAIN c.bundles[b].ranges :
                     /\ Overlap(all[1], c.bundles[b].ranges[k])
                     /\ \A l \in 1..k-1 : ~Overlap(all[1], c.bundles[b].ranges[l])
        bs == {c.ranges[seen[j].lr].bundle : j \in DOMAIN seen}
    IN  [bundles |-> bs, free |-> all = <<>>, fixed |-> fixed # {},
         cost |-> Max({0} \cup {c.bundles[x].weight : x \in bs}),
         point |-> IF all = <<>> THEN 0
                   ELSE IF fixed # {} THEN all[Min(fixed)].from
                   ELSE Max({all[1].from, c.bundles[b].ranges[first].from})]

Allocate(c, b, r) ==
    [c EXCEPT !.bundles[b].alloc = r,
              !.pregs[r] = @ \cup ToSet(c.bundles[b].ranges)]

\* Mutant: the ranges of an evicted bundle stay in the register's map.
EvictKeepsKeys(c, b) ==
    IF c.bundles[b].alloc = NoReg THEN c
    ELSE Requeue([c EXCEPT !.bundles[b].alloc = NoReg], b, NoReg)

EvictBundle(c, b) ==
    LET r == c.bundles[b].alloc
        keys == ToSet(c.bundles[b].ranges)
    IN  IF r = NoReg THEN c
        ELSE Requeue([c EXCEPT !.bundles[b].alloc = NoReg,
                               !.pregs[r] = {e \in @ : \A k \in keys : ~Overlap(e, k)}],
                     b, NoReg)

\* The scan of the registers in process_bundle: the first free one, or else
\* the cheapest set to evict and the cheapest conflict to split at.
Scan(c, b, regs) ==
    LET MoveCost == ConstraintWeight([k |-> "reg", r |-> 0], TRUE)
        Try(s, r) ==
            LET h == Hits(c, b, r)
                high == /\ s.evict # NoCost /\ s.split # NoCost
                        /\ h.cost > Max({s.evict, s.split})
                evicts == ~h.fixed /\ (s.evict = NoCost \/ h.cost < s.evict)
                splits == s.split = NoCost \/ h.cost + MoveCost < s.split
            IN  IF s.reg # NoReg THEN s
                ELSE IF h.free THEN [s EXCEPT !.reg = r]
                ELSE IF high THEN s
                ELSE [s EXCEPT !.evict = IF evicts THEN h.cost ELSE @,
                               !.victims = IF evicts THEN h.bundles ELSE @,
                               !.split = IF splits THEN h.cost + MoveCost ELSE @,
                               !.at = IF splits THEN h.point ELSE @,
                               !.at_reg = IF splits THEN r ELSE @]
    IN  FoldLeft(Try, [reg |-> NoReg, evict |-> NoCost, victims |-> {},
                       split |-> NoCost, at |-> 0, at_reg |-> NoReg], regs)

AddBundle(c, ss, rs) ==
    [c EXCEPT !.bundles = Append(@, Bundle(ss, rs)),
              !.ranges = InBundle(@, rs, Len(c.bundles) + 1)]

AddRange(c, from, to, v, uses, at_def) ==
    [c EXCEPT !.ranges = Append(@, [from |-> from, to |-> to, v |-> v,
                 uses |-> uses, at_def |-> at_def, weight |-> 0, bundle |-> None])]

\* enqueue_isolated_range.
Isolate(c, ss, e) ==
    LET c1 == AddBundle(c, ss, <<e>>)
    IN  Recompute([c1 EXCEPT !.spilled = Append(@, Len(c1.bundles)),
                             !.vregs[c.ranges[e.lr].v] = Append(@, e.lr)],
                  Len(c1.bundles))

IsolateNew(c, ss, v, from, to) ==
    LET c1 == AddRange(c, from, to, v, <<>>, FALSE)
    IN  Isolate(c1, ss, Entry([from |-> from, to |-> to], Len(c1.ranges)))

\* The trimming in split_and_requeue_bundle: after the last use of the first
\* half, and before the first use of the second one unless it starts at a def.
TrimOld(c, b, ss) ==
    LET rs == c.bundles[b].ranges
        keep == Max({0} \cup {k \in DOMAIN rs : c.ranges[rs[k].lr].uses # <<>>})
        c1 == FoldLeft(LAMBDA d, e : Isolate(d, ss, e),
                       [c EXCEPT !.bundles[b].ranges = SubSeq(rs, 1, keep)],
                       Reverse(SubSeq(rs, keep + 1, Len(rs))))
        lr == c.ranges[rs[keep].lr]
        cut == Before(InstOf(Last(lr.uses).pos) + 1)
    IN  IF keep = 0 \/ cut >= rs[keep].to THEN c1
        ELSE IsolateNew([c1 EXCEPT !.bundles[b].ranges[keep].to = cut,
                                   !.ranges[rs[keep].lr].to = cut],
                        ss, lr.v, cut, rs[keep].to)

TrimNew(c, b, ss) ==
    LET rs == c.bundles[b].ranges
        Kept(k) == c.ranges[rs[k].lr].at_def \/ c.ranges[rs[k].lr].uses # <<>>
        keep == Min({Len(rs) + 1} \cup {k \in DOMAIN rs : Kept(k)})
        c1 == FoldLeft(LAMBDA d, e : Isolate(d, ss, e),
                       [c EXCEPT !.bundles[b].ranges = SubSeq(rs, keep, Len(rs))],
                       SubSeq(rs, 1, keep - 1))
        lr == c.ranges[rs[keep].lr]
        cut == Before(InstOf(lr.uses[1].pos))
    IN  IF keep > Len(rs) \/ lr.at_def \/ cut <= rs[keep].from THEN c1
        ELSE IsolateNew([c1 EXCEPT !.bundles[b].ranges[1].from = cut,
                                   !.ranges[rs[keep].lr].from = cut],
                        ss, lr.v, rs[keep].from, cut)

\* Mutant: the new spill bundle is not listed for its second chance.
SpillBundleUnlisted(c, ss) ==
    IF c.spillsets[ss].spill_bundle # None THEN c
    ELSE [AddBundle(c, ss, <<>>) EXCEPT
            !.spillsets[ss].spill_bundle = Len(c.bundles) + 1]

\* split_into_minimal_bundles: a bundle for every use that needs a register,
\* and one range in the spill bundle for all that is left of each range.
SpillBundle(c, ss) ==
    IF c.spillsets[ss].spill_bundle # None THEN c
    ELSE LET c1 == AddBundle(c, ss, <<>>)
         IN  [c1 EXCEPT !.spillsets[ss].spill_bundle = Len(c1.bundles),
                        !.spilled = Append(@, Len(c1.bundles))]

\* Mutant: the range of the use is not added to its register's list.
MinimalUnlisted(c, ss, v, u) ==
    LET m  == MinimalRange(u)
        c1 == AddRange(c, m.from, m.to, v, <<u>>, u.def)
    IN  AddBundle(c1, ss, <<Entry(m, Len(c1.ranges))>>)

MinimalForUse(c, ss, v, u) ==
    LET m  == MinimalRange(u)
        c1 == AddRange(c, m.from, m.to, v, <<u>>, u.def)
        n  == Len(c1.ranges)
    IN  [AddBundle(c1, ss, <<Entry(m, n)>>) EXCEPT !.vregs[v] = Append(@, n)]

SplitRangeIntoMinimal(c, ss, e) ==
    LET lr == c.ranges[e.lr]
        Spillable(u) == u.con.k = "any"
        rest == SelectSeq(lr.uses, LAMBDA u : ~Spillable(u))
        defs == {j \in DOMAIN rest : rest[j].def}
        from == IF defs = {} THEN e.from
                ELSE Before(InstOf(rest[Max(defs)].pos) + 1)
        c1 == FoldLeft(LAMBDA d, u : MinimalForUse(d, ss, lr.v, u),
                       [c EXCEPT !.ranges[e.lr].uses = <<>>,
                                 !.vregs[lr.v] = SelectSeq(@, LAMBDA i : i # e.lr)],
                       rest)
        sb == c.spillsets[ss].spill_bundle
        spilt == SelectSeq(lr.uses, Spillable)
        c2 == AddRange(c1, from, e.to, lr.v, spilt, \E u \in ToSet(spilt) : u.def)
        n  == Len(c2.ranges)
    IN  IF from >= e.to THEN c1
        ELSE [c2 EXCEPT
               !.ranges[n].bundle = sb, !.vregs[lr.v] = Append(@, n),
               !.bundles[sb].ranges = Append(@, Entry([from |-> from, to |-> e.to], n))]

SplitIntoMinimalBundles(c, b, hint) ==
    LET ss == c.bundles[b].spillset
        c0 == [SpillBundle(c, ss) EXCEPT !.bundles[b].ranges = <<>>]
        c1 == FoldLeft(LAMBDA d, e : SplitRangeIntoMinimal(d, ss, e), c0,
                       c.bundles[b].ranges)
        new == [k \in 1..Len(c1.bundles) - Len(c0.bundles) |-> Len(c0.bundles) + k]
    IN  FoldLeft(LAMBDA d, x : RecomputeAndQueue(d, x, hint), c1, new)

\* The split point that split_and_requeue_bundle settles on: never at the
\* start, never inside an instruction.
FirstSplitPoint(c, b, at) ==
    LET rs == c.bundles[b].ranges
        us == UsesOf(c, b)
        start == rs[1].from
        even == IF at = After(InstOf(at)) THEN at + 1 ELSE at
    IN  IF at # start THEN IF even >= Last(rs).to THEN even - 2 ELSE even
        ELSE IF us # <<>> /\ InstOf(us[1].pos) # InstOf(start)
             THEN Before(InstOf(us[1].pos)) ELSE Before(InstOf(start) + 1)

\* The part of split_and_requeue_bundle that divides the range list of b at
\* a point: k is the first range that ends after it.
SplitRangeList(c, b, k, at) ==
    LET rs == c.bundles[b].ranges
        ss == c.bundles[b].spillset
        lr == c.ranges[rs[k].lr]
        n  == Len(c.ranges) + 1
        first == [RecomputeRange([lr EXCEPT
                    !.uses = SelectSeq(lr.uses, LAMBDA u : u.pos < at)]) EXCEPT !.to = at]
        second == RecomputeRange([lr EXCEPT !.at_def = FALSE, !.from = at,
                    !.uses = SelectSeq(lr.uses, LAMBDA u : u.pos >= at)])
        c1 == [c EXCEPT !.ranges = Append([@ EXCEPT ![rs[k].lr] = first], second),
                        !.vregs[lr.v] = Append(@, n),
                        !.bundles[b].ranges = Append(SubSeq(rs, 1, k - 1),
                                                     [rs[k] EXCEPT !.to = at])]
        tail == SubSeq(rs, k + 1, Len(rs))
    IN  IF at > rs[k].from
        THEN AddBundle(c1, ss, <<[from |-> at, to |-> rs[k].to, lr |-> n]>> \o tail)
        ELSE AddBundle([c EXCEPT !.bundles[b].ranges = SubSeq(rs, 1, k - 1)],
                       ss, <<rs[k]>> \o tail)

SplitAndRequeueBundle(c, b, suggested, hint) ==
    LET ss == c.bundles[b].spillset
        rs == c.bundles[b].ranges
        c0 == [c EXCEPT !.spillsets[ss].splits = @ + 1]
        at == FirstSplitPoint(c, b, suggested)
        k  == Min({j \in DOMAIN rs : at < rs[j].to})
        fixed == {u \in ToSet(c.ranges[rs[k].lr].uses) :
                      c.bundles[b].fixed /\ IsFixed(u) /\ u.pos >= at}
        to_fixed == Before(InstOf(Min({u.pos : u \in fixed})))
        c1 == SplitRangeList(c0, b, k, IF fixed = {} THEN at ELSE to_fixed)
        nb == Len(c1.bundles)
        c2 == IF fixed = {} THEN TrimNew(TrimOld(c1, b, ss), nb, ss) ELSE c1
        exhausted == c.spillsets[ss].splits >= MaxSplits
    IN  IF exhausted \/ InstOf(Last(rs).to - 1) = InstOf(rs[1].from)
        THEN SplitIntoMinimalBundles(IF exhausted THEN c ELSE c0, b, hint)
        ELSE FoldLeft(LAMBDA d, x : RecomputeAndQueue(d, x, hint), c2, <<b, nb>>)

NoBundle == [bundle |-> None, hint |-> NoReg, attempts |-> 0]

\* process_bundle up to its loop: the bundle whose operands disagree is
\* split at once, one that needs no register waits for its second chance.
TakeBundle ==
    /\ phase = "process_bundles" /\ cur = NoBundle /\ ctx.queue # {}
    /\ LET e  == NextEntry(ctx)
           c  == [ctx EXCEPT !.queue = @ \ {e}]
           us == UsesOf(c, e.bundle)
           hint == IF e.hint # NoReg THEN e.hint
                   ELSE c.spillsets[c.bundles[e.bundle].spillset].hint
       IN  IF Conflicts(us) # {}
           THEN /\ ctx' = SplitAndRequeueBundle(c, e.bundle,
                                                us[Min(Conflicts(us))].pos, hint)
                /\ UNCHANGED cur
           ELSE IF Requirement(us).k = "any"
           THEN ctx' = [c EXCEPT !.spilled = Append(@, e.bundle)] /\ UNCHANGED cur
           ELSE ctx' = c /\ cur' = [bundle |-> e.bundle, hint |-> hint, attempts |-> 1]
    /\ UNCHANGED <<prog, phase>>

CurrentScan ==
    LET b == cur.bundle
        req == Requirement(UsesOf(ctx, b))
        start == ctx.bundles[b].ranges[1].from
    IN  Scan(ctx, b, Candidates(IF req.k = "fixed" THEN req.r ELSE NoReg, cur.hint,
                                (InstOf(start) - 1) + (b - 1)))

Processing == phase = "process_bundles" /\ cur # NoBundle

AllocateCurrent ==
    /\ Processing
    /\ \E s \in {CurrentScan} :
         /\ s.reg # NoReg
         /\ ctx' = [Allocate(ctx, cur.bundle, s.reg) EXCEPT
                      !.spillsets[ctx.bundles[cur.bundle].spillset].hint = s.reg]
    /\ cur' = NoBundle /\ UNCHANGED <<prog, phase>>

\* Mutant: of two bundles of the same weight the later one wins.
YieldsOnlyToHeavier(s, weight) ==
    cur.attempts >= 2 \/ s.evict = NoCost \/ s.evict > weight

\* The bundle cannot take a register from the cheapest set in its way.
MustYield(s, weight) ==
    cur.attempts >= 2 \/ s.evict = NoCost \/ s.evict >= weight

SplitCurrent ==
    /\ Processing /\ ~ctx.bundles[cur.bundle].minimal
    /\ \E s \in {CurrentScan} :
         /\ s.reg = NoReg /\ MustYield(s, ctx.bundles[cur.bundle].weight)
         /\ ctx' = SplitAndRequeueBundle(ctx, cur.bundle,
                     Max({s.at, ctx.bundles[cur.bundle].ranges[1].from}), s.at_reg)
    /\ cur' = NoBundle /\ UNCHANGED <<prog, phase>>

EvictConflicts ==
    /\ Processing
    /\ \E s \in {CurrentScan} :
         /\ s.reg = NoReg /\ ~MustYield(s, ctx.bundles[cur.bundle].weight)
         /\ ctx' = FoldSet(LAMBDA b, c : EvictBundle(c, b), ctx, s.victims)
    /\ cur' = [cur EXCEPT !.attempts = @ + 1] /\ UNCHANGED <<prog, phase>>

\* A minimal bundle without a register: an error when minimal bundles and
\* fixed reservations fill the class, a panic otherwise.
GiveUp ==
    /\ Processing /\ ctx.bundles[cur.bundle].minimal
    /\ \E s \in {CurrentScan} :
         s.reg = NoReg /\ MustYield(s, ctx.bundles[cur.bundle].weight)
    /\ LET range == ctx.bundles[cur.bundle].ranges[1]
           held == {<<r, e>> \in PRegs \X UNION {ctx.pregs[r] : r \in PRegs} :
                       /\ e \in ctx.pregs[r] /\ Overlap(e, range)
                       /\ \/ e.lr = None
                          \/ ctx.bundles[ctx.ranges[e.lr].bundle].minimal}
       IN  phase' = IF /\ Requirement(UsesOf(ctx, cur.bundle)).k = "reg"
                       /\ Cardinality(held) >= Cardinality(PRegs)
                    THEN "too many live registers" ELSE "panic"
    /\ UNCHANGED <<prog, ctx, cur>>

QueueEmpty ==
    /\ phase = "process_bundles" /\ cur = NoBundle /\ ctx.queue = {}
    /\ phase' = "try_allocating_regs_for_spilled_bundles"
    /\ UNCHANGED <<prog, ctx, cur>>

-----------------------------------------------------------------------------
(* The second chance, the spill slots and the moves                        *)

\* The sort by spill weight is unstable: any bundle of the greatest weight
\* may come next.
SecondChance ==
    /\ phase = "try_allocating_regs_for_spilled_bundles" /\ ctx.spilled # <<>>
    /\ \E k \in DOMAIN ctx.spilled :
         LET b == ctx.spilled[k]
             c == [ctx EXCEPT !.spilled = RemoveAt(@, k),
                              !.bundles[b].ranges = SortSeq(@, ByStart)]
             ss == c.bundles[b].spillset
             regs == SelectSeq(Candidates(NoReg, c.spillsets[ss].hint, b - 1),
                               LAMBDA r : Hits(c, b, r).free)
         IN  /\ \A j \in DOMAIN ctx.spilled :
                    ctx.bundles[ctx.spilled[j]].weight <= c.bundles[b].weight
             /\ ctx' = IF c.bundles[b].ranges = <<>> THEN c
                       ELSE IF regs # <<>> THEN Allocate(c, b, regs[1])
                       ELSE [c EXCEPT !.spillsets[ss].required = TRUE]
    /\ UNCHANGED <<prog, cur, phase>>

\* allocate_spillslots: a slot is the set of the spill sets that share it.
MAX_ATTEMPTS == 10

SlotFits(c, k, ss) ==
    \A x \in c.slots[k] : ~Overlap(c.spillsets[x], c.spillsets[ss])

AssignSlot(c, ss) ==
    LET n == Len(c.slots)
        Probe(a) == ((c.probe + a - 1) % n) + 1
        fits == {a \in 0..Min({n, MAX_ATTEMPTS}) - 1 : SlotFits(c, Probe(a), ss)}
        k == IF fits = {} THEN n + 1 ELSE Probe(Min(fits))
    IN  IF ~c.spillsets[ss].required THEN c
        ELSE [c EXCEPT !.spillsets[ss].slot = k, !.probe = k,
                       !.slots = IF k > n THEN Append(@, {ss})
                                 ELSE [@ EXCEPT ![k] = @ \cup {ss}]]

AllocateSpillslots ==
    /\ phase = "try_allocating_regs_for_spilled_bundles" /\ ctx.spilled = <<>>
    /\ ctx' = FoldLeft(AssignSlot, ctx, [ss \in DOMAIN ctx.spillsets |-> ss])
    /\ phase' = "apply_allocations_and_insert_moves"
    /\ UNCHANGED <<prog, cur>>

Reg(r) == [reg |-> r, slot |-> None]

\* get_alloc_for_range.
RangeAlloc(c, i) ==
    LET b == c.bundles[c.ranges[i].bundle]
    IN  IF b.alloc # NoReg THEN Reg(b.alloc)
        ELSE [reg |-> NoReg, slot |-> c.spillsets[b.spillset].slot]

\* InsertMovePrio, without the moves on edges: one block has none.
Regular == 1
MultiFixedRegInitial == 2
MultiFixedRegSecondary == 3
ReusedInput == 4

Move(pos, prio, from, to) == [pos |-> pos, prio |-> prio, from |-> from, to |-> to]

\* PrevBuffer: of the ranges of the register that start before range i, the
\* one that ends last.
PrevRange(c, i) ==
    LET list == SortSeq(c.vregs[c.ranges[i].v],
                        LAMBDA x, y : c.ranges[x].from < c.ranges[y].from)
        before == {k \in DOMAIN list : c.ranges[list[k]].from < c.ranges[i].from}
        last == {k \in before : \A j \in before :
                     c.ranges[list[j]].to <= c.ranges[list[k]].to}
    IN  IF before = {} THEN None ELSE list[Min(last)]

Listed(c) == UNION {ToSet(c.vregs[v]) : v \in VRegs}

RegularMoves(c) ==
    {Move(c.ranges[i].from, Regular, RangeAlloc(c, PrevRange(c, i)), RangeAlloc(c, i)) :
        i \in {j \in Listed(c) : /\ PrevRange(c, j) # None
                                 /\ c.ranges[PrevRange(c, j)].to >= c.ranges[j].from
                                 /\ ~c.ranges[j].at_def}}

\* One round of copies into operands: f says where the operand of slot
\* to_slot takes its value and which location it has afterwards.
Fixups(c, prio, fs) ==
    LET To(s) == {f \in fs : InstOf(f.pos) = s[1] /\ f.to_slot = s[2]}
        Site(f) == <<InstOf(f.pos), f.from_slot>>
    IN  [c EXCEPT
          !.moves = @ \cup {Move(f.pos, prio, c.allocs[Site(f)], Reg(f.preg)) : f \in fs},
          !.allocs = [s \in DOMAIN @ |-> IF To(s) = {} THEN @[s]
                                         ELSE Reg((CHOOSE f \in To(s) : TRUE).preg)]]

ReuseInputs(c) ==
    LET Input(s) == <<s[1], prog[s[1]].ops[s[2]].con.r>>
        outs == ToSet(ReuseSites)
        ties(s) == {o \in outs : Input(o) = s}
    IN  [c EXCEPT
          !.moves = @ \cup {Move(Before(o[1]), ReusedInput, c.allocs[Input(o)], c.allocs[o]) :
                               o \in outs},
          !.allocs = [s \in DOMAIN @ |-> IF ties(s) = {} THEN @[s]
                                         ELSE @[CHOOSE o \in ties(s) : TRUE]]]

ApplyAllocationsAndInsertMoves ==
    /\ phase = "apply_allocations_and_insert_moves"
    /\ LET UseAt(i, s) == \E u \in ToSet(ctx.ranges[i].uses) :
                              InstOf(u.pos) = s[1] /\ u.slot = s[2]
           c0 == [ctx EXCEPT
               !.moves = RegularMoves(ctx),
               !.allocs = [s \in OperandSites |->
                   RangeAlloc(ctx, CHOOSE i \in Listed(ctx) : UseAt(i, s))]]
           c1 == Fixups(c0, MultiFixedRegInitial, ctx.initial)
           c2 == ReuseInputs(Fixups(c1, MultiFixedRegSecondary, ctx.secondary))
       IN  ctx' = [c2 EXCEPT !.moves = {m \in @ : m.from # m.to}]
    /\ phase' = "done"
    /\ UNCHANGED <<prog, cur>>

-----------------------------------------------------------------------------
Final == {"done", "too many live registers", "panic"}
Ended == phase \in Final /\ UNCHANGED vars

Init ==
    /\ prog \in Programs /\ ctx = <<>> /\ cur = NoBundle
    /\ phase = "build_liveranges"

Next ==
    \/ BuildLiveranges
    \/ FixupMultiFixedVRegs
    \/ MergeVRegBundles
    \/ QueueBundles
    \/ TakeBundle
    \/ AllocateCurrent
    \/ SplitCurrent
    \/ EvictConflicts
    \/ GiveUp
    \/ QueueEmpty
    \/ SecondChance
    \/ AllocateSpillslots
    \/ ApplyAllocationsAndInsertMoves
    \/ Ended

\* The allocator is a loop on one thread: it takes a step until it ends.
\* (Every state that is not final has a next one, so this is WF_vars(Next).)
Fairness == []<>(phase \in Final) \/ []<><<TRUE>>_vars
Spec == Init /\ [][Next]_vars /\ Fairness

-----------------------------------------------------------------------------
(* Properties                                                              *)

Bundled == phase \notin {"build_liveranges", "fixup_multi_fixed_vregs",
                         "merge_vreg_bundles", "queue_bundles"}

Owned(b) == {[e EXCEPT !.from = ctx.ranges[e.lr].from, !.to = ctx.ranges[e.lr].to] :
                e \in ToSet(ctx.bundles[b].ranges)}

\* The type invariant: bundles hold non-empty ranges that name them and have
\* the bounds that the live-range table gives them.
TypeOK ==
    Bundled =>
        \A b \in DOMAIN ctx.bundles : \A e \in ToSet(ctx.bundles[b].ranges) :
            /\ e.from < e.to /\ ctx.ranges[e.lr].bundle = b
            /\ e.from = ctx.ranges[e.lr].from /\ e.to = ctx.ranges[e.lr].to

\* Two live ranges never share a register: whatever was allocated, evicted,
\* split and trimmed (try_to_allocate_bundle_to_reg, evict_bundle,
\* split_and_requeue_bundle), the map of a register holds exactly the ranges
\* of the bundles allocated to it and the reservations, none overlapping.
RegistersExclusive ==
    Bundled => \A r \in PRegs :
        /\ {e \in ctx.pregs[r] : e.lr # None} =
               UNION {Owned(b) : b \in {x \in DOMAIN ctx.bundles :
                                            ctx.bundles[x].alloc = r}}
        /\ \A e, f \in ctx.pregs[r] : e # f =>
               ~Overlap(e, f) \/ (e.lr = None /\ f.lr = None)

\* No bundle is lost and none is worked on twice: one with ranges is queued,
\* being processed, allocated, or waiting for its second chance, exactly one
\* of these, and after that chance it has a register or a spill slot.
BundlesAccounted ==
    Bundled => \A b \in {x \in DOMAIN ctx.bundles : ctx.bundles[x].ranges # <<>>} :
        LET queued == {e \in ctx.queue : e.bundle = b}
            waiting == {k \in DOMAIN ctx.spilled : ctx.spilled[k] = b}
            held == IF ctx.bundles[b].alloc # NoReg \/ cur.bundle = b THEN 1 ELSE 0
            ss == ctx.spillsets[ctx.bundles[b].spillset]
        IN  IF phase = "process_bundles"
            THEN Cardinality(queued) + Cardinality(waiting) + held = 1
            ELSE phase \in {"done", "apply_allocations_and_insert_moves"} =>
                     ctx.bundles[b].alloc # NoReg \/ ss.slot # None

\* Splitting loses nothing: every operand is a use of exactly one listed
\* range, inside of it, and the listed ranges of a register cover all the
\* points from its definition to its last use (split_and_requeue_bundle,
\* split_into_minimal_bundles, enqueue_isolated_range).
RangesCovered ==
    phase = "process_bundles" =>
        LET listed == Listed(ctx)
            Sites(i) == {<<InstOf(u.pos), u.slot>> : u \in ToSet(ctx.ranges[i].uses)}
        IN  /\ UNION {Sites(i) : i \in listed} = OperandSites
            /\ \A i, j \in listed : i # j => Sites(i) \cap Sites(j) = {}
            /\ \A i \in listed : \A u \in ToSet(ctx.ranges[i].uses) :
                   ctx.ranges[i].from <= u.pos /\ u.pos < ctx.ranges[i].to
            /\ \A v \in VRegs : LET life == VRegRange(v) IN
                   \A p \in life.from..life.to - 1 : \E i \in ToSet(ctx.vregs[v]) :
                       ctx.ranges[i].from <= p /\ p < ctx.ranges[i].to

(***************************************************************************)
(* What the allocation computes: the moves and the instructions run on     *)
(* locations that hold the name of a virtual register, 0 for anything else.*)
(***************************************************************************)
Locations == {Reg(r) : r \in PRegs}
                \cup {[reg |-> NoReg, slot |-> k] : k \in DOMAIN ctx.slots}

RunMoves(val, pos, prio) ==
    LET g == {m \in ctx.moves : m.pos = pos /\ m.prio = prio}
        Into(l) == {m.from : m \in {n \in g : n.to = l}}
    IN  [l \in Locations |-> IF Into(l) = {} THEN val[l]
                             ELSE IF Cardinality(Into(l)) > 1 THEN 0
                             ELSE val[CHOOSE f \in Into(l) : TRUE]]

Ops(i, def, early) ==
    {j \in DOMAIN prog[i].ops : prog[i].ops[j].def = def /\ prog[i].ops[j].early = early}
Loc(i, j) == ctx.allocs[<<i, j>>]

Write(val, i, js) ==
    [l \in Locations |-> IF \E j \in js : Loc(i, j) = l
                         THEN prog[i].ops[CHOOSE j \in js : Loc(i, j) = l].v ELSE val[l]]

Holds(val, i, js) == \A j \in js : val[Loc(i, j)] = prog[i].ops[j].v

\* The operands get what the instruction asks for.
Satisfied(i) ==
    LET ops == prog[i].ops
        defs == {j \in DOMAIN ops : ops[j].def}
    IN  /\ \A j \in DOMAIN ops :
              CASE ops[j].con.k = "fixed" -> Loc(i, j) = Reg(ops[j].con.r)
                [] ops[j].con.k = "reg"   -> Loc(i, j).reg # NoReg
                [] ops[j].con.k = "reuse" -> Loc(i, j) = Loc(i, ops[j].con.r)
                [] OTHER                  -> TRUE
        /\ \A j \in defs : Loc(i, j).reg \notin prog[i].clobbers
        /\ \A j, k \in defs : j # k => Loc(i, j) # Loc(i, k)

Step(s, i) ==
    LET m == FoldLeft(LAMBDA val, prio : RunMoves(val, Before(i), prio), s.val,
                      <<Regular, MultiFixedRegInitial, MultiFixedRegSecondary, ReusedInput>>)
        early == Write(m, i, Ops(i, TRUE, TRUE))
        dead == [l \in Locations |-> IF l.reg \in prog[i].clobbers THEN 0 ELSE early[l]]
        late == Write(dead, i, Ops(i, TRUE, FALSE))
    IN  [val |-> late,
         ok |-> /\ s.ok /\ Satisfied(i)
                /\ Holds(early, i, Ops(i, FALSE, TRUE))
                /\ Holds(early, i, Ops(i, FALSE, FALSE))
                /\ Holds(late, i, Ops(i, FALSE, FALSE))]

\* The allocation is correct: when the instructions run with the inserted
\* moves, every operand finds its value where the allocator says it is, in a
\* place its constraint allows, and no move falls inside an instruction
\* (apply_allocations_and_insert_moves over all that was decided before).
ReadsRightValue ==
    phase = "done" =>
        /\ \A m \in ctx.moves : m.pos = Before(InstOf(m.pos))
        /\ FoldLeft(Step, [val |-> [l \in Locations |-> 0], ok |-> TRUE],
                    [i \in Insts |-> i]).ok

\* The registers that an instruction takes when every operand has one of its
\* own: two operands that read the same value count twice, since
\* split_into_minimal_bundles gives each its bundle.
Demand(i, pt) ==
    LET ops == prog[i].ops
        Covers(j) == LET m == MinimalRange(OperandUse(i, j)) IN m.from <= pt /\ pt < m.to
    IN  Cardinality({j \in DOMAIN ops : Covers(j)})
          + (IF pt = After(i) THEN Cardinality(prog[i].clobbers) ELSE 0)

\* The allocator gives up only at an instruction whose operands, one register
\* each, do not fit at a point of the range it gives up on, and never panics
\* (process_bundle: "correctly reject impossible-to-allocate programs").
RejectsOnlyImpossible ==
    /\ phase # "panic"
    /\ phase = "too many live registers" =>
           LET range == ctx.bundles[cur.bundle].ranges[1]
           IN  \E pt \in range.from..range.to - 1 :
                   Demand(InstOf(pt), pt) > Cardinality(PRegs)

\* Allocation ends: bundles do not evict each other for ever, and splitting
\* reaches bundles that cannot be split (process_bundle, "the equal to part
\* is very important").
Terminates == <>(phase \in Final)
=============================================================================
