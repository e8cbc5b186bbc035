-------------------------- MODULE EmitBufferProofs --------------------------
(***************************************************************************)
(* The alias chains of the emission buffer have an end: `resolved` never   *)
(* panics with "label alias cycle detected", whatever the function, the    *)
(* thresholds and the reaches.                                             *)
(*                                                                         *)
(* The threading rule redirects the labels on the record of the last       *)
(* branch and is guarded only by an offset comparison.  It is enough       *)
(* because of where labels are kept: a label on a record or at the tail is *)
(* not aliased yet and is bound exactly there (LabelsPlaced), so a chain   *)
(* that ends at another offset does not end in one of the redirected       *)
(* labels.                                                                 *)
(***************************************************************************)
EXTENDS EmitBuffer, RecursionFacts, FiniteSetTheorems

(* Offsets are moved by the veneers once emission is over. *)
Emitting == pc \notin {"resolve", "done"}

(* The records are of distinct slots, in their order. *)
RecordsOrdered ==
    \A i \in DOMAIN latest_branches :
        /\ latest_branches[i].start < cur_slot
        /\ \A j \in DOMAIN latest_branches :
               i < j => latest_branches[i].start < latest_branches[j].start

(* The labels of a record, and those at the tail unless they are stale,    *)
(* are bound there and not redirected.                                     *)
LabelsPlaced ==
    /\ labels_at_tail_off <= cur_slot
    /\ \A l \in labels_at_tail :
           /\ l <= block
           /\ labels_at_tail_off = cur_slot =>
                  label_aliases[l] = NoAlias /\ label_offsets[l] = cur_slot
    /\ \A i \in DOMAIN latest_branches : \A l \in latest_branches[i].labels :
           /\ l <= block /\ label_aliases[l] = NoAlias
           /\ label_offsets[l] = latest_branches[i].start

(* Only labels that are bound are redirected. *)
UnboundNotAliased == \A l \in Blocks : l > block => label_aliases[l] = NoAlias

(* Every alias chain has an end: r counts down along it, and e[l] is where *)
(* it ends.                                                                *)
Ends(r, e, aliases) ==
    \A l \in Blocks :
        /\ r[l] \in Nat /\ e[l] \in Blocks /\ aliases[e[l]] = NoAlias
        /\ aliases[l] = NoAlias => e[l] = l
        /\ aliases[l] # NoAlias => e[l] = e[aliases[l]] /\ r[aliases[l]] < r[l]

HasEnds(aliases) == \E r, e : Ends(r, e, aliases)
ChainsEnd == HasEnds(label_aliases)

LabelInv ==
    /\ UnboundNotAliased /\ ChainsEnd
    /\ Emitting => RecordsOrdered /\ LabelsPlaced

-----------------------------------------------------------------------------
(* The blocks of a function are finitely many. *)
LEMMA BlockFacts ==
    /\ NumBlocks \in Nat /\ NumBlocks # 0
    /\ IsFiniteSet(Blocks) /\ Cardinality(Blocks) = NumBlocks
    /\ \A b \in Blocks : b \in Nat /\ b # NoAlias
<1>1. NumBlocks \in Nat /\ NumBlocks # 0
  BY BufferAssumption
<1>2. IsFiniteSet(0 .. NumBlocks - 1) /\ Cardinality(0 .. NumBlocks - 1) = NumBlocks
  BY <1>1, FS_Interval
<1>3. \A b \in Blocks : b \in Nat /\ b # NoAlias
  BY <1>1 DEF Blocks, NoAlias
<1> QED BY <1>1, <1>2, <1>3 DEF Blocks

(* at is the chain that `resolved` follows from l. *)
Hop(aliases, m) == IF aliases[m] = NoAlias THEN m ELSE aliases[m]

Chases(at, l) ==
    /\ at \in [0 .. NumBlocks + 1 -> Blocks]
    /\ at[0] = l
    /\ \A n \in 1 .. NumBlocks + 1 : at[n] = Hop(label_aliases, at[n - 1])

(* `resolved` follows the aliases one hop at a time. *)
LEMMA ChaseRecursion ==
    ASSUME label_aliases \in [Blocks -> Blocks \cup {NoAlias}], NEW l \in Blocks
    PROVE  \E at : Chases(at, l) /\ Chase(l) = at[NumBlocks + 1]
<1> DEFINE N == NumBlocks + 1
           Eqn(f) == [n \in 0 .. N |-> IF n = 0 THEN l
                        ELSE LET m == f[n - 1] IN
                             IF label_aliases[m] = NoAlias THEN m ELSE label_aliases[m]]
           step == [n \in 1 .. N |-> [m \in Blocks |-> Hop(label_aliases, m)]]
           at == CHOOSE f : f = Eqn(f)
<1>1. N \in Nat
  BY BlockFacts
<1>2. \A m \in Blocks : Hop(label_aliases, m) \in Blocks
  BY DEF Hop
<1>3. PICK g : IsRecursion(g, step, N, Blocks, l)
  <2>1. IsStep(step, N, Blocks)
    BY <1>2 DEF IsStep
  <2> HIDE DEF step, N
  <2> QED BY <1>1, <2>1, RecursionExists, Zenon
<1>4. \A n \in 1 .. N : g[n] = Hop(label_aliases, g[n - 1])
  <2> SUFFICES ASSUME NEW n \in 1 .. N PROVE g[n] = Hop(label_aliases, g[n - 1])
    OBVIOUS
  <2> HIDE DEF N
  <2>1. g[n - 1] \in Blocks
    BY <1>3, <1>1 DEF IsRecursion
  <2> QED BY Zenon, <1>3, <2>1 DEF IsRecursion
<1>5. g = Eqn(g)
  <2> HIDE DEF N
  <2> QED BY <1>1, <1>3, <1>4 DEF IsRecursion, Hop
<1>6. at = Eqn(at)
  BY <1>5, Zenon
<1>7. Chase(l) = at[N]
  BY Zenon DEF Chase
<1> HIDE DEF at, N
<1>8. at[0] = l /\ \A n \in 1 .. N : at[n] = Hop(label_aliases, at[n - 1])
  BY <1>1, <1>6 DEF Hop
<1>9. at \in [0 .. N -> Blocks]
  <2> DEFINE S == {n \in 0 .. N : at[n] \in Blocks}
  <2>1. 0 \in S
    BY <1>1, <1>8
  <2>2. ASSUME NEW n \in 0 .. N, n \in S, n < N PROVE n + 1 \in S
    <3>1. n + 1 \in 1 .. N /\ (n + 1) - 1 = n
      BY <1>1, <2>2
    <3> QED BY <1>1, <1>2, <1>8, <2>2, <3>1
  <2> HIDE DEF S
  <2>3. 0 .. N \subseteq S
    BY <1>1, <2>1, <2>2, PrefixInduction
  <2> QED BY <1>6, <2>3 DEF S
<1> QED BY Zenon, <1>7, <1>8, <1>9 DEF Chases, N

(* Chains that have an end have it within the hops that `resolved` makes:  *)
(* a longer chain would visit a block twice.                               *)
LEMMA ChaseEnds ==
    ASSUME label_aliases \in [Blocks -> Blocks \cup {NoAlias}],
           NEW r, NEW e, Ends(r, e, label_aliases), NEW l \in Blocks
    PROVE  Chase(l) = e[l]
<1> DEFINE N == NumBlocks + 1
<1>1. N \in Nat /\ NumBlocks \in Nat
  BY BlockFacts
<1>2. PICK at : Chases(at, l) /\ Chase(l) = at[N]
  BY ChaseRecursion
<1>3. /\ \A n \in 0 .. N : at[n] \in Blocks
      /\ at[0] = l
      /\ \A n \in 1 .. N : at[n] = Hop(label_aliases, at[n - 1])
  BY <1>2 DEF Chases
<1>4. \A m \in Blocks :
         /\ r[m] \in Nat
         /\ label_aliases[m] = NoAlias => e[m] = m
         /\ label_aliases[m] # NoAlias =>
               label_aliases[m] \in Blocks /\ e[m] = e[label_aliases[m]]
               /\ r[label_aliases[m]] < r[m]
  BY DEF Ends
<1> HIDE DEF N
<1>5. ASSUME NEW n \in 0 .. N, n < N
      PROVE  n + 1 \in 0 .. N /\ at[n] \in Blocks /\ at[n + 1] = Hop(label_aliases, at[n])
  <2>1. n + 1 \in 1 .. N /\ (n + 1) - 1 = n /\ n + 1 \in 0 .. N
    BY <1>1, <1>5
  <2> QED BY <1>3, <2>1
<1> DEFINE Same == {n \in 0 .. N : e[at[n]] = e[l]}
<1>6. 0 .. N \subseteq Same
  <2>1. 0 \in Same
    BY <1>1, <1>3
  <2>2. ASSUME NEW n \in 0 .. N, n \in Same, n < N PROVE n + 1 \in Same
    BY <1>4, <1>5, <2>2 DEF Hop
  <2> HIDE DEF Same
  <2> QED BY <1>1, <2>1, <2>2, PrefixInduction
<1> DEFINE Falls == {n \in 0 .. N : \/ label_aliases[at[n]] = NoAlias
                                   \/ \A j \in 0 .. n : j < n => r[at[n]] < r[at[j]]}
<1>7. 0 .. N \subseteq Falls
  <2>1. 0 \in Falls
    BY <1>1
  <2>2. ASSUME NEW n \in 0 .. N, n \in Falls, n < N PROVE n + 1 \in Falls
    <3>1. CASE label_aliases[at[n]] = NoAlias
      BY <1>5, <2>2, <3>1 DEF Hop
    <3>2. CASE label_aliases[at[n]] # NoAlias
      <4>1. at[n + 1] = label_aliases[at[n]] /\ r[at[n + 1]] < r[at[n]]
            /\ r[at[n + 1]] \in Nat /\ r[at[n]] \in Nat
        BY <1>3, <1>4, <1>5, <2>2, <3>2 DEF Hop
      <4>2. ASSUME NEW j \in 0 .. n + 1, j < n + 1 PROVE r[at[n + 1]] < r[at[j]]
        <5>1. j = n \/ (j \in 0 .. n /\ j < n)
          BY <4>2
        <5>2. j \in 0 .. N
          BY <1>1, <5>1
        <5>3. r[at[j]] \in Nat
          BY <1>3, <1>4, <5>2
        <5> QED BY <2>2, <3>2, <4>1, <5>1, <5>3
      <4> QED BY <1>5, <2>2, <4>2
    <3> QED BY <3>1, <3>2
  <2> HIDE DEF Falls
  <2> QED BY <1>1, <2>1, <2>2, PrefixInduction
<1>8. PICK y \in 0 .. NumBlocks : label_aliases[at[y]] = NoAlias
  <2> DEFINE f == [n \in 0 .. NumBlocks |-> at[n]]
  <2>1. f \in [0 .. NumBlocks -> Blocks] /\ \A n \in 0 .. NumBlocks : n \in 0 .. N
    BY <1>1, <1>3 DEF N
  <2>2. IsFiniteSet(0 .. NumBlocks) /\ Cardinality(0 .. NumBlocks) = N
    BY <1>1, FS_Interval DEF N
  <2>3. Cardinality(Blocks) < Cardinality(0 .. NumBlocks)
    BY <1>1, <2>2, BlockFacts DEF N
  <2> DEFINE I == 0 .. NumBlocks
  <2> HIDE DEF f, I
  <2>p. /\ IsFiniteSet(I) /\ IsFiniteSet(Blocks) /\ f \in [I -> Blocks]
        /\ Cardinality(Blocks) < Cardinality(I)
    BY Zenon, <2>1, <2>2, <2>3, BlockFacts DEF I
  <2>q. \E a, b \in I : a # b /\ f[a] = f[b]
    BY Zenon, <2>p, FS_PigeonHole
  <2>4. PICK a, b \in 0 .. NumBlocks : a # b /\ f[a] = f[b]
    BY Zenon, <2>q DEF I
  <2>5. at[a] = at[b]
    BY <2>4 DEF f
  <2>6. ASSUME NEW x \in 0 .. NumBlocks, NEW y \in 0 .. NumBlocks, x < y, at[x] = at[y]
        PROVE  label_aliases[at[y]] = NoAlias
    <3>1. y \in Falls /\ x \in 0 .. y /\ y \in 0 .. N
      BY <1>1, <1>7, <2>1, <2>6
    <3>2. ~(r[at[y]] < r[at[x]])
      BY <1>3, <1>4, <2>6, <3>1
    <3> QED BY <2>6, <3>1, <3>2
  <2>7. a < b \/ b < a
    BY <2>4
  <2> QED BY <2>4, <2>5, <2>6, <2>7
<1> DEFINE Settled == {n \in 0 .. N : y <= n => label_aliases[at[n]] = NoAlias}
<1>9. 0 .. N \subseteq Settled
  <2>1. 0 \in Settled
    BY <1>1, <1>8
  <2>2. ASSUME NEW n \in 0 .. N, n \in Settled, n < N PROVE n + 1 \in Settled
    <3>1. CASE y <= n
      BY <1>5, <2>2, <3>1 DEF Hop
    <3>2. CASE ~(y <= n)
      BY <1>5, <1>8, <2>2, <3>2
    <3> QED BY <3>1, <3>2
  <2> HIDE DEF Settled
  <2> QED BY <1>1, <2>1, <2>2, PrefixInduction
<1>10. N \in 0 .. N /\ y <= N
  BY <1>1, <1>8 DEF N
<1>11. label_aliases[at[N]] = NoAlias /\ e[at[N]] = e[l] /\ at[N] \in Blocks
  BY <1>3, <1>6, <1>9, <1>10
<1> QED BY <1>2, <1>4, <1>11

-----------------------------------------------------------------------------
(* What the emitter writes are slots, and so is what the buffer makes of   *)
(* them: an inverted branch, a rewritten branch and its veneer.            *)
LEMMA SlotFacts ==
    /\ \A b \in Blocks : Text(b) \in Slot /\ Ret(b) \in Slot
    /\ \A b, t \in Blocks : Cond(b, t) \in Slot /\ Jump(b, t) \in Slot
    /\ \A s \in Slot : IsBlockBranch(s) =>
           /\ s.target \in Blocks
           /\ VeneerOf(s) \in Slot
           /\ (IF s.k = "cond" THEN SkipVeneer(s) ELSE EnterVeneer(s)) \in Slot
    /\ \A s \in Slot, t \in Blocks :
           s.k = "cond" => [s EXCEPT !.sense = ~@, !.target = t] \in Slot
<1>1. \A b \in Blocks : Text(b) \in Slot /\ Ret(b) \in Slot
  BY DEF Text, Ret, Slot
<1>2. \A b, t \in Blocks : Cond(b, t) \in Slot /\ Jump(b, t) \in Slot
  BY DEF Cond, Jump, Slot
<1>3. ASSUME NEW s \in Slot, s.k = "cond"
      PROVE  /\ s.target \in Blocks /\ s.blk \in Blocks /\ s.sense \in BOOLEAN
             /\ s \in [k : {"cond"}, blk : Blocks, sense : BOOLEAN, target : Blocks]
  BY <1>3 DEF Slot
<1>4. ASSUME NEW s \in Slot, s.k = "jump" PROVE s.target \in Blocks /\ s.blk \in Blocks
  BY <1>4 DEF Slot
<1>5. ASSUME NEW s \in Slot, NEW t \in Blocks, s.k = "cond"
      PROVE  [s EXCEPT !.sense = ~@, !.target = t] \in Slot
  BY Zenon, <1>3, <1>5 DEF Slot
<1>6. ASSUME NEW s \in Slot, IsBlockBranch(s)
      PROVE  /\ s.target \in Blocks
             /\ VeneerOf(s) \in Slot
             /\ (IF s.k = "cond" THEN SkipVeneer(s) ELSE EnterVeneer(s)) \in Slot
  <2>1. s.k = "cond" \/ s.k = "jump"
    BY <1>6 DEF IsBlockBranch
  <2>2. s.target \in Blocks /\ s.blk \in Blocks
    BY <1>3, <1>4, <2>1
  <2>3. VeneerOf(s) \in Slot
    BY <2>2 DEF VeneerOf, Slot
  <2>4. CASE s.k = "cond"
    <3>1. SkipVeneer(s) \in [k : {"skip"}, blk : Blocks, sense : BOOLEAN]
      BY <1>3, <2>4 DEF SkipVeneer
    <3> QED BY <2>2, <2>3, <2>4, <3>1 DEF Slot
  <2>5. CASE s.k # "cond"
    <3>1. EnterVeneer(s) \in [k : {"text", "ret", "enter"}, blk : Blocks]
      BY <2>2 DEF EnterVeneer
    <3> QED BY <2>2, <2>3, <2>5, <3>1 DEF Slot
  <2> QED BY <2>4, <2>5
<1> QED BY <1>1, <1>2, <1>5, <1>6

(* Flattening a sequence of sequences keeps the type of the elements. *)
LEMMA FlattenType ==
    ASSUME NEW S, NEW ss \in Seq(Seq(S))
    PROVE  FlattenSeq(ss) \in Seq(S)
<1> DEFINE N == Len(ss)
           Eqn(f) == [i \in 1 .. N |-> IF i = 1 THEN ss[i] ELSE f[i - 1] \o ss[i]]
           V == Seq(S)
           step == [n \in 1 .. N |-> [v \in V |-> v \o ss[n]]]
           flatten == CHOOSE f : f = Eqn(f)
<1>1. N \in Nat /\ (\A n \in 1 .. N : ss[n] \in V) /\ <<>> \in V
  OBVIOUS
<1>2. CASE N = 0
  BY <1>2 DEF FlattenSeq
<1>3. CASE N # 0
  <2>1. PICK g : IsRecursion(g, step, N, V, <<>>)
    <3>1. IsStep(step, N, V)
      BY <1>1 DEF IsStep
    <3> HIDE DEF step, N, V
    <3> QED BY <1>1, <3>1, RecursionExists, Zenon
  <2>2. \A n \in 1 .. N : g[n] = g[n - 1] \o ss[n]
    <3> SUFFICES ASSUME NEW n \in 1 .. N PROVE g[n] = g[n - 1] \o ss[n]
      BY Zenon
    <3> HIDE DEF N, V
    <3>1. g[n - 1] \in V
      BY <2>1, <1>1 DEF IsRecursion
    <3> QED BY Zenon, <2>1, <3>1 DEF IsRecursion
  <2> DEFINE h == [i \in 1 .. N |-> g[i]]
  <2>3. h = Eqn(h)
    <3> HIDE DEF N
    <3> SUFFICES ASSUME NEW i \in 1 .. N
                 PROVE  g[i] = IF i = 1 THEN ss[i] ELSE h[i - 1] \o ss[i]
      BY Zenon
    <3>1. CASE i = 1
      <4>1. g[0] = <<>> /\ ss[1] \in Seq(S) /\ g[1] = g[0] \o ss[1]
        <5>1. 1 \in 1 .. N /\ 1 - 1 = 0
          BY <3>1
        <5> QED BY Zenon, <1>1, <2>1, <2>2, <5>1 DEF IsRecursion
      <4> QED BY <3>1, <4>1
    <3>2. CASE i # 1
      <4>1. i - 1 \in 1 .. N
        BY <1>1, <3>2
      <4> QED BY Zenon, <2>2, <3>2, <4>1
    <3> QED BY <3>1, <3>2
  <2>4. flatten = Eqn(flatten)
    <3> HIDE DEF h
    <3> QED BY <2>3, Zenon
  <2>5. FlattenSeq(ss) = flatten[N]
    BY <1>3, Zenon DEF FlattenSeq
  <2> HIDE DEF flatten, h, N, V, step
  <2> DEFINE T == {n \in 0 .. N : n = 0 \/ flatten[n] \in V}
  <2>6. 0 \in T
    BY <1>1
  <2>7. ASSUME NEW n \in 0 .. N, n \in T, n < N PROVE n + 1 \in T
    <3>1. n + 1 \in 1 .. N /\ n + 1 \in 0 .. N /\ (n + 1) - 1 = n
      BY <1>1, <2>7
    <3>2. flatten[n + 1] = IF n + 1 = 1 THEN ss[n + 1] ELSE flatten[n] \o ss[n + 1]
      BY Zenon, <2>4, <3>1
    <3>3. CASE n = 0
      BY <1>1, <3>1, <3>2, <3>3
    <3>4. CASE n # 0
      <4>1. flatten[n] \in Seq(S) /\ ss[n + 1] \in Seq(S)
        BY <1>1, <2>7, <3>1, <3>4 DEF V
      <4>2. n + 1 # 1
        BY <3>4
      <4>3. flatten[n] \o ss[n + 1] \in Seq(S)
        BY <4>1
      <4>4. flatten[n + 1] \in V
        BY Zenon, <3>2, <4>2, <4>3 DEF V
      <4> QED BY <3>1, <4>4
    <3> QED BY <3>3, <3>4
  <2> HIDE DEF T
  <2>8. 0 .. N \subseteq T
    BY Zenon, <1>1, <2>6, <2>7, PrefixInduction
  <2>9. N \in T
    BY <1>1, <2>8
  <2> QED BY <1>3, <2>5, <2>9 DEF T, V
<1> QED BY <1>2, <1>3

-----------------------------------------------------------------------------
(* A block is being emitted while its label is bound and its body is out. *)
TypeInv == TypeOK /\ (pc \in {"opt", "body"} => block \in Blocks)

Record == [start : Nat, labels : SUBSET Blocks]

(* The state of the buffer, unfolded where the steps below change it. *)
LEMMA BufferFacts ==
    ASSUME TypeOK
    PROVE  /\ slots \in Seq(Slot) /\ cur_slot \in Nat /\ raw \in Seq(Slot)
           /\ latest_branches \in Seq(Record) /\ Len(latest_branches) \in Nat
           /\ TailLabels \in SUBSET Blocks
           /\ labels_at_tail_off \in Nat
           /\ label_aliases \in [Blocks -> Blocks \cup {NoAlias}]
           /\ label_offsets \in [Blocks -> Int]
BY DEF TypeOK, Record, cur_slot, TailLabels

(* All but the last element of a sequence. *)
LEMMA FrontFacts ==
    ASSUME NEW S, NEW s \in Seq(S), s # <<>>
    PROVE  /\ Front(s) \in Seq(S) /\ Len(Front(s)) = Len(s) - 1
           /\ \A i \in 1 .. Len(s) - 1 : Front(s)[i] = s[i]
<1>1. Len(s) \in Nat /\ Len(s) - 1 \in Nat
  OBVIOUS
<1>2. Front(s) = [i \in 1 .. Len(s) - 1 |-> s[i]]
  BY <1>1 DEF Front
<1>3. \A i \in 1 .. Len(s) - 1 : s[i] \in S
  OBVIOUS
<1> QED BY <1>1, <1>2, <1>3

(* The record of the last branch, when there is one. *)
LEMMA LastFacts ==
    ASSUME TypeOK, latest_branches # <<>>
    PROVE  /\ Len(latest_branches) \in 1 .. Len(latest_branches)
           /\ last = latest_branches[Len(latest_branches)]
           /\ last.start \in Nat /\ last.labels \in SUBSET Blocks
           /\ Front(latest_branches) \in Seq(Record)
           /\ Len(Front(latest_branches)) = Len(latest_branches) - 1
           /\ \A i \in 1 .. Len(latest_branches) - 1 :
                  Front(latest_branches)[i] = latest_branches[i]
<1>1. latest_branches \in Seq(Record)
  BY BufferFacts
<1>2. /\ Len(latest_branches) \in 1 .. Len(latest_branches)
      /\ latest_branches[Len(latest_branches)] \in Record
  BY <1>1
<1>3. last = latest_branches[Len(latest_branches)]
  BY DEF last, Last
<1>4. last.start \in Nat /\ last.labels \in SUBSET Blocks
  BY <1>2, <1>3 DEF Record
<1>5. /\ Front(latest_branches) \in Seq(Record)
      /\ Len(Front(latest_branches)) = Len(latest_branches) - 1
      /\ \A i \in 1 .. Len(latest_branches) - 1 :
             Front(latest_branches)[i] = latest_branches[i]
  BY <1>1, FrontFacts
<1> QED BY <1>2, <1>3, <1>4, <1>5

(* `put_branch` adds slots and records. *)
LEMMA PutBranchesType ==
    ASSUME TypeOK, NEW new \in Seq(Slot), Len(new) # 0, PutBranches(new),
           UNCHANGED <<enable_branch_opt, block, round>>, pc' = "bind"
    PROVE  TypeInv'
<1> DEFINE records == [i \in DOMAIN new |->
                         [start |-> cur_slot + i - 1,
                          labels |-> IF i = 1 THEN TailLabels ELSE {}]]
<1>1. /\ slots \in Seq(Slot) /\ cur_slot \in Nat /\ raw \in Seq(Slot)
      /\ latest_branches \in Seq(Record) /\ TailLabels \in SUBSET Blocks
  BY BufferFacts
<1>2. Len(new) \in Nat /\ DOMAIN new = 1 .. Len(new)
  OBVIOUS
<1>3. records \in Seq(Record)
  <2>1. \A i \in 1 .. Len(new) : records[i] \in Record
    BY <1>1, <1>2 DEF Record
  <2>2. records \in [1 .. Len(new) -> Record]
    BY <1>2, <2>1
  <2> HIDE DEF records
  <2> QED BY <1>2, <2>2
<1>4. /\ slots' = slots \o new /\ raw' = raw \o new
      /\ latest_branches' = latest_branches \o records
      /\ labels_at_tail' = (IF Len(new) = 1 THEN TailLabels ELSE {})
      /\ labels_at_tail_off' = cur_slot + Len(new) - 1
      /\ UNCHANGED <<label_offsets, label_aliases, raw_offsets>>
  BY DEF PutBranches
<1> HIDE DEF records
<1>5. slots' \in Seq(Slot) /\ raw' \in Seq(Slot) /\ latest_branches' \in Seq(Record)
  BY <1>1, <1>3, <1>4
<1>6. labels_at_tail' \subseteq Blocks /\ labels_at_tail_off' \in Nat
  BY <1>1, <1>2, <1>4
<1> QED BY Zenon, <1>4, <1>5, <1>6 DEF TypeInv, TypeOK, Record

(* `end_inst` adds a slot. *)
LEMMA PutTextType ==
    ASSUME TypeInv, NEW s \in Slot, PutText(s),
           UNCHANGED <<enable_branch_opt, block, round>>,
           pc' = "bind" \/ UNCHANGED pc
    PROVE  TypeInv'
<1>1. slots' = Append(slots, s) /\ raw' = Append(raw, s)
      /\ UNCHANGED <<label_offsets, label_aliases, latest_branches,
                     labels_at_tail, labels_at_tail_off, raw_offsets>>
  BY DEF PutText
<1>2. slots' \in Seq(Slot) /\ raw' \in Seq(Slot)
  BY <1>1 DEF TypeInv, TypeOK
<1>3. pc' \in {"bind", "opt", "body", "optend", "resolve", "done"}
      /\ (pc' \in {"opt", "body"} => block' \in Blocks)
  BY DEF TypeInv, TypeOK
<1> QED BY <1>1, <1>2, <1>3 DEF TypeInv, TypeOK

(* `truncate_last_branch` drops the last record. *)
LEMMA TruncateType ==
    ASSUME TypeInv, latest_branches # <<>>, NEW kept \in Seq(Slot), TruncateLastBranch(kept)
    PROVE  TypeInv'
<1>1. /\ last.start \in Nat /\ last.labels \in SUBSET Blocks
      /\ Front(latest_branches) \in Seq(Record) /\ TailLabels \in SUBSET Blocks
      /\ label_offsets \in [Blocks -> Int]
  BY LastFacts, BufferFacts DEF TypeInv
<1>2. /\ slots' = kept
      /\ latest_branches' = Front(latest_branches)
      /\ label_offsets' = [l \in Blocks |-> IF l \in TailLabels THEN last.start
                                            ELSE label_offsets[l]]
      /\ labels_at_tail' = TailLabels \cup last.labels
      /\ labels_at_tail_off' = last.start
      /\ UNCHANGED <<label_aliases, enable_branch_opt, pc, block, round, raw, raw_offsets>>
  BY DEF TruncateLastBranch
<1>3. label_offsets' \in [Blocks -> Int]
  BY <1>1, <1>2
<1> QED BY <1>1, <1>2, <1>3 DEF TypeInv, TypeOK, Record

(* The branch that the loop looks at is the last slot. *)
LEMMA EditableFacts ==
    ASSUME TypeOK, Editable
    PROVE  /\ latest_branches # <<>> /\ last.start + 1 = cur_slot /\ cur_slot \in Nat
           /\ Front(slots) \in Seq(Slot) /\ Len(Front(slots)) = last.start
           /\ \A i \in 1 .. last.start : Front(slots)[i] = slots[i]
           /\ last_branch \in Slot
<1>1. latest_branches # <<>> /\ last.start + 1 = cur_slot
  BY DEF Editable
<1>2. /\ last.start \in Nat /\ slots \in Seq(Slot) /\ cur_slot \in Nat
      /\ Len(slots) = cur_slot
  BY <1>1, LastFacts, BufferFacts DEF cur_slot
<1>3. slots # <<>> /\ cur_slot - 1 = last.start
  BY <1>1, <1>2
<1>4. /\ Front(slots) \in Seq(Slot) /\ Len(Front(slots)) = cur_slot - 1
      /\ \A i \in 1 .. cur_slot - 1 : Front(slots)[i] = slots[i]
  BY Zenon, <1>2, <1>3, FrontFacts
<1>5. last_branch \in Slot
  BY <1>1, <1>2 DEF last_branch
<1> QED BY <1>1, <1>2, <1>3, <1>4, <1>5

Inverted ==
    [Front(slots) EXCEPT ![last.start].sense = ~@, ![last.start].target = last_branch.target]

(* Inverting a conditional branch leaves a conditional branch. *)
LEMMA InvertedType ==
    ASSUME TypeOK, IsInvertible
    PROVE  Inverted \in Seq(Slot) /\ Len(Inverted) = last.start
<1> DEFINE m == Len(latest_branches)
           f == Front(slots)
           i == last.start
           t == last_branch.target
<1>1. /\ Editable /\ last_branch.k = "jump" /\ m > 1
      /\ latest_branches[m - 1].start + 1 = i
      /\ slots[latest_branches[m - 1].start + 1].k = "cond"
  BY DEF IsInvertible, TailPair, TailJump, prev_branch
<1>2. /\ i + 1 = cur_slot /\ f \in Seq(Slot) /\ Len(f) = i
      /\ \A j \in 1 .. i : f[j] = slots[j]
      /\ last_branch \in Slot /\ latest_branches # <<>>
  BY <1>1, EditableFacts
<1>3. i \in Nat /\ latest_branches[m - 1].start \in Nat
  <2>1. m \in Nat /\ m - 1 \in 1 .. m /\ latest_branches \in Seq(Record)
    BY <1>1, BufferFacts
  <2>2. latest_branches[m - 1] \in Record
    BY <2>1
  <2> QED BY <1>2, <2>2, LastFacts DEF Record
<1>4. i \in 1 .. i /\ slots[i].k = "cond" /\ f[i] = slots[i] /\ f[i] \in Slot
  <2>1. slots[i].k = "cond"
    BY Zenon, <1>1
  <2> HIDE DEF f, i, m
  <2>2. i \in 1 .. i
    BY <1>1, <1>3
  <2>3. f[i] = slots[i]
    BY Zenon, <1>2, <2>2
  <2>4. f[i] \in Slot
    BY <1>2, <2>2
  <2> QED BY Zenon, <2>1, <2>2, <2>3, <2>4
<1>5. t \in Blocks
  BY <1>1, <1>2, SlotFacts DEF IsBlockBranch
<1> DEFINE x == [f[i] EXCEPT !.sense = ~@, !.target = t]
<1>6. x \in Slot
  BY <1>4, <1>5, SlotFacts
<1>7. Inverted = [f EXCEPT ![i] = x]
  <2>1. f = [j \in 1 .. i |-> f[j]]
    BY <1>2
  <2> HIDE DEF f, i, t
  <2>2. i \in DOMAIN f
    BY <1>4, <2>1
  <2> QED BY Zenon, <2>2 DEF Inverted, f, i, t
<1> HIDE DEF x, f, i
<1> QED BY <1>2, <1>4, <1>6, <1>7 DEF i

(* A round of veneers leaves slots, and label offsets. *)
LEMMA InsertVeneersType ==
    ASSUME TypeInv, InsertVeneers
    PROVE  TypeInv'
<1> DEFINE rewritten(i) ==
             LET s == slots[i] IN
             IF i - 1 \notin OutOfRange THEN <<s>>
             ELSE <<IF s.k = "cond" THEN SkipVeneer(s) ELSE EnterVeneer(s), VeneerOf(s)>>
           ss == [i \in DOMAIN slots |-> rewritten(i)]
<1>1. slots \in Seq(Slot) /\ cur_slot \in Nat /\ label_offsets \in [Blocks -> Int]
  BY BufferFacts DEF TypeInv
<1>2. Len(slots) = cur_slot /\ DOMAIN slots = 1 .. cur_slot
  BY <1>1 DEF cur_slot
<1>3. ASSUME NEW i \in 1 .. cur_slot PROVE rewritten(i) \in Seq(Slot)
  <2>1. slots[i] \in Slot
    BY <1>1, <1>2
  <2>2. CASE i - 1 \notin OutOfRange
    BY <2>1, <2>2
  <2>3. CASE i - 1 \in OutOfRange
    <3>1. IsBlockBranch(slots[(i - 1) + 1]) /\ (i - 1) + 1 = i
      BY <2>3 DEF OutOfRange, BlockBranches
    <3>2. /\ VeneerOf(slots[i]) \in Slot
          /\ (IF slots[i].k = "cond" THEN SkipVeneer(slots[i]) ELSE EnterVeneer(slots[i])) \in Slot
      BY <2>1, <3>1, SlotFacts
    <3> QED BY <2>3, <3>2
  <2> QED BY <2>2, <2>3
<1>4. ss \in Seq(Seq(Slot))
  <2>1. ss \in [1 .. cur_slot -> Seq(Slot)]
    BY <1>2, <1>3
  <2> HIDE DEF ss
  <2> QED BY <1>1, <2>1
<1>5. /\ slots' = FlattenSeq(ss)
      /\ round < MaxRounds /\ round' = round + 1 /\ pc = "resolve"
      /\ label_offsets' =
           [l \in Blocks |->
              label_offsets[l] + Cardinality({i \in OutOfRange : i < label_offsets[l]})]
      /\ UNCHANGED <<label_aliases, latest_branches, labels_at_tail,
                     labels_at_tail_off, enable_branch_opt, pc, block, raw, raw_offsets>>
  BY Zenon DEF InsertVeneers
<1>6. slots' \in Seq(Slot)
  <2> HIDE DEF ss
  <2> QED BY <1>4, <1>5, FlattenType
<1>7. label_offsets' \in [Blocks -> Int]
  <2> SUFFICES ASSUME NEW l \in Blocks
               PROVE  label_offsets[l] + Cardinality({i \in OutOfRange : i < label_offsets[l]}) \in Int
    BY <1>5
  <2> DEFINE before == {i \in OutOfRange : i < label_offsets[l]}
  <2>1. before \in SUBSET (0 .. cur_slot - 1)
    BY DEF OutOfRange, BlockBranches
  <2>2. IsFiniteSet(0 .. cur_slot - 1)
    BY <1>1, FS_Interval
  <2> HIDE DEF before
  <2>3. Cardinality(before) \in Nat
    BY Zenon, <2>1, <2>2, FS_Subset, FS_CardinalityType
  <2> QED BY <1>1, <2>3 DEF before
<1>8. round' \in 0 .. MaxRounds
  BY <1>5, BufferAssumption DEF TypeInv, TypeOK
<1> QED BY <1>5, <1>6, <1>7, <1>8 DEF TypeInv, TypeOK

(* The rules of `optimize_branches` leave a buffer. *)
LEMMA OptimizeType ==
    ASSUME TypeInv, OptimizeBranches
    PROVE  TypeInv'
<1>1. TypeOK /\ pc \in {"opt", "optend"} /\ (pc = "opt" => block \in Blocks)
  BY DEF TypeInv, OptimizeBranches
<1>2. CASE RemoveFallthrough \/ RemoveDeadJump
  <2>1. Editable /\ TruncateLastBranch(Front(slots))
    BY <1>2 DEF RemoveFallthrough, RemoveDeadJump, IsFallthrough, IsDeadJump, TailPair, TailJump
  <2> QED BY <1>1, <2>1, EditableFacts, TruncateType
<1>3. CASE InvertBranch
  <2>1. IsInvertible /\ Editable /\ TruncateLastBranch(Inverted)
    BY <1>3 DEF InvertBranch, Inverted, IsInvertible, TailPair, TailJump
  <2> QED BY <1>1, <2>1, EditableFacts, InvertedType, TruncateType
<1>4. CASE ThreadLabels
  <2> DEFINE n == Len(latest_branches)
             L == last.labels
  <2>1. /\ Editable /\ last_branch.k = "jump"
        /\ label_aliases' = [l \in Blocks |-> IF l \in L THEN last_branch.target
                                              ELSE label_aliases[l]]
        /\ latest_branches' = [latest_branches EXCEPT ![n].labels = {}]
        /\ UNCHANGED <<slots, label_offsets, labels_at_tail, labels_at_tail_off,
                       enable_branch_opt, pc, block, round, raw, raw_offsets>>
    BY <1>4 DEF ThreadLabels, IsThreadable, TailJump
  <2>2. /\ last_branch \in Slot /\ latest_branches # <<>>
        /\ label_aliases \in [Blocks -> Blocks \cup {NoAlias}]
        /\ latest_branches \in Seq(Record)
    BY <1>1, <2>1, EditableFacts, BufferFacts
  <2>3. last_branch.target \in Blocks
    BY <2>1, <2>2, SlotFacts DEF IsBlockBranch
  <2>4. label_aliases' \in [Blocks -> Blocks \cup {NoAlias}]
    BY <2>1, <2>2, <2>3
  <2>5. latest_branches' \in Seq(Record)
    <3>1. n \in 1 .. n /\ latest_branches[n] \in Record
      BY <2>2
    <3>2. [latest_branches[n] EXCEPT !.labels = {}] \in Record
      BY <3>1 DEF Record
    <3> QED BY <2>1, <2>2, <3>1, <3>2
  <2> QED BY <1>1, <2>1, <2>4, <2>5, SMTT(20) DEF TypeInv, TypeOK, Record
<1>5. CASE OptimizeDone
  <2>1. /\ pc' = (IF pc = "opt" THEN "body" ELSE "resolve")
        /\ UNCHANGED <<slots, label_offsets, label_aliases, enable_branch_opt,
                       block, round, raw, raw_offsets>>
        /\ latest_branches' = <<>> \/ UNCHANGED latest_branches
        /\ \/ UNCHANGED <<labels_at_tail, labels_at_tail_off>>
           \/ labels_at_tail' = TailLabels /\ labels_at_tail_off' = cur_slot
    BY <1>5 DEF OptimizeDone
  <2>2. labels_at_tail' \subseteq Blocks /\ labels_at_tail_off' \in Nat
    BY <1>1, <2>1, BufferFacts DEF TypeOK
  <2>3. latest_branches' \in Seq(Record)
    <3>1. latest_branches \in Seq(Record) /\ <<>> \in Seq(Record)
      BY <1>1, BufferFacts
    <3> QED BY Zenon, <2>1, <3>1
  <2> QED BY Zenon, <1>1, <2>1, <2>2, <2>3 DEF TypeInv, TypeOK, Record
<1> QED BY <1>2, <1>3, <1>4, <1>5 DEF OptimizeBranches

(* Every step of the emitter leaves a buffer. *)
LEMMA NextType ==
    ASSUME TypeInv, [Next]_vars
    PROVE  TypeInv'
<1>1. TypeOK /\ (pc = "body" => block \in Blocks)
  BY DEF TypeInv
<1>2. CASE BindLabel
  <2>1. /\ pc = "bind" /\ block + 1 \in Blocks /\ block' = block + 1
        /\ label_offsets' = [label_offsets EXCEPT ![block + 1] = cur_slot]
        /\ labels_at_tail' = TailLabels \cup {block + 1}
        /\ labels_at_tail_off' = cur_slot
        /\ raw_offsets' = [raw_offsets EXCEPT ![block + 1] = Len(raw)]
        /\ pc' = "opt"
        /\ UNCHANGED <<slots, label_aliases, latest_branches, enable_branch_opt, round, raw>>
    BY <1>2 DEF BindLabel
  <2>2. label_offsets' \in [Blocks -> Int] /\ labels_at_tail_off' \in Nat
        /\ labels_at_tail' \subseteq Blocks
    BY <1>1, <2>1, BufferFacts
  <2>3. raw_offsets' \in [Blocks -> Int]
    <3>1. Len(raw) \in Int /\ raw_offsets \in [Blocks -> Int]
      BY <1>1 DEF TypeOK
    <3> QED BY <2>1, <3>1
  <2> QED BY <1>1, <2>1, <2>2, <2>3 DEF TypeInv, TypeOK
<1>3. CASE EmitBody
  <2>1. /\ PutText(Text(block)) /\ UNCHANGED <<enable_branch_opt, pc, block, round>>
        /\ block \in Blocks
    BY <1>1, <1>3 DEF EmitBody
  <2> QED BY <2>1, SlotFacts, PutTextType
<1>4. CASE EmitRet
  <2>1. /\ PutText(Ret(block)) /\ UNCHANGED <<enable_branch_opt, block, round>>
        /\ block \in Blocks /\ pc' = "bind"
    BY <1>1, <1>4 DEF EmitRet
  <2> QED BY <2>1, SlotFacts, PutTextType
<1>5. ASSUME NEW t \in Blocks \ {0}, EmitJump(t) PROVE TypeInv'
  <2> DEFINE new == <<Jump(block, t)>>
  <2>1. PutBranches(new) /\ pc' = "bind" /\ block \in Blocks
        /\ UNCHANGED <<enable_branch_opt, block, round>>
    BY <1>1, <1>5 DEF EmitJump
  <2>2. new \in Seq(Slot) /\ Len(new) # 0
    <3>1. Jump(block, t) \in Slot
      BY <2>1, SlotFacts
    <3> QED BY <3>1
  <2> HIDE DEF new
  <2> QED BY <1>1, <2>1, <2>2, PutBranchesType
<1>6. ASSUME NEW t \in Blocks \ {0}, NEW f \in Blocks \ {0}, EmitCondBr(t, f) PROVE TypeInv'
  <2> DEFINE new == <<Cond(block, t), Jump(block, f)>>
  <2>1. PutBranches(new) /\ pc' = "bind" /\ block \in Blocks
        /\ UNCHANGED <<enable_branch_opt, block, round>>
    BY <1>1, <1>6 DEF EmitCondBr
  <2>2. new \in Seq(Slot) /\ Len(new) # 0
    <3>1. Cond(block, t) \in Slot /\ Jump(block, f) \in Slot
      BY <2>1, SlotFacts
    <3> QED BY <3>1
  <2> HIDE DEF new
  <2> QED BY <1>1, <2>1, <2>2, PutBranchesType
<1>7. CASE EmitEnd \/ ResolveDone
  <2>1. /\ pc' \in {"optend", "done"}
        /\ UNCHANGED <<buffer, enable_branch_opt, block, round, raw, raw_offsets>>
    BY <1>7 DEF EmitEnd, ResolveDone
  <2> QED BY <1>1, <2>1 DEF TypeInv, TypeOK, buffer
<1>8. CASE OptimizeBranches
  BY <1>8, OptimizeType
<1>9. CASE InsertVeneers
  BY <1>9, InsertVeneersType
<1>10. CASE UNCHANGED vars
  BY <1>10 DEF TypeInv, TypeOK, vars, buffer
<1> QED BY <1>2, <1>3, <1>4, <1>5, <1>6, <1>7, <1>8, <1>9, <1>10 DEF Next, Finished

(* The empty buffer that a function starts with. *)
LEMMA InitType ==
    ASSUME Init
    PROVE  TypeInv
<1>1. slots = <<>> /\ raw = <<>> /\ latest_branches = <<>>
  BY DEF Init
<1>2. slots \in Seq(Slot) /\ raw \in Seq(Slot) /\ latest_branches \in Seq(Record)
  BY <1>1
<1>3. round \in 0 .. MaxRounds
  BY BufferAssumption DEF Init
<1>4. label_aliases \in [Blocks -> Blocks \cup {NoAlias}]
      /\ label_offsets \in [Blocks -> Int] /\ raw_offsets \in [Blocks -> Int]
  BY DEF Init, Unbound
<1>5. labels_at_tail \subseteq Blocks /\ labels_at_tail_off \in Nat
      /\ enable_branch_opt \in BOOLEAN /\ pc = "bind" /\ block \in Blocks \cup {-1}
  BY DEF Init
<1> QED BY <1>2, <1>3, <1>4, <1>5 DEF TypeInv, TypeOK, Record

(* The buffer, the emitter and the history keep their types, for every     *)
(* number of blocks and every threshold and reach.                         *)
THEOREM TypeCorrect == Spec => []TypeOK
<1>1. Init => TypeInv
  BY InitType
<1>2. TypeInv /\ [Next]_vars => TypeInv'
  BY NextType
<1>3. TypeInv => TypeOK
  BY DEF TypeInv
<1> QED BY <1>1, <1>2, <1>3, PTL DEF Spec

-----------------------------------------------------------------------------
(* A label at the tail is bound there and not redirected. *)
LEMMA TailFacts ==
    ASSUME TypeOK, LabelsPlaced, NEW l \in TailLabels
    PROVE  /\ l \in Blocks /\ l <= block /\ l \in labels_at_tail
           /\ label_aliases[l] = NoAlias /\ label_offsets[l] = cur_slot
<1>1. ~(cur_slot > labels_at_tail_off) /\ l \in labels_at_tail
  BY DEF TailLabels
<1>2. cur_slot \in Nat /\ labels_at_tail_off \in Nat /\ labels_at_tail_off <= cur_slot
  BY BufferFacts DEF LabelsPlaced
<1>3. labels_at_tail_off = cur_slot
  BY <1>1, <1>2
<1> QED BY <1>1, <1>3 DEF LabelsPlaced, TypeOK

(* New branches are recorded with the labels at the tail. *)
LEMMA PutBranchesLabels ==
    ASSUME TypeOK, LabelInv, Emitting, NEW new \in Seq(Slot), Len(new) # 0,
           PutBranches(new), UNCHANGED block
    PROVE  LabelInv'
<1> DEFINE N == Len(new)
           m == Len(latest_branches)
           records == [i \in DOMAIN new |->
                         [start |-> cur_slot + i - 1,
                          labels |-> IF i = 1 THEN TailLabels ELSE {}]]
<1>1. /\ cur_slot \in Nat /\ m \in Nat /\ latest_branches \in Seq(Record)
      /\ slots \in Seq(Slot) /\ labels_at_tail_off \in Nat
  BY BufferFacts
<1>2. N \in Nat /\ DOMAIN new = 1 .. N /\ N # 0
  OBVIOUS
<1>3. UnboundNotAliased /\ ChainsEnd /\ RecordsOrdered /\ LabelsPlaced
  BY DEF LabelInv
<1>4. /\ latest_branches' = latest_branches \o records
      /\ slots' = slots \o new
      /\ labels_at_tail' = (IF N = 1 THEN TailLabels ELSE {})
      /\ labels_at_tail_off' = cur_slot + N - 1
      /\ UNCHANGED <<label_offsets, label_aliases>>
  BY DEF PutBranches
<1>5. cur_slot' = cur_slot + N
  <2>1. Len(slots \o new) = Len(slots) + Len(new)
    BY <1>1
  <2> QED BY <1>4, <2>1 DEF cur_slot
<1>6. /\ Len(records) = N /\ records \in Seq(Record)
      /\ \A i \in 1 .. N : /\ records[i].start = cur_slot + i - 1
                            /\ records[i].labels = IF i = 1 THEN TailLabels ELSE {}
  <2>1. TailLabels \in SUBSET Blocks
    BY BufferFacts
  <2>2. \A i \in 1 .. N : records[i] \in Record
    BY <1>1, <1>2, <2>1 DEF Record
  <2>3. records \in [1 .. N -> Record]
    BY <1>2, <2>2
  <2> QED BY <1>2, <2>3
<1> HIDE DEF records, N, m
<1>7. /\ DOMAIN latest_branches' = 1 .. m + N
      /\ \A i \in 1 .. m : latest_branches'[i] = latest_branches[i]
      /\ \A i \in m + 1 .. m + N : latest_branches'[i] = records[i - m]
  BY <1>1, <1>4, <1>6, SMTT(20) DEF m
<1>8. \A i \in DOMAIN latest_branches' : i \in 1 .. m \/ i \in m + 1 .. m + N
  BY <1>1, <1>2, <1>7
<1>9. \A i \in 1 .. m : i \in DOMAIN latest_branches /\ latest_branches[i].start \in Nat
  <2>1. \A i \in 1 .. m : i \in DOMAIN latest_branches /\ latest_branches[i] \in Record
    BY <1>1 DEF m
  <2> QED BY <2>1 DEF Record
<1>10. ASSUME NEW i \in m + 1 .. m + N
       PROVE  /\ latest_branches'[i].start = cur_slot + (i - m) - 1
              /\ latest_branches'[i].labels = IF i = m + 1 THEN TailLabels ELSE {}
  <2>1. i - m \in 1 .. N /\ (i - m = 1 <=> i = m + 1)
    BY <1>1, <1>2
  <2> QED BY <1>6, <1>7, <2>1
<1>11. RecordsOrdered'
  <2> SUFFICES ASSUME NEW i \in DOMAIN latest_branches'
               PROVE  /\ latest_branches'[i].start < cur_slot'
                      /\ \A j \in DOMAIN latest_branches' :
                           i < j => latest_branches'[i].start < latest_branches'[j].start
    BY DEF RecordsOrdered
  <2>1. CASE i \in 1 .. m
    <3>1. latest_branches'[i].start < cur_slot /\ latest_branches'[i].start \in Nat
      BY <1>3, <1>7, <1>9, <2>1 DEF RecordsOrdered
    <3>2. ASSUME NEW j \in 1 .. m, i < j PROVE latest_branches'[i].start < latest_branches'[j].start
      BY <1>3, <1>7, <1>9, <2>1, <3>2 DEF RecordsOrdered
    <3>3. ASSUME NEW j \in m + 1 .. m + N PROVE latest_branches'[i].start < latest_branches'[j].start
      BY <1>1, <1>2, <1>10, <3>1
    <3>4. latest_branches'[i].start < cur_slot'
      BY <1>1, <1>2, <1>5, <3>1
    <3> QED BY Zenon, <1>8, <3>2, <3>3, <3>4
  <2>2. CASE i \in m + 1 .. m + N
    <3>1. latest_branches'[i].start < cur_slot'
      BY <1>1, <1>2, <1>5, <1>10, <2>2
    <3>2. ASSUME NEW j \in m + 1 .. m + N, i < j PROVE latest_branches'[i].start < latest_branches'[j].start
      BY <1>1, <1>2, <1>10, <2>2, <3>2
    <3>3. ASSUME NEW j \in 1 .. m PROVE ~(i < j)
      BY <1>1, <1>2, <2>2
    <3> QED BY <1>8, <3>1, <3>2, <3>3
  <2> QED BY <1>8, <2>1, <2>2
<1>12. LabelsPlaced'
  <2>1. labels_at_tail_off' <= cur_slot' /\ labels_at_tail_off' # cur_slot'
    BY <1>1, <1>2, <1>4, <1>5
  <2>2. \A l \in labels_at_tail' : l <= block
    BY <1>3, <1>4, TailFacts
  <2>3. ASSUME NEW i \in DOMAIN latest_branches', NEW l \in latest_branches'[i].labels
        PROVE  /\ l <= block /\ label_aliases[l] = NoAlias
               /\ label_offsets[l] = latest_branches'[i].start
    <3>1. CASE i \in 1 .. m
      BY <1>3, <1>7, <1>9, <3>1 DEF LabelsPlaced
    <3>2. CASE i \in m + 1 .. m + N
      <4>1. i = m + 1 /\ l \in TailLabels
        BY <1>10, <3>2
      <4>2. latest_branches'[i].start = cur_slot
        <5>1. latest_branches'[i].start = cur_slot + (i - m) - 1
          BY Zenon, <1>10, <3>2
        <5> QED BY <1>1, <4>1, <5>1
      <4> QED BY <1>3, <4>1, <4>2, TailFacts
    <3> QED BY <1>8, <3>1, <3>2
  <2> QED BY <1>4, <2>1, <2>2, <2>3 DEF LabelsPlaced
<1>13. UnboundNotAliased' /\ ChainsEnd'
  BY <1>3, <1>4 DEF UnboundNotAliased, ChainsEnd
<1> QED BY <1>11, <1>12, <1>13 DEF LabelInv

(* Text makes the labels at the tail stale. *)
LEMMA PutTextLabels ==
    ASSUME TypeOK, LabelInv, Emitting, NEW s \in Slot, PutText(s), UNCHANGED block
    PROVE  LabelInv'
<1>1. cur_slot \in Nat /\ slots \in Seq(Slot) /\ labels_at_tail_off \in Nat
      /\ latest_branches \in Seq(Record)
  BY BufferFacts
<1>2. UnboundNotAliased /\ ChainsEnd /\ RecordsOrdered /\ LabelsPlaced
  BY DEF LabelInv
<1>3. /\ slots' = Append(slots, s)
      /\ UNCHANGED <<label_offsets, label_aliases, latest_branches,
                     labels_at_tail, labels_at_tail_off>>
  BY DEF PutText
<1>4. cur_slot' = cur_slot + 1
  BY <1>1, <1>3 DEF cur_slot
<1>5. \A i \in DOMAIN latest_branches : latest_branches[i].start \in Nat
  <2>1. \A i \in DOMAIN latest_branches : latest_branches[i] \in Record
    BY <1>1
  <2> QED BY <2>1 DEF Record
<1>6. RecordsOrdered'
  BY <1>1, <1>2, <1>3, <1>4, <1>5 DEF RecordsOrdered
<1>7. LabelsPlaced'
  <2>1. labels_at_tail_off <= cur_slot' /\ labels_at_tail_off # cur_slot'
    BY <1>1, <1>2, <1>4 DEF LabelsPlaced
  <2> QED BY <1>2, <1>3, <2>1 DEF LabelsPlaced
<1>8. UnboundNotAliased' /\ ChainsEnd'
  BY <1>2, <1>3 DEF UnboundNotAliased, ChainsEnd
<1> QED BY <1>6, <1>7, <1>8 DEF LabelInv

(* Removing the last branch moves the tail, and the labels there, back to  *)
(* where the branch was.                                                   *)
LEMMA TruncateLabels ==
    ASSUME TypeOK, LabelInv, Emitting, Editable, NEW kept \in Seq(Slot),
           Len(kept) = last.start, TruncateLastBranch(kept)
    PROVE  LabelInv'
<1> DEFINE m == Len(latest_branches)
<1>1. UnboundNotAliased /\ ChainsEnd /\ RecordsOrdered /\ LabelsPlaced
  BY DEF LabelInv
<1>2. /\ latest_branches # <<>> /\ last.start + 1 = cur_slot /\ cur_slot \in Nat
      /\ label_offsets \in [Blocks -> Int] /\ latest_branches \in Seq(Record)
  BY EditableFacts, BufferFacts
<1>3. /\ m \in 1 .. m /\ m \in Nat /\ last = latest_branches[m]
      /\ last.start \in Nat /\ last.labels \in SUBSET Blocks
      /\ Front(latest_branches) \in Seq(Record)
      /\ Len(Front(latest_branches)) = m - 1
      /\ \A i \in 1 .. m - 1 : Front(latest_branches)[i] = latest_branches[i]
  BY <1>2, LastFacts, BufferFacts
<1>4. /\ slots' = kept
      /\ latest_branches' = Front(latest_branches)
      /\ label_offsets' = [l \in Blocks |-> IF l \in TailLabels THEN last.start
                                            ELSE label_offsets[l]]
      /\ labels_at_tail' = TailLabels \cup last.labels
      /\ labels_at_tail_off' = last.start
      /\ UNCHANGED <<label_aliases, pc, block>>
  BY DEF TruncateLastBranch
<1>5. cur_slot' = last.start
  BY <1>4 DEF cur_slot
<1>6. /\ DOMAIN latest_branches = 1 .. m
      /\ \A i \in 1 .. m : latest_branches[i].start \in Nat /\ latest_branches[i].labels \subseteq Blocks
  <2>1. DOMAIN latest_branches = 1 .. m /\ \A i \in 1 .. m : latest_branches[i] \in Record
    BY <1>2
  <2> QED BY <2>1 DEF Record
<1>7. /\ DOMAIN latest_branches' = 1 .. m - 1
      /\ \A i \in 1 .. m - 1 : latest_branches'[i] = latest_branches[i] /\ i \in 1 .. m /\ i < m
  BY <1>3, <1>4
<1> HIDE DEF m
<1>8. RecordsOrdered'
  BY Zenon, <1>1, <1>3, <1>5, <1>6, <1>7 DEF RecordsOrdered
<1>9. LabelsPlaced'
  <2>1. ASSUME NEW l \in TailLabels \cup last.labels
        PROVE  /\ l <= block /\ label_aliases[l] = NoAlias
               /\ label_offsets'[l] = last.start
    <3>1. CASE l \in TailLabels
      BY <1>1, <1>4, <3>1, TailFacts
    <3>2. CASE l \notin TailLabels
      <4>1. l \in last.labels /\ l \in Blocks
        BY <1>3, <3>2
      <4>2. l <= block /\ label_aliases[l] = NoAlias /\ label_offsets[l] = last.start
        BY <1>1, <1>3, <1>6, <4>1 DEF LabelsPlaced
      <4> QED BY <1>4, <3>2, <4>1, <4>2
    <3> QED BY <3>1, <3>2
  <2>2. ASSUME NEW i \in 1 .. m - 1, NEW l \in latest_branches[i].labels
        PROVE  /\ l <= block /\ label_aliases[l] = NoAlias
               /\ label_offsets'[l] = latest_branches[i].start
    <3>1. /\ l <= block /\ label_aliases[l] = NoAlias /\ l \in Blocks
          /\ label_offsets[l] = latest_branches[i].start
      BY <1>1, <1>6, <1>7 DEF LabelsPlaced
    <3>2. latest_branches[i].start < cur_slot
      BY <1>1, <1>6, <1>7 DEF RecordsOrdered
    <3>3. l \notin TailLabels
      BY <1>1, <1>2, <1>6, <1>7, <3>1, <3>2, TailFacts
    <3> QED BY <1>4, <3>1, <3>3
  <2>3. labels_at_tail_off' <= cur_slot'
    BY <1>3, <1>4, <1>5
  <2>4. ASSUME NEW l \in labels_at_tail'
        PROVE  l <= block' /\ label_aliases'[l] = NoAlias /\ label_offsets'[l] = cur_slot'
    BY <1>4, <1>5, <2>1
  <2>5. ASSUME NEW i \in DOMAIN latest_branches', NEW l \in latest_branches'[i].labels
        PROVE  /\ l <= block' /\ label_aliases'[l] = NoAlias
               /\ label_offsets'[l] = latest_branches'[i].start
    <3>1. i \in 1 .. m - 1 /\ latest_branches'[i] = latest_branches[i]
      BY <1>7
    <3> QED BY Zenon, <1>4, <2>2, <3>1
  <2> QED BY <2>3, <2>4, <2>5 DEF LabelsPlaced
<1>10. UnboundNotAliased' /\ ChainsEnd'
  BY <1>1, <1>4 DEF UnboundNotAliased, ChainsEnd
<1> QED BY <1>8, <1>9, <1>10 DEF LabelInv

Redirected(L, t, aliases) == [l \in Blocks |-> IF l \in L THEN t ELSE aliases[l]]
NoneAliased(L, aliases) == \A l \in L : aliases[l] = NoAlias

(* Redirecting labels L that end their own chains to a label t whose chain *)
(* ends elsewhere leaves chains that end: those that ended in L now end    *)
(* where t does, after as many more hops as t has.                         *)
LEMMA RedirectEnds ==
    ASSUME NEW aliases \in [Blocks -> Blocks \cup {NoAlias}], NEW r, NEW e, Ends(r, e, aliases),
           NEW L \in SUBSET Blocks, NEW t \in Blocks,
           NoneAliased(L, aliases), e[t] \notin L
    PROVE  HasEnds(Redirected(L, t, aliases))
<1> DEFINE A == [l \in Blocks |-> IF l \in L THEN t ELSE aliases[l]]
           rr == [l \in Blocks |-> IF e[l] \in L THEN r[l] + r[t] + 1 ELSE r[l]]
           ee == [l \in Blocks |-> IF e[l] \in L THEN e[t] ELSE e[l]]
<1>0. \A l \in L : aliases[l] = NoAlias
  BY DEF NoneAliased
<1>1. \A l \in Blocks :
         /\ r[l] \in Nat /\ e[l] \in Blocks /\ aliases[e[l]] = NoAlias
         /\ aliases[l] = NoAlias => e[l] = l
         /\ aliases[l] # NoAlias =>
               aliases[l] \in Blocks /\ e[l] = e[aliases[l]] /\ r[aliases[l]] < r[l]
  BY DEF Ends
<1>2. NoAlias \notin Blocks
  BY BlockFacts
<1>3. ASSUME NEW l \in Blocks
      PROVE  /\ rr[l] \in Nat /\ ee[l] \in Blocks /\ A[ee[l]] = NoAlias
             /\ A[l] = NoAlias => ee[l] = l
             /\ A[l] # NoAlias => ee[l] = ee[A[l]] /\ rr[A[l]] < rr[l]
  <2>0. r[l] \in Nat /\ r[t] \in Nat /\ e[l] \in Blocks /\ e[t] \in Blocks
    BY <1>1
  <2>1. rr[l] \in Nat /\ ee[l] \in Blocks
    BY <2>0
  <2>2. A[ee[l]] = NoAlias
    <3>1. aliases[e[l]] = NoAlias /\ aliases[e[t]] = NoAlias
      BY <1>1
    <3> QED BY <2>0, <3>1
  <2>3. CASE l \in L
    <3>1. A[l] = t /\ e[l] = l /\ ee[l] = e[t] /\ ee[t] = e[t]
      BY <1>0, <1>1, <2>3
    <3>2. rr[t] = r[t] /\ rr[l] = r[l] + r[t] + 1 /\ r[t] \in Nat /\ r[l] \in Nat
      BY <2>0, <2>3, <3>1
    <3> QED BY <1>2, <2>1, <2>2, <3>1, <3>2
  <2>4. CASE l \notin L /\ aliases[l] = NoAlias
    BY <1>1, <2>1, <2>2, <2>4
  <2>5. CASE l \notin L /\ aliases[l] # NoAlias
    <3>1. A[l] = aliases[l] /\ aliases[l] \in Blocks /\ e[aliases[l]] = e[l]
          /\ r[aliases[l]] < r[l]
      BY <1>1, <2>5
    <3>2. ee[aliases[l]] = ee[l]
      BY <3>1
    <3>3. rr[aliases[l]] < rr[l]
      <4>1. r[aliases[l]] \in Nat /\ r[l] \in Nat /\ r[t] \in Nat
        BY <1>1, <3>1
      <4>2. CASE e[l] \in L
        <5>1. rr[l] = r[l] + r[t] + 1 /\ rr[aliases[l]] = r[aliases[l]] + r[t] + 1
          BY <3>1, <4>2
        <5> QED BY <3>1, <4>1, <5>1
      <4>3. CASE e[l] \notin L
        <5>1. rr[l] = r[l] /\ rr[aliases[l]] = r[aliases[l]]
          BY <3>1, <4>3
        <5> QED BY <3>1, <5>1
      <4> QED BY <4>2, <4>3
    <3> QED BY <2>1, <2>2, <2>5, <3>1, <3>2, <3>3
  <2> QED BY <2>3, <2>4, <2>5
<1> HIDE DEF rr, ee, A
<1>4. Ends(rr, ee, A)
  BY <1>3 DEF Ends
<1> QED BY <1>4 DEF A, Redirected, HasEnds

(* Jump threading: the guard compares offsets, and the labels it redirects *)
(* are bound at the jump itself.                                           *)
LEMMA ThreadLabelsKeeps ==
    ASSUME TypeOK, LabelInv, Emitting, ThreadLabels
    PROVE  LabelInv'
<1> DEFINE m == Len(latest_branches)
           L == last.labels
           t == last_branch.target
<1>1. UnboundNotAliased /\ ChainsEnd /\ RecordsOrdered /\ LabelsPlaced
  BY DEF LabelInv
<1>2. /\ Editable /\ last_branch.k = "jump" /\ OffsetOf(t) # last.start
      /\ label_aliases' = [l \in Blocks |-> IF l \in L THEN t ELSE label_aliases[l]]
      /\ latest_branches' = [latest_branches EXCEPT ![m].labels = {}]
      /\ UNCHANGED <<slots, label_offsets, labels_at_tail, labels_at_tail_off, pc, block>>
  BY DEF ThreadLabels, IsThreadable, TailJump
<1>3. /\ latest_branches # <<>> /\ last_branch \in Slot /\ cur_slot \in Nat
      /\ last.start + 1 = cur_slot
      /\ label_aliases \in [Blocks -> Blocks \cup {NoAlias}]
      /\ latest_branches \in Seq(Record)
  BY <1>2, EditableFacts, BufferFacts
<1>4. /\ m \in 1 .. m /\ m \in Nat /\ last = latest_branches[m]
      /\ last.start \in Nat /\ L \in SUBSET Blocks
  BY <1>3, LastFacts, BufferFacts
<1>5. t \in Blocks
  BY <1>2, <1>3, SlotFacts DEF IsBlockBranch
<1>6. /\ DOMAIN latest_branches = 1 .. m
      /\ \A i \in 1 .. m : latest_branches[i].start \in Nat /\ latest_branches[i] \in Record
  <2>1. DOMAIN latest_branches = 1 .. m /\ \A i \in 1 .. m : latest_branches[i] \in Record
    BY <1>3
  <2> QED BY <2>1 DEF Record
<1>7. \A l \in L : l <= block /\ label_aliases[l] = NoAlias /\ label_offsets[l] = last.start
  BY <1>1, <1>4, <1>6 DEF LabelsPlaced
<1>8. ChainsEnd'
  <2>1. PICK r, e : Ends(r, e, label_aliases)
    BY <1>1 DEF ChainsEnd, HasEnds
  <2>2. Chase(t) = e[t]
    BY <1>3, <1>5, <2>1, ChaseEnds
  <2>3. e[t] \notin L
    BY <1>2, <1>7, <2>2 DEF OffsetOf
  <2> HIDE DEF L, t
  <2>4. NoneAliased(L, label_aliases)
    BY <1>7 DEF NoneAliased
  <2>5. L \in SUBSET Blocks /\ label_aliases \in [Blocks -> Blocks \cup {NoAlias}]
    BY <1>3, <1>4
  <2>6. HasEnds(Redirected(L, t, label_aliases))
    BY <1>5, <2>1, <2>3, <2>4, <2>5, RedirectEnds
  <2> QED BY <1>2, <2>6 DEF ChainsEnd, Redirected, L, t
<1>9. /\ DOMAIN latest_branches' = 1 .. m
      /\ \A i \in 1 .. m : /\ latest_branches'[i].start = latest_branches[i].start
                            /\ latest_branches'[i].labels =
                                  IF i = m THEN {} ELSE latest_branches[i].labels
  <2>1. latest_branches' = [i \in 1 .. m |-> IF i = m THEN [latest_branches[m] EXCEPT !.labels = {}]
                                            ELSE latest_branches[i]]
    BY Zenon, <1>2, <1>3, <1>6
  <2>2. /\ [latest_branches[m] EXCEPT !.labels = {}].start = latest_branches[m].start
        /\ [latest_branches[m] EXCEPT !.labels = {}].labels = {}
    BY <1>4, <1>6 DEF Record
  <2> QED BY <2>1, <2>2
<1> HIDE DEF L, t, m
<1>10. cur_slot' = cur_slot
  BY <1>2 DEF cur_slot
<1>11. RecordsOrdered'
  BY <1>1, <1>6, <1>9, <1>10 DEF RecordsOrdered
<1>12. UnboundNotAliased'
  <2> SUFFICES ASSUME NEW l \in Blocks, l > block PROVE label_aliases'[l] = NoAlias
    BY <1>2 DEF UnboundNotAliased
  <2>1. block \in Int /\ l \in Int
    BY BlockFacts DEF TypeOK
  <2>2. l \notin L
    BY <1>7, <2>1
  <2> QED BY <1>1, <1>2, <2>2 DEF UnboundNotAliased
<1>13. LabelsPlaced'
  <2>1. ASSUME NEW l \in Blocks, label_aliases[l] = NoAlias, label_offsets[l] # last.start
        PROVE  label_aliases'[l] = NoAlias
    BY <1>2, <1>7, <2>1
  <2>2. ASSUME NEW l \in labels_at_tail'
        PROVE  /\ l <= block'
               /\ labels_at_tail_off' = cur_slot' =>
                     label_aliases'[l] = NoAlias /\ label_offsets'[l] = cur_slot'
    <3>0. l \in Blocks
      BY Zenon, <1>2 DEF TypeOK
    <3>1. l \in Blocks /\ cur_slot # last.start
      BY <1>3, <1>4, <3>0
    <3> QED BY <1>1, <1>2, <1>10, <2>1, <3>1 DEF LabelsPlaced
  <2>3. ASSUME NEW i \in DOMAIN latest_branches', NEW l \in latest_branches'[i].labels
        PROVE  /\ l <= block' /\ label_aliases'[l] = NoAlias
               /\ label_offsets'[l] = latest_branches'[i].start
    <3>1. i \in 1 .. m /\ i # m /\ l \in latest_branches[i].labels
      BY <1>9
    <3>2. l \in Blocks
      BY <1>6, <3>1 DEF Record
    <3>3. /\ l <= block /\ label_aliases[l] = NoAlias
          /\ label_offsets[l] = latest_branches[i].start
      BY <1>1, <1>6, <3>1 DEF LabelsPlaced
    <3>4. latest_branches[i].start < last.start
      <4>1. i < m
        BY <1>4, <3>1
      <4> QED BY <1>1, <1>4, <1>6, <3>1, <4>1 DEF RecordsOrdered
    <3>5. latest_branches[i].start # last.start
      BY <1>4, <1>6, <3>1, <3>4
    <3> QED BY <1>2, <1>9, <2>1, <3>1, <3>2, <3>3, <3>5
  <2>4. labels_at_tail_off' <= cur_slot'
    BY <1>1, <1>2, <1>10 DEF LabelsPlaced
  <2> QED BY <2>2, <2>3, <2>4 DEF LabelsPlaced
<1> QED BY <1>8, <1>11, <1>12, <1>13 DEF LabelInv

(* A label is bound at the tail, and none of the kept labels is this one. *)
LEMMA BindLabelKeeps ==
    ASSUME TypeOK, LabelInv, BindLabel
    PROVE  LabelInv'
<1> DEFINE b == block + 1
<1>1. /\ pc = "bind" /\ b \in Blocks /\ block' = b
      /\ label_offsets' = [label_offsets EXCEPT ![b] = cur_slot]
      /\ labels_at_tail' = TailLabels \cup {b}
      /\ labels_at_tail_off' = cur_slot
      /\ UNCHANGED <<slots, label_aliases, latest_branches>>
  BY DEF BindLabel
<1>2. UnboundNotAliased /\ ChainsEnd /\ RecordsOrdered /\ LabelsPlaced
  BY <1>1 DEF LabelInv, Emitting
<1>3. /\ block \in Int /\ cur_slot \in Nat /\ label_offsets \in [Blocks -> Int]
      /\ latest_branches \in Seq(Record)
  BY BufferFacts, BlockFacts DEF TypeOK
<1>4. cur_slot' = cur_slot
  BY <1>1 DEF cur_slot
<1>5. \A l \in Blocks : l <= block => l # b /\ l <= b /\ label_offsets'[l] = label_offsets[l]
  BY <1>1, <1>3, BlockFacts
<1>6. label_aliases[b] = NoAlias /\ label_offsets'[b] = cur_slot /\ b <= b
  BY <1>1, <1>2, <1>3 DEF UnboundNotAliased
<1> HIDE DEF b
<1>7. RecordsOrdered' /\ ChainsEnd'
  BY <1>1, <1>2, <1>4 DEF RecordsOrdered, ChainsEnd
<1>8. UnboundNotAliased'
  <2> SUFFICES ASSUME NEW l \in Blocks, l > b PROVE label_aliases[l] = NoAlias
    BY <1>1 DEF UnboundNotAliased
  <2>1. l > block
    BY <1>3, BlockFacts DEF b
  <2> QED BY <1>2, <2>1 DEF UnboundNotAliased
<1>9. LabelsPlaced'
  <2>1. ASSUME NEW l \in TailLabels \cup {b}
        PROVE  l <= b /\ label_aliases[l] = NoAlias /\ label_offsets'[l] = cur_slot
    <3>1. CASE l = b
      BY <1>6, <3>1
    <3>2. CASE l \in TailLabels
      BY <1>2, <1>5, <3>2, TailFacts
    <3> QED BY <3>1, <3>2
  <2>2. ASSUME NEW i \in DOMAIN latest_branches, NEW l \in latest_branches[i].labels
        PROVE  /\ l <= b /\ label_aliases[l] = NoAlias
               /\ label_offsets'[l] = latest_branches[i].start
    <3>1. /\ l <= block /\ label_aliases[l] = NoAlias
          /\ label_offsets[l] = latest_branches[i].start
      BY <1>2 DEF LabelsPlaced
    <3>2. latest_branches[i] \in Record
      BY <1>3
    <3>3. l \in Blocks
      BY <3>2 DEF Record
    <3> QED BY <1>5, <3>1, <3>3
  <2>3. labels_at_tail_off' <= cur_slot'
    BY <1>1, <1>3, <1>4
  <2> QED BY <1>1, <1>4, <2>1, <2>2, <2>3 DEF LabelsPlaced
<1> QED BY <1>7, <1>8, <1>9 DEF LabelInv

(* The loop is left: records the tail has moved past are dropped. *)
LEMMA OptimizeDoneKeeps ==
    ASSUME TypeOK, LabelInv, Emitting, OptimizeDone
    PROVE  LabelInv'
<1>1. /\ UnboundNotAliased /\ ChainsEnd /\ RecordsOrdered /\ LabelsPlaced
      /\ UNCHANGED <<slots, label_offsets, label_aliases, block>>
      /\ cur_slot \in Nat /\ TailLabels \subseteq Blocks
  BY BufferFacts DEF LabelInv, OptimizeDone
<1>2. cur_slot' = cur_slot
  BY <1>1 DEF cur_slot
<1>3. latest_branches' = latest_branches \/ latest_branches' = <<>>
  BY DEF OptimizeDone
<1>4. \/ UNCHANGED <<labels_at_tail, labels_at_tail_off>>
      \/ labels_at_tail' = TailLabels /\ labels_at_tail_off' = cur_slot
  BY DEF OptimizeDone
<1>5. UnboundNotAliased' /\ ChainsEnd'
  BY <1>1 DEF UnboundNotAliased, ChainsEnd
<1>6. RecordsOrdered'
  BY <1>1, <1>2, <1>3 DEF RecordsOrdered
<1>7. LabelsPlaced'
  <2>1. ASSUME NEW l \in labels_at_tail'
        PROVE  /\ l <= block'
               /\ labels_at_tail_off' = cur_slot' =>
                     label_aliases'[l] = NoAlias /\ label_offsets'[l] = cur_slot'
    BY <1>1, <1>2, <1>4, TailFacts DEF LabelsPlaced
  <2>2. ASSUME NEW i \in DOMAIN latest_branches', NEW l \in latest_branches'[i].labels
        PROVE  /\ l <= block' /\ label_aliases'[l] = NoAlias
               /\ label_offsets'[l] = latest_branches'[i].start
    BY <1>1, <1>3 DEF LabelsPlaced
  <2>3. labels_at_tail_off' <= cur_slot'
    BY <1>1, <1>2, <1>4 DEF LabelsPlaced
  <2> QED BY <2>1, <2>2, <2>3 DEF LabelsPlaced
<1> QED BY <1>5, <1>6, <1>7 DEF LabelInv

IInv == TypeInv /\ LabelInv

(* Before the first label is bound nothing is aliased and no record is kept. *)
LEMMA InitLabels == Init => LabelInv
<1> SUFFICES ASSUME Init PROVE LabelInv
  OBVIOUS
<1>1. /\ slots = <<>> /\ latest_branches = <<>> /\ labels_at_tail = {}
      /\ labels_at_tail_off = 0 /\ label_aliases = [b \in Blocks |-> NoAlias]
  BY DEF Init
<1>2. cur_slot = 0
  BY <1>1 DEF cur_slot
<1>3. Ends([l \in Blocks |-> 0], [l \in Blocks |-> l], label_aliases)
  BY <1>1 DEF Ends
<1>4. UnboundNotAliased /\ ChainsEnd
  BY <1>1, <1>3 DEF UnboundNotAliased, ChainsEnd, HasEnds
<1>5. RecordsOrdered /\ LabelsPlaced
  BY <1>1, <1>2 DEF RecordsOrdered, LabelsPlaced
<1> QED BY <1>4, <1>5 DEF LabelInv

(* Every step of the emitter preserves the facts about labels. *)
LEMMA NextLabels == TypeInv /\ LabelInv /\ [Next]_vars => LabelInv'
<1> SUFFICES ASSUME TypeInv, LabelInv, [Next]_vars PROVE LabelInv'
  OBVIOUS
<1>1. TypeOK
  BY DEF TypeInv
<1>2. CASE BindLabel
  BY <1>1, <1>2, BindLabelKeeps
<1>3. CASE EmitBody
  <2>1. PutText(Text(block)) /\ Emitting /\ UNCHANGED block /\ block \in Blocks
    BY <1>3 DEF EmitBody, Emitting, TypeInv
  <2> QED BY <1>1, <2>1, SlotFacts, PutTextLabels
<1>4. CASE EmitRet
  <2>1. PutText(Ret(block)) /\ Emitting /\ UNCHANGED block /\ block \in Blocks
    BY <1>4 DEF EmitRet, Emitting, TypeInv
  <2> QED BY <1>1, <2>1, SlotFacts, PutTextLabels
<1>5. ASSUME NEW t \in Blocks \ {0}, EmitJump(t) PROVE LabelInv'
  <2> DEFINE new == <<Jump(block, t)>>
  <2>1. PutBranches(new) /\ Emitting /\ UNCHANGED block /\ block \in Blocks
    BY <1>5 DEF EmitJump, Emitting, TypeInv
  <2>2. new \in Seq(Slot) /\ Len(new) # 0
    <3>1. Jump(block, t) \in Slot
      BY <2>1, SlotFacts
    <3> QED BY <3>1
  <2> HIDE DEF new
  <2> QED BY <1>1, <2>1, <2>2, PutBranchesLabels
<1>6. ASSUME NEW t \in Blocks \ {0}, NEW f \in Blocks \ {0}, EmitCondBr(t, f) PROVE LabelInv'
  <2> DEFINE new == <<Cond(block, t), Jump(block, f)>>
  <2>1. PutBranches(new) /\ Emitting /\ UNCHANGED block /\ block \in Blocks
    BY <1>6 DEF EmitCondBr, Emitting, TypeInv
  <2>2. new \in Seq(Slot) /\ Len(new) # 0
    <3>1. Cond(block, t) \in Slot /\ Jump(block, f) \in Slot
      BY <2>1, SlotFacts
    <3> QED BY <3>1
  <2> HIDE DEF new
  <2> QED BY <1>1, <2>1, <2>2, PutBranchesLabels
<1>7. CASE OptimizeBranches
  <2>1. Emitting
    BY <1>7 DEF OptimizeBranches, Emitting
  <2>2. CASE RemoveFallthrough \/ RemoveDeadJump
    <3>1. Editable /\ TruncateLastBranch(Front(slots))
      BY <2>2 DEF RemoveFallthrough, RemoveDeadJump, IsFallthrough, IsDeadJump, TailPair, TailJump
    <3> QED BY <1>1, <2>1, <3>1, EditableFacts, TruncateLabels
  <2>3. CASE InvertBranch
    <3>1. IsInvertible /\ Editable /\ TruncateLastBranch(Inverted)
      BY <2>3 DEF InvertBranch, Inverted, IsInvertible, TailPair, TailJump
    <3> QED BY <1>1, <2>1, <3>1, InvertedType, TruncateLabels
  <2>4. CASE ThreadLabels
    BY <1>1, <2>1, <2>4, ThreadLabelsKeeps
  <2>5. CASE OptimizeDone
    BY <1>1, <2>1, <2>5, OptimizeDoneKeeps
  <2> QED BY <1>7, <2>2, <2>3, <2>4, <2>5 DEF OptimizeBranches
<1>8. CASE InsertVeneers
  BY <1>8 DEF InsertVeneers, LabelInv, Emitting, UnboundNotAliased, ChainsEnd
<1>9. CASE EmitEnd
  <2>1. UNCHANGED <<slots, label_offsets, label_aliases, latest_branches, labels_at_tail,
                    labels_at_tail_off, block>> /\ Emitting
    BY <1>9 DEF EmitEnd, buffer, Emitting
  <2>2. UNCHANGED cur_slot
    BY <2>1 DEF cur_slot
  <2> QED BY <2>1, <2>2 DEF LabelInv, UnboundNotAliased, ChainsEnd, RecordsOrdered, LabelsPlaced
<1>10. CASE ResolveDone
  BY <1>10 DEF ResolveDone, buffer, LabelInv, Emitting, UnboundNotAliased, ChainsEnd
<1>11. CASE UNCHANGED vars
  <2>1. UNCHANGED <<slots, label_offsets, label_aliases, latest_branches, labels_at_tail,
                    labels_at_tail_off, block, pc>>
    BY <1>11 DEF vars, buffer
  <2>2. UNCHANGED cur_slot
    BY <2>1 DEF cur_slot
  <2> QED BY <2>1, <2>2 DEF LabelInv, Emitting, UnboundNotAliased, ChainsEnd, RecordsOrdered,
                            LabelsPlaced
<1> QED BY <1>2, <1>3, <1>4, <1>5, <1>6, <1>7, <1>8, <1>9, <1>10, <1>11 DEF Next, Finished

(* Chains that end are chains that the bounded chase follows to the end. *)
LEMMA ChasesEnd == TypeOK /\ ChainsEnd => NoAliasCycle
<1> SUFFICES ASSUME TypeOK, ChainsEnd, NEW l \in Blocks PROVE label_aliases[Chase(l)] = NoAlias
  BY DEF NoAliasCycle
<1>1. PICK r, e : Ends(r, e, label_aliases)
  BY DEF ChainsEnd, HasEnds
<1>2. label_aliases \in [Blocks -> Blocks \cup {NoAlias}]
  BY DEF TypeOK
<1>3. Chase(l) = e[l]
  BY <1>1, <1>2, ChaseEnds
<1>4. label_aliases[e[l]] = NoAlias
  BY <1>1 DEF Ends
<1> QED BY <1>3, <1>4

(* The labels and the records agree, whatever is emitted. *)
THEOREM LabelsAgree == Spec => []IInv
<1>1. Init => IInv
  BY InitType, InitLabels DEF IInv
<1>2. IInv /\ [Next]_vars => IInv'
  BY NextType, NextLabels DEF IInv
<1> QED BY <1>1, <1>2, PTL DEF Spec

(* `resolved` never panics on an alias cycle: jump threading redirects     *)
(* labels only to labels that end somewhere else, for any function, any    *)
(* number of blocks and any threshold on the label lists.                  *)
THEOREM AliasesAcyclic == Spec => []NoAliasCycle
<1>1. IInv => NoAliasCycle
  BY ChasesEnd DEF IInv, TypeInv, LabelInv
<1> QED BY <1>1, LabelsAgree, PTL
=============================================================================
