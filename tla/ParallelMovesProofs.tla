------------------------ MODULE ParallelMovesProofs -------------------------
(***************************************************************************)
(* `ParallelMoves::resolve` returns moves that, done one at a time, have   *)
(* the effect of the group done at once, and asks for a scratch location   *)
(* exactly when the moves form a cycle.                                    *)
(*                                                                         *)
(* 1. What a sequence of moves does when they are done one at a time       *)
(*    (`Perform`): it splits over concatenation, it does independent moves *)
(*    as if in parallel, and from any contents it copies what it copies    *)
(*    from the untouched ones.                                             *)
(* 2. The invariant of the walk (WalkInv) says what the placed moves do,   *)
(*    that no move still to be placed writes what a placed one reads, and  *)
(*    that the stack is a chain: every move reads what the next one writes.*)
(* 3. On top of it, ScratchExact says what the result looks like while no  *)
(*    scratch location is used: every move comes before the one that       *)
(*    overwrites its source.  NamesGroup says which locations the result   *)
(*    names.  Together they are what a caller of the resolver relies on    *)
(*    (ResolverInv).                                                       *)
(***************************************************************************)
EXTENDS ParallelMoves, RecursionFacts, FiniteSetTheorems

(* What a move may read or write: the scratch location is a cell too. *)
Cell == Loc \cup {NoLoc}
AnyMove == [src : Cell, dst : Cell]

(* One move writes its destination and nothing else. *)
LEMMA MovedType ==
    ASSUME NEW W, NEW v \in [Cell -> W], NEW m \in AnyMove
    PROVE  /\ Moved(v, m) \in [Cell -> W]
           /\ \A l \in Cell : Moved(v, m)[l] = IF l = m.dst THEN v[m.src] ELSE v[l]
BY DEF Moved, AnyMove

(* v is the sequence of the machine's contents as the moves of s run.      *)
Runs(v, s, val, W) ==
    /\ v \in [0 .. Len(s) -> [Cell -> W]]
    /\ v[0] = val
    /\ \A n \in 1 .. Len(s) : v[n] = Moved(v[n - 1], s[n])

(* `Perform` follows the moves one by one. *)
LEMMA PerformRecursion ==
    ASSUME NEW s \in Seq(AnyMove), NEW W, NEW val \in [Cell -> W]
    PROVE  \E v : Runs(v, s, val, W) /\ Perform(s, val) = v[Len(s)]
<1> DEFINE V == [Cell -> W]
           N == Len(s)
           Eqn(f) == [n \in 0 .. N |-> IF n = 0 THEN val ELSE Moved(f[n - 1], s[n])]
           step == [n \in 1 .. N |-> [v \in V |-> Moved(v, s[n])]]
           after == CHOOSE f : f = Eqn(f)
<1>1. N \in Nat /\ \A n \in 1 .. N : s[n] \in AnyMove
  OBVIOUS
<1>2. \A x \in V, n \in 1 .. N : Moved(x, s[n]) \in V
  BY Zenon, <1>1, MovedType
<1>3. PICK g : IsRecursion(g, step, N, V, val)
  <2>1. IsStep(step, N, V)
    BY <1>2 DEF IsStep
  <2>2. val \in V
    OBVIOUS
  <2> HIDE DEF step, V, N
  <2> QED BY <1>1, <2>1, <2>2, RecursionExists, Zenon
<1>4. \A n \in 1 .. N : g[n] = Moved(g[n - 1], s[n])
  <2> SUFFICES ASSUME NEW n \in 1 .. N PROVE g[n] = Moved(g[n - 1], s[n])
    OBVIOUS
  <2> HIDE DEF V, N
  <2>1. g[n - 1] \in V
    BY <1>3, <1>1 DEF IsRecursion
  <2> QED BY Zenon, <1>3, <2>1 DEF IsRecursion
<1>5. g = Eqn(g)
  <2> HIDE DEF V, N
  <2> QED BY <1>1, <1>3, <1>4 DEF IsRecursion
<1>6. after = Eqn(after)
  BY <1>5, Zenon
<1>7. Perform(s, val) = after[N]
  BY Zenon DEF Perform
<1>8. after \in [0 .. N -> V]
  <2> DEFINE S == {n \in 0 .. N : after[n] \in V}
  <2> HIDE DEF after
  <2>1. 0 \in S
    <3>1. after[0] = val BY <1>6, <1>1
    <3> QED BY <3>1, <1>1
  <2>2. ASSUME NEW n \in 0 .. N, n \in S, n < N PROVE n + 1 \in S
    <3> HIDE DEF N, V
    <3>1. n + 1 \in 1 .. N /\ (n + 1) - 1 = n BY <2>2, <1>1
    <3>2. after[n + 1] = Moved(after[n], s[n + 1]) BY <1>6, <1>1, <3>1
    <3> QED BY <3>1, <3>2, <1>2, <2>2, <1>1
  <2> HIDE DEF S, V, N
  <2>3. 0 .. N \subseteq S
    BY Zenon, <1>1, <2>1, <2>2, PrefixInduction
  <2> QED BY <2>3, <1>6 DEF S
<1> HIDE DEF after
<1>9. \A n \in 1 .. N : after[n] = Moved(after[n - 1], s[n])
  <2> SUFFICES ASSUME NEW n \in 1 .. N PROVE after[n] = Moved(after[n - 1], s[n])
    OBVIOUS
  <2>1. n \in 0 .. N /\ n # 0
    BY <1>1
  <2> QED BY Zenon, <1>6, <2>1
<1>10. after[0] = val
  BY <1>6, <1>1
<1> QED BY <1>7, <1>8, <1>9, <1>10 DEF Runs

(* Whatever follows the moves one at a time is what Perform computes. *)
LEMMA PerformIs ==
    ASSUME NEW s \in Seq(AnyMove), NEW W, NEW val \in [Cell -> W],
           NEW g, g[0] = val, \A n \in 1 .. Len(s) : g[n] = Moved(g[n - 1], s[n])
    PROVE  Perform(s, val) = g[Len(s)]
<1>1. PICK v : Runs(v, s, val, W) /\ Perform(s, val) = v[Len(s)]
  BY Zenon, PerformRecursion
<1> DEFINE N == Len(s)
           S == {n \in 0 .. N : g[n] = v[n]}
<1>2. N \in Nat
  OBVIOUS
<1> HIDE DEF N
<1>3. 0 \in S
  BY <1>1, <1>2 DEF Runs
<1>4. ASSUME NEW n \in 0 .. N, n \in S, n < N PROVE n + 1 \in S
  <2>1. n + 1 \in 1 .. N /\ (n + 1) - 1 = n
    BY <1>2, <1>4
  <2>2. v[n + 1] = Moved(v[n], s[n + 1])
    BY <1>1, <2>1 DEF Runs, N
  <2>3. g[n + 1] = Moved(g[n], s[n + 1])
    BY <2>1 DEF N
  <2> QED BY <1>2, <1>4, <2>1, <2>2, <2>3
<1> HIDE DEF S
<1>5. 0 .. N \subseteq S
  BY Zenon, <1>2, <1>3, <1>4, PrefixInduction
<1> QED BY <1>1, <1>2, <1>5 DEF S, N

(* The contents of the cells keep their type. *)
LEMMA PerformType ==
    ASSUME NEW s \in Seq(AnyMove), NEW W, NEW val \in [Cell -> W]
    PROVE  Perform(s, val) \in [Cell -> W]
<1>1. PICK v : Runs(v, s, val, W) /\ Perform(s, val) = v[Len(s)]
  BY Zenon, PerformRecursion
<1>2. Len(s) \in 0 .. Len(s)
  OBVIOUS
<1> QED BY <1>1, <1>2 DEF Runs

(* The moves of b run from where the moves of a end. *)
LEMMA PerformConcat ==
    ASSUME NEW a \in Seq(AnyMove), NEW b \in Seq(AnyMove),
           NEW W, NEW val \in [Cell -> W]
    PROVE  Perform(a \o b, val) = Perform(b, Perform(a, val))
<1>1. PICK v : Runs(v, a, val, W) /\ Perform(a, val) = v[Len(a)]
  BY Zenon, PerformRecursion
<1>2. PICK w : Runs(w, b, Perform(a, val), W)
               /\ Perform(b, Perform(a, val)) = w[Len(b)]
  BY Zenon, PerformRecursion, PerformType
<1> DEFINE A == Len(a)
           B == Len(b)
           g == [n \in 0 .. A + B |-> IF n <= A THEN v[n] ELSE w[n - A]]
<1>3. A \in Nat /\ B \in Nat /\ a \o b \in Seq(AnyMove) /\ Len(a \o b) = A + B
  OBVIOUS
<1>4. g[0] = val
  BY <1>1, <1>3 DEF Runs
<1>5. ASSUME NEW n \in 1 .. A + B PROVE g[n] = Moved(g[n - 1], (a \o b)[n])
  <2>1. CASE n <= A
    <3>1. n \in 1 .. A /\ g[n] = v[n] /\ g[n - 1] = v[n - 1] /\ (a \o b)[n] = a[n]
      BY <1>3, <2>1
    <3> QED BY <1>1, <3>1 DEF Runs
  <2>2. CASE n > A
    <3>1. n - A \in 1 .. B /\ g[n] = w[n - A] /\ (a \o b)[n] = b[n - A]
      BY <1>3, <2>2
    <3>2. g[n - 1] = w[(n - A) - 1]
      <4>1. CASE n = A + 1
        <5>1. g[n - 1] = v[A] /\ (n - A) - 1 = 0
          BY <1>3, <4>1
        <5> QED BY <5>1, <1>1, <1>2 DEF Runs
      <4>2. CASE n # A + 1
        <5>1. n - 1 \in 0 .. A + B /\ ~(n - 1 <= A) /\ (n - 1) - A = (n - A) - 1
          BY <1>3, <2>2, <4>2
        <5> QED BY <5>1
      <4> QED BY <4>1, <4>2
    <3> QED BY Zenon, <1>2, <3>1, <3>2 DEF Runs
  <2> QED BY <1>3, <2>1, <2>2
<1>6. g[A + B] = w[B]
  <2>1. CASE B = 0
    BY <1>1, <1>2, <1>3, <2>1 DEF Runs
  <2>2. CASE B # 0
    BY <1>3, <2>2
  <2> QED BY <2>1, <2>2
<1> HIDE DEF g, A, B
<1>7. Perform(a \o b, val) = g[Len(a \o b)]
  BY Zenon, <1>3, <1>4, <1>5, PerformIs
<1> QED BY <1>2, <1>3, <1>6, <1>7 DEF B

(* A sequence of one move is that move. *)
LEMMA PerformOne ==
    ASSUME NEW m \in AnyMove, NEW W, NEW val \in [Cell -> W]
    PROVE  Perform(<<m>>, val) = Moved(val, m)
<1> DEFINE g == [n \in 0 .. 1 |-> IF n = 0 THEN val ELSE Moved(val, m)]
<1>1. g[0] = val /\ g[1] = Moved(val, m)
  OBVIOUS
<1>2. <<m>> \in Seq(AnyMove) /\ Len(<<m>>) = 1 /\ <<m>>[1] = m
  OBVIOUS
<1> HIDE DEF g
<1>3. \A n \in 1 .. Len(<<m>>) : g[n] = Moved(g[n - 1], <<m>>[n])
  BY <1>1, <1>2
<1> QED BY Zenon, <1>1, <1>2, <1>3, PerformIs

(* No moves, no change. *)
LEMMA PerformEmpty ==
    ASSUME NEW W, NEW val \in [Cell -> W]
    PROVE  Perform(<<>>, val) = val
<1> DEFINE s == <<>>
<1>1. s \in Seq(AnyMove) /\ Len(s) = 0
  OBVIOUS
<1> HIDE DEF s
<1>2. PICK v : Runs(v, s, val, W) /\ Perform(s, val) = v[Len(s)]
  BY Zenon, <1>1, PerformRecursion
<1>3. Perform(s, val) = val
  BY <1>1, <1>2 DEF Runs
<1> QED BY <1>3 DEF s

(* No move of s writes what a later one reads or writes. *)
Independent(s) ==
    \A i, j \in 1 .. Len(s) :
        i < j => s[i].dst # s[j].src /\ s[i].dst # s[j].dst

(* s, done in order from val, does what it means in parallel. *)
AsInParallel(s, val) ==
    /\ \A k \in 1 .. Len(s) : Perform(s, val)[s[k].dst] = val[s[k].src]
    /\ \A l \in Cell :
           (\A k \in 1 .. Len(s) : s[k].dst # l) => Perform(s, val)[l] = val[l]

(* Independent moves done in order are done as if in parallel. *)
LEMMA PerformChain ==
    ASSUME NEW s \in Seq(AnyMove), NEW W, NEW val \in [Cell -> W], Independent(s)
    PROVE  AsInParallel(s, val)
<1>1. PICK v : Runs(v, s, val, W) /\ Perform(s, val) = v[Len(s)]
  BY Zenon, PerformRecursion
<1> DEFINE N == Len(s)
           Good(n) == /\ \A k \in 1 .. n : v[n][s[k].dst] = val[s[k].src]
                      /\ \A l \in Cell : (\A k \in 1 .. n : s[k].dst # l)
                                           => v[n][l] = val[l]
           S == {n \in 0 .. N : Good(n)}
<1>2. N \in Nat /\ \A k \in 1 .. N : s[k] \in AnyMove
  OBVIOUS
<1>3. /\ v \in [0 .. N -> [Cell -> W]]
      /\ v[0] = val
      /\ \A n \in 1 .. N : v[n] = Moved(v[n - 1], s[n])
  BY <1>1 DEF Runs
<1>4. \A i, j \in 1 .. N : i < j => s[i].dst # s[j].src /\ s[i].dst # s[j].dst
  BY DEF Independent
<1>5. \A k \in 1 .. N : s[k].dst \in Cell /\ s[k].src \in Cell
  BY <1>2 DEF AnyMove
<1> HIDE DEF N
<1>6. 0 \in S
  BY <1>2, <1>3
<1>7. ASSUME NEW n \in 0 .. N, n \in S, n < N PROVE n + 1 \in S
  <2>1. n + 1 \in 1 .. N /\ (n + 1) - 1 = n /\ n + 1 \in 0 .. N /\ n \in Nat
    BY <1>2, <1>7
  <2>2. v[n + 1] = Moved(v[n], s[n + 1]) /\ v[n] \in [Cell -> W]
    BY <1>3, <2>1
  <2>3. \A l \in Cell : v[n + 1][l] = IF l = s[n + 1].dst THEN v[n][s[n + 1].src]
                                      ELSE v[n][l]
    <3>2. \A l \in Cell : Moved(v[n], s[n + 1])[l] =
              IF l = s[n + 1].dst THEN v[n][s[n + 1].src] ELSE v[n][l]
      BY <1>5, <2>1, <2>2 DEF Moved
    <3> QED BY <2>2, <3>2, Zenon
  <2>4. v[n][s[n + 1].src] = val[s[n + 1].src]
    <3>1. \A k \in 1 .. n : k \in 1 .. N /\ k < n + 1
      BY <1>2, <2>1
    <3>2. \A k \in 1 .. n : s[k].dst # s[n + 1].src
      BY <1>4, <2>1, <3>1
    <3> QED BY <1>5, <1>7, <2>1, <3>2
  <2>5. ASSUME NEW k \in 1 .. n + 1 PROVE v[n + 1][s[k].dst] = val[s[k].src]
    <3>1. CASE k = n + 1
      BY <1>5, <2>1, <2>3, <2>4, <3>1
    <3>2. CASE k # n + 1
      <4>1. k \in 1 .. n /\ k \in 1 .. N /\ k < n + 1
        BY <1>2, <2>1, <3>2
      <4>2. s[k].dst # s[n + 1].dst
        BY <1>4, <2>1, <4>1
      <4>3. v[n + 1][s[k].dst] = v[n][s[k].dst]
        BY <1>5, <2>3, <4>1, <4>2
      <4> QED BY <1>7, <4>1, <4>3
    <3> QED BY <3>1, <3>2
  <2>6. ASSUME NEW l \in Cell, \A k \in 1 .. n + 1 : s[k].dst # l
        PROVE  v[n + 1][l] = val[l]
    <3>1. n + 1 \in 1 .. n + 1 /\ \A k \in 1 .. n : k \in 1 .. n + 1
      BY <2>1
    <3> QED BY <1>7, <2>3, <2>6, <3>1
  <2> QED BY <2>1, <2>5, <2>6
<1> HIDE DEF S
<1>8. 0 .. N \subseteq S
  BY Zenon, <1>2, <1>6, <1>7, PrefixInduction
<1>9. Good(N)
  BY <1>2, <1>8 DEF S
<1> QED BY <1>1, <1>9 DEF N, AsInParallel

(* Moves only copy: from any contents, a location ends with what the       *)
(* location had that Perform names when it starts from Untouched.          *)
Composes(s, val) ==
    \A l \in Cell : Perform(s, val)[l] = val[Perform(s, Untouched)[l]]

(* `Perform` from any contents follows from `Perform` from Untouched. *)
LEMMA PerformComposes ==
    ASSUME NEW s \in Seq(AnyMove), NEW W, NEW val \in [Cell -> W]
    PROVE  Composes(s, val)
<1>1. Untouched \in [Cell -> Cell]
  BY DEF Untouched, Cell
<1>2. PICK v : Runs(v, s, Untouched, Cell) /\ Perform(s, Untouched) = v[Len(s)]
  BY Zenon, <1>1, PerformRecursion
<1> DEFINE N == Len(s)
           g == [n \in 0 .. N |-> [l \in Cell |-> val[v[n][l]]]]
<1>3. N \in Nat /\ \A n \in 1 .. N : s[n] \in AnyMove
  OBVIOUS
<1>4. /\ v \in [0 .. N -> [Cell -> Cell]]
      /\ v[0] = Untouched
      /\ \A n \in 1 .. N : v[n] = Moved(v[n - 1], s[n])
  BY <1>2 DEF Runs
<1> HIDE DEF N
<1>5. g[0] = val
  <2>1. \A l \in Cell : v[0][l] = l
    BY <1>4 DEF Untouched, Cell
  <2>2. g[0] = [l \in Cell |-> val[v[0][l]]]
    BY <1>3
  <2> QED BY <2>1, <2>2
<1>6. ASSUME NEW n \in 1 .. N PROVE g[n] = Moved(g[n - 1], s[n])
  <2>1. n - 1 \in 0 .. N /\ n \in 0 .. N /\ s[n].src \in Cell /\ s[n].dst \in Cell
    BY <1>3 DEF AnyMove
  <2>2. v[n - 1] \in [Cell -> Cell] /\ v[n] = [v[n - 1] EXCEPT ![s[n].dst] = v[n - 1][s[n].src]]
    BY Zenon, <1>4, <2>1 DEF Moved
  <2>3. /\ g[n] = [l \in Cell |-> val[v[n][l]]]
        /\ g[n - 1] = [l \in Cell |-> val[v[n - 1][l]]]
    BY <2>1
  <2> HIDE DEF g
  <2>4. Moved(g[n - 1], s[n]) =
          [l \in Cell |-> IF l = s[n].dst THEN g[n - 1][s[n].src] ELSE g[n - 1][l]]
    BY <2>3 DEF Moved
  <2>5. \A l \in Cell : v[n][l] = IF l = s[n].dst THEN v[n - 1][s[n].src] ELSE v[n - 1][l]
    BY <2>1, <2>2
  <2>6. \A l \in Cell : val[v[n][l]] =
                         IF l = s[n].dst THEN g[n - 1][s[n].src] ELSE g[n - 1][l]
    BY <2>1, <2>3, <2>5
  <2> QED BY Zenon, <2>3, <2>4, <2>6
<1> HIDE DEF g
<1>7. Perform(s, val) = g[N]
  BY Zenon, <1>5, <1>6, PerformIs DEF N
<1>8. Perform(s, Untouched) \in [Cell -> Cell]
  BY <1>2, <1>3, <1>4 DEF N
<1>9. g[N] = [l \in Cell |-> val[Perform(s, Untouched)[l]]]
  BY <1>2, <1>3 DEF g, N
<1> QED BY <1>7, <1>8, <1>9 DEF Composes

-----------------------------------------------------------------------------
(* The moves that are in the result. *)
Done == {i \in DOMAIN parallel_moves : state[i] = "Done"}

(* The moves are those of the group, without moves that go nowhere, and no *)
(* two of them write the same location.                                    *)
MovesMatch ==
    /\ group \in Groups
    /\ \A i, j \in DOMAIN parallel_moves :
           parallel_moves[i].dst = parallel_moves[j].dst => i = j
    /\ \A i \in DOMAIN parallel_moves :
           /\ parallel_moves[i].dst \in DOMAIN group
           /\ parallel_moves[i].src = group[parallel_moves[i].dst]
    /\ \A d \in DOMAIN group :
           group[d] = d \/ \E i \in DOMAIN parallel_moves : parallel_moves[i].dst = d
    /\ \A i \in DOMAIN parallel_moves :
           state[i] # "Done" => parallel_moves[i].src # parallel_moves[i].dst

(* Every move on the stack reads what the next one writes. *)
StackIsChain ==
    \A k \in 1 .. Len(stack) - 1 :
        parallel_moves[stack[k]].src = parallel_moves[stack[k + 1]].dst

(* What a placed move reads is written by a placed move or by none. *)
DoneClosed ==
    \A i \in Done, j \in DOMAIN parallel_moves :
        parallel_moves[j].dst = parallel_moves[i].src => j \in Done

(* The moves placed so far do in order what they mean in parallel. *)
PlacedInParallel ==
    /\ \A i \in Done :
           Perform(ret, Untouched)[parallel_moves[i].dst] = parallel_moves[i].src
    /\ \A l \in Loc :
           (\A i \in Done : parallel_moves[i].dst # l) => Perform(ret, Untouched)[l] = l

(* What every step of the walk relies on. *)
WalkInv == TypeOK /\ MovesMatch /\ StackIsChain /\ DoneClosed /\ PlacedInParallel

-----------------------------------------------------------------------------
(* Sorting by rank lists every destination once. *)
LEMMA SortedFacts ==
    ASSUME NEW dsts \in SUBSET Loc
    PROVE  /\ Cardinality(dsts) \in Nat
           /\ DOMAIN Sorted(dsts) = 1 .. Cardinality(dsts)
           /\ Sorted(dsts) \in [1 .. Cardinality(dsts) -> dsts]
           /\ \A i, j \in 1 .. Cardinality(dsts) :
                  Sorted(dsts)[i] = Sorted(dsts)[j] => i = j
           /\ \A d \in dsts : \E i \in 1 .. Cardinality(dsts) : Sorted(dsts)[i] = d
<1> DEFINE n == Cardinality(dsts)
           below(d) == {e \in dsts : e <= d}
           rank == [d \in dsts |-> Rank(d, dsts)]
<1>1. dsts \subseteq Nat /\ IsFiniteSet(dsts) /\ n \in Nat
  BY Zenon, LocAssumption, FS_Subset, FS_CardinalityType
<1>2. \A d \in dsts : /\ IsFiniteSet(below(d))
                       /\ Cardinality(below(d)) \in Nat
                       /\ Cardinality(below(d)) <= n
  <2> SUFFICES ASSUME NEW d \in dsts
               PROVE  /\ IsFiniteSet(below(d))
                      /\ Cardinality(below(d)) \in Nat
                      /\ Cardinality(below(d)) <= n
    OBVIOUS
  <2>1. below(d) \in SUBSET dsts
    OBVIOUS
  <2> HIDE DEF below
  <2> QED BY <1>1, <2>1, FS_Subset, FS_CardinalityType
<1>3. \A d \in dsts : rank[d] \in 1 .. n
  <2> SUFFICES ASSUME NEW d \in dsts PROVE Cardinality(below(d)) # 0
    BY <1>1, <1>2 DEF Rank
  <2>1. d \in below(d)
    BY <1>1
  <2> QED BY <1>2, <2>1, FS_EmptySet
<1>4. ASSUME NEW d \in dsts, NEW e \in dsts, d < e PROVE rank[d] # rank[e]
  <2>1. below(d) \in SUBSET below(e) /\ e \in below(e) /\ e \notin below(d)
    <3>1. d \in Nat /\ e \in Nat /\ \A x \in dsts : x \in Nat
      BY <1>1
    <3>2. \A x \in below(d) : x \in below(e)
      BY <1>4, <3>1
    <3>3. e \in below(e) /\ e \notin below(d)
      BY <1>4, <3>1
    <3> HIDE DEF below
    <3> QED BY <3>2, <3>3
  <2>2. Cardinality(below(d)) # Cardinality(below(e))
    <3> HIDE DEF below
    <3> QED BY <1>2, <2>1, FS_Subset
  <2> QED BY <2>2 DEF Rank
<1>5. rank \in Injection(dsts, 1 .. n)
  <2>1. rank \in [dsts -> 1 .. n]
    BY <1>3
  <2>2. \A d, e \in dsts : rank[d] = rank[e] => d = e
    <3> HIDE DEF rank
    <3> QED BY <1>1, <1>4
  <2> HIDE DEF rank
  <2> QED BY <2>1, <2>2 DEF Injection, IsInjective
<1>6. rank \in Surjection(dsts, 1 .. n)
  <2>1. IsFiniteSet(1 .. n) /\ Cardinality(1 .. n) = n
    BY <1>1, FS_Interval
  <2> HIDE DEF rank
  <2> QED BY <1>5, <2>1, FS_Injection
<1>7. \A i \in 1 .. n : Sorted(dsts)[i] \in dsts /\ Rank(Sorted(dsts)[i], dsts) = i
  <2> SUFFICES ASSUME NEW i \in 1 .. n
               PROVE  Sorted(dsts)[i] \in dsts /\ Rank(Sorted(dsts)[i], dsts) = i
    OBVIOUS
  <2>1. \E d \in dsts : Rank(d, dsts) = i
    BY Zenon, <1>6 DEF Surjection
  <2>2. Sorted(dsts)[i] = CHOOSE d \in dsts : Rank(d, dsts) = i
    BY DEF Sorted
  <2> QED BY <2>1, <2>2
<1>8. \A d \in dsts : Sorted(dsts)[rank[d]] = d
  <2> SUFFICES ASSUME NEW d \in dsts PROVE Sorted(dsts)[rank[d]] = d
    OBVIOUS
  <2>1. rank[d] \in 1 .. n /\ rank[d] = Rank(d, dsts)
    BY <1>3
  <2>2. Sorted(dsts)[rank[d]] \in dsts /\ rank[Sorted(dsts)[rank[d]]] = rank[d]
    BY <1>7, <2>1
  <2> HIDE DEF rank
  <2> QED BY <1>5, <2>2 DEF Injection, IsInjective
<1>9. DOMAIN Sorted(dsts) = 1 .. n /\ Sorted(dsts) \in [1 .. n -> dsts]
  BY <1>7 DEF Sorted
<1> QED BY <1>1, <1>3, <1>7, <1>8, <1>9

(* What `resolve` starts from. *)
LEMMA MovesOfFacts ==
    ASSUME NEW g \in Groups
    PROVE  /\ MovesOf(g) \in Seq(Move)
           /\ \A i, j \in DOMAIN MovesOf(g) :
                  MovesOf(g)[i].dst = MovesOf(g)[j].dst => i = j
           /\ \A i \in DOMAIN MovesOf(g) :
                  /\ MovesOf(g)[i].dst \in DOMAIN g
                  /\ MovesOf(g)[i].src = g[MovesOf(g)[i].dst]
           /\ \A d \in DOMAIN g :
                  g[d] = d \/ \E i \in DOMAIN MovesOf(g) : MovesOf(g)[i].dst = d
           /\ Overlapping(g) =>
                  \A i \in DOMAIN MovesOf(g) : MovesOf(g)[i].src # MovesOf(g)[i].dst
           /\ ~Overlapping(g) =>
                  \A i, j \in DOMAIN MovesOf(g) :
                      MovesOf(g)[i].src = MovesOf(g)[j].dst =>
                          i = j /\ MovesOf(g)[i].src = MovesOf(g)[i].dst
<1> DEFINE E == Effective(g)
           order == Sorted(E)
           n == Cardinality(E)
           ms == MovesOf(g)
<1>1. DOMAIN g \in SUBSET Loc /\ g \in [DOMAIN g -> Loc]
  BY DEF Groups
<1>2. E \in SUBSET DOMAIN g /\ E \in SUBSET Loc
  BY <1>1 DEF Effective
<1>3. /\ n \in Nat
      /\ DOMAIN order = 1 .. n
      /\ order \in [1 .. n -> E]
      /\ \A i, j \in 1 .. n : order[i] = order[j] => i = j
      /\ \A d \in E : \E i \in 1 .. n : order[i] = d
  BY <1>2, SortedFacts
<1>4. ms = [i \in 1 .. n |-> [src |-> g[order[i]], dst |-> order[i]]]
  BY <1>3 DEF MovesOf
<1> HIDE DEF E, order, n, ms
<1>5. \A i \in 1 .. n : /\ ms[i].dst = order[i] /\ ms[i].src = g[order[i]]
                         /\ order[i] \in E /\ order[i] \in DOMAIN g /\ order[i] \in Loc
                         /\ ms[i] \in Move
  BY <1>1, <1>2, <1>3, <1>4 DEF Move
<1>6. ms \in Seq(Move) /\ DOMAIN ms = 1 .. n
  BY <1>3, <1>4, <1>5
<1>7. \A d \in DOMAIN g : g[d] = d \/ \E i \in 1 .. n : ms[i].dst = d
  <2>1. \A d \in DOMAIN g : g[d] = d \/ d \in E
    BY DEF E, Effective
  <2> QED BY <1>3, <1>5, <2>1
<1>10. /\ \A i, j \in 1 .. n : ms[i].dst = ms[j].dst => i = j
       /\ \A i \in 1 .. n : ms[i].dst \in DOMAIN g /\ ms[i].src = g[ms[i].dst]
  BY <1>3, <1>5
<1>8. CASE Cardinality(DOMAIN g) > 1
  <2>1. \A d \in E : g[d] # d
    BY <1>8, <1>1, LocAssumption, FS_Subset, FS_CardinalityType DEF E, Effective
  <2>2. ~Overlapping(g) => \A i, j \in 1 .. n : ms[i].src # ms[j].dst
    BY <1>5, <1>8 DEF Overlapping, E
  <2>3. \A i \in 1 .. n : ms[i].src # ms[i].dst
    BY <1>5, <2>1
  <2> QED BY <1>6, <1>7, <1>10, <2>2, <2>3, Zenon DEF ms
<1>9. CASE ~(Cardinality(DOMAIN g) > 1)
  <2>1. ~Overlapping(g)
    BY <1>9 DEF Overlapping
  <2>2. n <= 1
    <3>1. IsFiniteSet(DOMAIN g) /\ Cardinality(DOMAIN g) \in Nat
      BY <1>1, LocAssumption, FS_Subset, FS_CardinalityType
    <3>2. n <= Cardinality(DOMAIN g)
      BY <1>2, <3>1, FS_Subset DEF n
    <3> QED BY <1>3, <1>9, <3>1, <3>2
  <2>3. \A i, j \in 1 .. n : i = j
    BY <1>3, <2>2
  <2>4. \A i, j \in 1 .. n : ms[i].src = ms[j].dst => i = j /\ ms[i].src = ms[i].dst
    BY <2>3, Zenon
  <2> QED BY <1>6, <1>7, <1>10, <2>1, <2>4, Zenon DEF ms
<1> QED BY <1>8, <1>9

-----------------------------------------------------------------------------
(* A move of the group is a move between cells. *)
LEMMA MoveFacts == \A m \in Move : m \in AnyMove /\ m.src \in Loc /\ m.dst \in Loc
BY DEF Move, AnyMove, Cell

(* The positions of a part of a sequence. *)
LEMMA SubSeqFacts ==
    ASSUME NEW S, NEW s \in Seq(S), NEW m \in 1 .. Len(s), NEW k \in m - 1 .. Len(s)
    PROVE  /\ SubSeq(s, m, k) \in Seq(S) /\ Len(SubSeq(s, m, k)) = k - m + 1
           /\ \A i \in 1 .. k - m + 1 : SubSeq(s, m, k)[i] = s[m + i - 1]
OBVIOUS

(* s has exactly the elements of S. *)
Lists(s, S) ==
    /\ \A k \in DOMAIN s : s[k] \in S
    /\ \A x \in S : \E k \in DOMAIN s : s[k] = x

(* Listing a set and having it as range are the same. *)
LEMMA RangeIs ==
    ASSUME NEW s, NEW S, Lists(s, S)
    PROVE  Range(s) = S
BY Zenon DEF Range, Lists

(* What TypeOK says of the stack and of the moves, position by position. *)
LEMMA StackFacts ==
    ASSUME TypeOK
    PROVE  /\ Len(stack) \in Nat /\ DOMAIN stack = 1 .. Len(stack)
           /\ \A k \in 1 .. Len(stack) : /\ stack[k] \in DOMAIN parallel_moves
                                          /\ state[stack[k]] = "Pending"
           /\ \A k, m \in 1 .. Len(stack) : stack[k] = stack[m] => k = m
           /\ \A i \in DOMAIN parallel_moves :
                  state[i] = "Pending" => \E k \in 1 .. Len(stack) : stack[k] = i
           /\ \A i \in DOMAIN parallel_moves :
                  /\ parallel_moves[i] \in Move /\ parallel_moves[i] \in AnyMove
                  /\ parallel_moves[i].src \in Loc /\ parallel_moves[i].dst \in Loc
                  /\ i \in Nat /\ i # 0
           /\ NoLoc \notin Loc
<1>1. Len(stack) \in Nat /\ DOMAIN stack = 1 .. Len(stack)
  BY DEF TypeOK
<1>2. Range(stack) = {stack[k] : k \in 1 .. Len(stack)}
  BY <1>1 DEF Range
<1>3. DOMAIN state = DOMAIN parallel_moves
  BY DEF TypeOK
<1>4. \A k \in 1 .. Len(stack) : stack[k] \in {i \in DOMAIN state : state[i] = "Pending"}
  BY <1>2 DEF TypeOK
<1>5. \A k, m \in 1 .. Len(stack) : stack[k] = stack[m] => k = m
  BY Zenon, <1>1 DEF TypeOK, IsInjective
<1>6. \A i \in DOMAIN parallel_moves :
         state[i] = "Pending" => \E k \in 1 .. Len(stack) : stack[k] = i
  <2>1. \A i \in DOMAIN parallel_moves : state[i] = "Pending" => i \in Range(stack)
    BY <1>3 DEF TypeOK
  <2> QED BY <1>2, <2>1
<1>7. \A i \in DOMAIN parallel_moves :
         /\ parallel_moves[i] \in Move /\ i \in Nat /\ i # 0
  BY DEF TypeOK
<1>8. \A i \in DOMAIN parallel_moves :
         /\ parallel_moves[i] \in AnyMove
         /\ parallel_moves[i].src \in Loc /\ parallel_moves[i].dst \in Loc
  BY <1>7 DEF Move, AnyMove, Cell
<1>9. NoLoc \notin Loc
  BY LocAssumption DEF NoLoc
<1> QED BY <1>1, <1>3, <1>4, <1>5, <1>6, <1>7, <1>8, <1>9

(* `must_come_before` finds the writer of the top move's source. *)
LEMMA NextFacts ==
    ASSUME TypeOK, MovesMatch, stack # <<>>
    PROVE  /\ Len(stack) \in 1 .. Len(stack) /\ top = stack[Len(stack)]
           /\ top \in DOMAIN parallel_moves
           /\ next # NONE => /\ next \in DOMAIN parallel_moves
                             /\ parallel_moves[next].dst = parallel_moves[top].src
           /\ \A j \in DOMAIN parallel_moves :
                  parallel_moves[j].dst = parallel_moves[top].src => j = next
<1>1. Len(stack) \in 1 .. Len(stack) /\ top = stack[Len(stack)]
  BY DEF TypeOK, top
<1>2. top \in DOMAIN parallel_moves
  BY <1>1, StackFacts
<1> DEFINE writers == {j \in DOMAIN parallel_moves :
                          parallel_moves[j].dst = parallel_moves[top].src}
<1>3. next = IF writers = {} THEN NONE ELSE CHOOSE j \in writers : TRUE
  BY DEF next, must_come_before
<1>4. CASE writers = {}
  BY <1>1, <1>2, <1>3, <1>4
<1>5. CASE writers # {}
  <2>1. next \in writers
    BY <1>3, <1>5
  <2>2. \A j \in DOMAIN parallel_moves :
            parallel_moves[j].dst = parallel_moves[top].src => j = next
    BY <2>1 DEF MovesMatch
  <2> QED BY <1>1, <1>2, <2>1, <2>2
<1> QED BY <1>4, <1>5

(* No move of c writes what a later one of c reads or writes. *)
Chained(c) ==
    \A i, j \in 1 .. Len(c) : i < j =>
        /\ parallel_moves[c[i]].dst # parallel_moves[c[j]].src
        /\ parallel_moves[c[i]].dst # parallel_moves[c[j]].dst

(* The moves of c, done in order from val, do what they mean in parallel. *)
PlacesAll(c, val) ==
    /\ \A k \in 1 .. Len(c) :
           Perform(MovesAt(c), val)[parallel_moves[c[k]].dst]
               = val[parallel_moves[c[k]].src]
    /\ \A l \in Cell :
           (\A k \in 1 .. Len(c) : parallel_moves[c[k]].dst # l)
               => Perform(MovesAt(c), val)[l] = val[l]

(* Such moves are done in order as if in parallel. *)
LEMMA ChainPlaces ==
    ASSUME TypeOK, NEW c \in Seq(DOMAIN parallel_moves),
           NEW W, NEW val \in [Cell -> W], Chained(c)
    PROVE  MovesAt(c) \in Seq(AnyMove) /\ PlacesAll(c, val)
<1> DEFINE a == MovesAt(c)
<1>1. Len(c) \in Nat /\ \A k \in 1 .. Len(c) : c[k] \in DOMAIN parallel_moves
  OBVIOUS
<1>2. \A k \in 1 .. Len(c) : parallel_moves[c[k]] \in AnyMove
  BY <1>1, StackFacts
<1>3. a = [k \in 1 .. Len(c) |-> parallel_moves[c[k]]]
  BY DEF MovesAt
<1> HIDE DEF a
<1>4. a \in Seq(AnyMove) /\ Len(a) = Len(c) /\ \A k \in 1 .. Len(c) : a[k] = parallel_moves[c[k]]
  BY <1>1, <1>2, <1>3
<1>5. Independent(a)
  BY <1>4 DEF Independent, Chained
<1>6. AsInParallel(a, val)
  BY <1>4, <1>5, PerformChain, Zenon
<1> QED BY <1>4, <1>6 DEF a, AsInParallel, PlacesAll

(* Placing the moves of D in front of what is placed already.  A placed    *)
(* move reads nothing that D writes.                                       *)
LEMMA PlacedExtends ==
    ASSUME TypeOK, MovesMatch, DoneClosed, PlacedInParallel,
           NEW a \in Seq(AnyMove), NEW D \in SUBSET DOMAIN parallel_moves,
           D \cap Done = {},
           \A i \in D : Perform(a, Untouched)[parallel_moves[i].dst]
                           = parallel_moves[i].src,
           \A l \in Loc : (\A i \in D : parallel_moves[i].dst # l)
                             => Perform(a, Untouched)[l] = l
    PROVE  /\ \A i \in Done \cup D :
                  Perform(a \o ret, Untouched)[parallel_moves[i].dst]
                      = parallel_moves[i].src
           /\ \A l \in Loc : (\A i \in Done \cup D : parallel_moves[i].dst # l)
                               => Perform(a \o ret, Untouched)[l] = l
<1> DEFINE u == Perform(a, Untouched)
           r == Perform(ret, Untouched)
<1>1. Untouched \in [Cell -> Cell] /\ ret \in Seq(AnyMove)
  BY DEF Untouched, Cell, TypeOK, AnyMove
<1>2. u \in [Cell -> Cell]
  BY Zenon, <1>1, PerformType
<1>3. Perform(a \o ret, Untouched) = Perform(ret, u)
  BY <1>1, PerformConcat, ZenonT(60)
<1>4. \A l \in Loc : Perform(a \o ret, Untouched)[l] = u[r[l]]
  <2>1. Composes(ret, u)
    BY <1>1, <1>2, PerformComposes, Zenon
  <2> QED BY <1>3, <2>1 DEF Composes, Cell
<1>5. \A i \in Done : r[parallel_moves[i].dst] = parallel_moves[i].src
  BY DEF PlacedInParallel
<1>6. \A l \in Loc : (\A i \in Done : parallel_moves[i].dst # l) => r[l] = l
  BY DEF PlacedInParallel
<1>7. \A i \in DOMAIN parallel_moves : parallel_moves[i].src \in Loc /\ parallel_moves[i].dst \in Loc
  BY StackFacts
<1>8. Done \subseteq DOMAIN parallel_moves
  BY DEF Done
<1>9. \A i \in D : u[parallel_moves[i].dst] = parallel_moves[i].src
  OBVIOUS
<1>10. \A l \in Loc : (\A i \in D : parallel_moves[i].dst # l) => u[l] = l
  OBVIOUS
<1> HIDE DEF u, r
<1>11. ASSUME NEW i \in Done
       PROVE  Perform(a \o ret, Untouched)[parallel_moves[i].dst] = parallel_moves[i].src
  <2>1. \A j \in D : parallel_moves[j].dst # parallel_moves[i].src
    BY DEF DoneClosed
  <2> QED BY <1>4, <1>5, <1>7, <1>8, <1>10, <2>1
<1>12. ASSUME NEW i \in D
       PROVE  Perform(a \o ret, Untouched)[parallel_moves[i].dst] = parallel_moves[i].src
  <2>1. \A j \in Done : parallel_moves[j].dst # parallel_moves[i].dst
    BY <1>8 DEF MovesMatch
  <2> QED BY <1>4, <1>6, <1>7, <1>9, <2>1
<1>13. ASSUME NEW l \in Loc, \A i \in Done \cup D : parallel_moves[i].dst # l
       PROVE  Perform(a \o ret, Untouched)[l] = l
  BY <1>4, <1>6, <1>10, <1>13
<1> QED BY <1>11, <1>12, <1>13

-----------------------------------------------------------------------------
(* `resolve` up to its loop: moves that do not overlap are placed. *)
LEMMA StartWalk ==
    ASSUME NEW g \in Groups, Start(g)
    PROVE  WalkInv'
<1> DEFINE ms == MovesOf(g)
<1>1. /\ ms \in Seq(Move)
      /\ \A i, j \in DOMAIN ms : ms[i].dst = ms[j].dst => i = j
      /\ \A i \in DOMAIN ms : ms[i].dst \in DOMAIN g /\ ms[i].src = g[ms[i].dst]
      /\ \A d \in DOMAIN g : g[d] = d \/ \E i \in DOMAIN ms : ms[i].dst = d
      /\ Overlapping(g) => \A i \in DOMAIN ms : ms[i].src # ms[i].dst
      /\ ~Overlapping(g) =>
            \A i, j \in DOMAIN ms : ms[i].src = ms[j].dst =>
                i = j /\ ms[i].src = ms[i].dst
  BY MovesOfFacts
<1>2. /\ group' = g /\ parallel_moves' = ms
      /\ state' = [i \in DOMAIN ms |-> IF Overlapping(g) THEN "ToDo" ELSE "Done"]
      /\ stack' = <<>> /\ ret' = (IF Overlapping(g) THEN <<>> ELSE ms)
      /\ scratch_used' = FALSE
  BY DEF Start
<1> HIDE DEF ms
<1>3. DOMAIN ms = 1 .. Len(ms) /\ Len(ms) \in Nat
  BY <1>1
<1>4. ms \in Seq(AnyMove)
  <2>1. \A i \in 1 .. Len(ms) : ms[i] \in AnyMove
    BY <1>1, MoveFacts
  <2> QED BY <1>1, <1>3, <2>1
<1>5. TypeOK'
  <2>1. stack' \in Seq(DOMAIN parallel_moves')
    BY <1>2
  <2>2. IsInjective(stack')
    BY <1>2 DEF IsInjective
  <2>3. Range(stack') = {i \in DOMAIN state' : state'[i] = "Pending"}
    <3>1. Range(stack') = {}
      BY <1>2 DEF Range
    <3>2. \A i \in DOMAIN state' : state'[i] # "Pending"
      BY <1>2
    <3> QED BY <3>1, <3>2
  <2>4. state' \in [DOMAIN parallel_moves' -> {"ToDo", "Pending", "Done"}]
    BY <1>2
  <2>5. ret' \in Seq(AnyMove)
    BY <1>2, <1>4
  <2> QED BY Zenon, <1>1, <1>2, <2>1, <2>2, <2>3, <2>4, <2>5 DEF TypeOK, AnyMove, Cell
<1>6. MovesMatch'
  BY <1>1, <1>2 DEF MovesMatch
<1>7. StackIsChain'
  BY <1>2 DEF StackIsChain
<1>8. Done' = IF Overlapping(g) THEN {} ELSE DOMAIN ms
  BY <1>2 DEF Done
<1>9. DoneClosed'
  BY <1>2, <1>8 DEF DoneClosed
<1>10. PlacedInParallel'
  <2>1. Untouched \in [Cell -> Cell] /\ \A l \in Loc : Untouched[l] = l /\ l \in Cell
    BY DEF Untouched, Cell
  <2>2. CASE Overlapping(g)
    <3>1. Perform(ret', Untouched) = Untouched
      BY <1>2, <2>1, <2>2, PerformEmpty
    <3> QED BY <1>2, <1>8, <2>1, <2>2, <3>1 DEF PlacedInParallel
  <2>3. CASE ~Overlapping(g)
    <3>1. Independent(ms)
      BY <1>1, <1>3, <2>3 DEF Independent
    <3>2. AsInParallel(ms, Untouched)
      BY <1>4, <2>1, <3>1, PerformChain, Zenon
    <3>3. \A i \in DOMAIN ms : ms[i].src \in Loc
      BY <1>1, MoveFacts
    <3> QED BY <1>2, <1>3, <1>8, <2>1, <2>3, <3>2, <3>3 DEF PlacedInParallel, AsInParallel
  <2> QED BY <2>2, <2>3
<1> QED BY <1>5, <1>6, <1>7, <1>9, <1>10 DEF WalkInv

(* Pushing a move that was not reached yet. *)
LEMMA PushWalk ==
    ASSUME WalkInv, NEW i \in ToDo,
           stack' = Append(stack, i), state' = [state EXCEPT ![i] = "Pending"],
           stack # <<>> => parallel_moves[stack[Len(stack)]].src = parallel_moves[i].dst,
           UNCHANGED <<parallel_moves, ret, scratch_used, group>>
    PROVE  WalkInv'
<1>1. i \in DOMAIN parallel_moves /\ state[i] = "ToDo"
  BY DEF ToDo
<1>2. TypeOK /\ state \in [DOMAIN parallel_moves -> {"ToDo", "Pending", "Done"}]
  BY DEF WalkInv, TypeOK
<1>3. /\ Len(stack) \in Nat
      /\ \A k \in 1 .. Len(stack) : stack[k] \in DOMAIN parallel_moves
                                     /\ state[stack[k]] = "Pending"
      /\ \A k, m \in 1 .. Len(stack) : stack[k] = stack[m] => k = m
      /\ \A j \in DOMAIN parallel_moves :
             state[j] = "Pending" => \E k \in 1 .. Len(stack) : stack[k] = j
  BY <1>2, StackFacts
<1>4. /\ stack \in Seq(DOMAIN parallel_moves)
      /\ stack' \in Seq(DOMAIN parallel_moves) /\ Len(stack') = Len(stack) + 1
      /\ DOMAIN stack' = 1 .. Len(stack) + 1
      /\ \A k \in 1 .. Len(stack) : stack'[k] = stack[k]
      /\ stack'[Len(stack) + 1] = i
  BY <1>1, <1>2 DEF TypeOK
<1>5. state' \in [DOMAIN parallel_moves -> {"ToDo", "Pending", "Done"}]
  BY <1>1, <1>2
<1>6. \A j \in DOMAIN parallel_moves : state'[j] = IF j = i THEN "Pending" ELSE state[j]
  BY <1>2
<1>7. Done' = Done
  BY <1>1, <1>6 DEF Done
<1>8. IsInjective(stack')
  <2>1. \A k \in 1 .. Len(stack) : stack[k] # i
    BY <1>1, <1>3
  <2> QED BY <1>3, <1>4, <2>1 DEF IsInjective
<1>9. Range(stack') = {j \in DOMAIN state' : state'[j] = "Pending"}
  <2>1. \A k \in DOMAIN stack' : stack'[k] \in DOMAIN state' /\ state'[stack'[k]] = "Pending"
    BY <1>1, <1>3, <1>4, <1>5, <1>6
  <2>2. \A j \in DOMAIN state' : state'[j] = "Pending" => \E k \in DOMAIN stack' : stack'[k] = j
    <3> SUFFICES ASSUME NEW j \in DOMAIN state', state'[j] = "Pending"
                 PROVE  \E k \in DOMAIN stack' : stack'[k] = j
      OBVIOUS
    <3>1. j \in DOMAIN parallel_moves /\ (j # i => state[j] = "Pending")
      BY <1>5, <1>6
    <3>2. CASE j = i
      <4>1. Len(stack) + 1 \in DOMAIN stack' /\ stack'[Len(stack) + 1] = j
        BY <1>3, <1>4, <3>2
      <4> QED BY Zenon, <4>1
    <3>3. CASE j # i
      <4>1. PICK k \in 1 .. Len(stack) : stack[k] = j
        BY Zenon, <1>3, <3>1, <3>3
      <4>2. k \in DOMAIN stack' /\ stack'[k] = j
        BY <1>3, <1>4, <4>1
      <4> QED BY Zenon, <4>2
    <3> QED BY <3>2, <3>3
  <2> QED BY <2>1, <2>2 DEF Range
<1>10. TypeOK'
  BY <1>2, <1>4, <1>5, <1>8, <1>9 DEF TypeOK
<1>11. MovesMatch'
  BY <1>1, <1>6 DEF WalkInv, MovesMatch
<1>12. StackIsChain'
  <2> SUFFICES ASSUME NEW k \in 1 .. Len(stack') - 1
               PROVE  parallel_moves[stack'[k]].src = parallel_moves[stack'[k + 1]].dst
    BY Zenon DEF StackIsChain
  <2>1. CASE k = Len(stack)
    <3>1. stack # <<>> BY <1>3, <2>1
    <3> QED BY <1>3, <1>4, <2>1, <3>1
  <2>2. CASE k # Len(stack)
    <3>1. k \in 1 .. Len(stack) - 1 BY <1>3, <1>4, <2>2
    <3>2. k \in 1 .. Len(stack) /\ k + 1 \in 1 .. Len(stack) BY <1>3, <3>1
    <3> QED BY <1>4, <3>1, <3>2 DEF WalkInv, StackIsChain
  <2> QED BY <2>1, <2>2
<1>13. DoneClosed' /\ PlacedInParallel'
  BY <1>7 DEF WalkInv, DoneClosed, PlacedInParallel
<1> QED BY <1>10, <1>11, <1>12, <1>13 DEF WalkInv

(* Placing the moves of the stack from position first on, in front of what *)
(* is placed already, by moves a that do them in parallel.                 *)
LEMMA PlaceWalk ==
    ASSUME WalkInv, NEW first \in 1 .. Len(stack), NEW a \in Seq(AnyMove),
           \A k \in first .. Len(stack) :
               Perform(a, Untouched)[parallel_moves[stack[k]].dst]
                   = parallel_moves[stack[k]].src,
           \A l \in Loc :
               (\A k \in first .. Len(stack) : parallel_moves[stack[k]].dst # l)
                   => Perform(a, Untouched)[l] = l,
           \A j \in DOMAIN parallel_moves :
               parallel_moves[j].dst = parallel_moves[stack[Len(stack)]].src
                   => j \in Done \/ \E k \in first .. Len(stack) : stack[k] = j,
           ret' = a \o ret,
           stack' = SubSeq(stack, 1, first - 1),
           state' = AllDone({stack[k] : k \in first .. Len(stack)}),
           scratch_used' \in BOOLEAN,
           UNCHANGED <<parallel_moves, group>>
    PROVE  /\ WalkInv'
           /\ Done' = Done \cup {stack[k] : k \in first .. Len(stack)}
<1> DEFINE D == {stack[k] : k \in first .. Len(stack)}
<1>1. TypeOK /\ MovesMatch /\ StackIsChain /\ DoneClosed /\ PlacedInParallel
  BY DEF WalkInv
<1>2. /\ Len(stack) \in Nat
      /\ \A k \in 1 .. Len(stack) : stack[k] \in DOMAIN parallel_moves
                                     /\ state[stack[k]] = "Pending"
      /\ \A k, m \in 1 .. Len(stack) : stack[k] = stack[m] => k = m
      /\ \A j \in DOMAIN parallel_moves :
             state[j] = "Pending" => \E k \in 1 .. Len(stack) : stack[k] = j
  BY <1>1, StackFacts
<1>3. /\ stack \in Seq(DOMAIN parallel_moves)
      /\ state \in [DOMAIN parallel_moves -> {"ToDo", "Pending", "Done"}]
      /\ ret \in Seq(AnyMove)
  BY <1>1 DEF TypeOK, AnyMove, Cell
<1>4. \A k \in first .. Len(stack) : k \in 1 .. Len(stack)
  BY <1>2
<1>5. D \in SUBSET DOMAIN parallel_moves /\ \A i \in D : state[i] = "Pending"
  BY <1>2, <1>4
<1>6. \A i \in DOMAIN parallel_moves : state'[i] = IF i \in D THEN "Done" ELSE state[i]
  BY <1>3 DEF AllDone
<1>7. state' \in [DOMAIN parallel_moves -> {"ToDo", "Pending", "Done"}]
  BY <1>3 DEF AllDone
<1>8. /\ stack' \in Seq(DOMAIN parallel_moves) /\ Len(stack') = first - 1
      /\ DOMAIN stack' = 1 .. first - 1
      /\ \A k \in 1 .. first - 1 : stack'[k] = stack[k]
  BY <1>2, <1>3
<1>9. Done' = Done \cup D
  BY Zenon, <1>5, <1>6 DEF Done
<1>10. D \cap Done = {}
  BY Zenon, <1>5 DEF Done
<1>11. \A k \in 1 .. first - 1 : k \in 1 .. Len(stack) /\ stack[k] \notin D
  BY <1>2, <1>4
<1>12. TypeOK'
  <2> HIDE DEF D
  <2>1. IsInjective(stack')
    BY <1>2, <1>8, <1>11 DEF IsInjective
  <2>2. ASSUME NEW k \in DOMAIN stack'
        PROVE  stack'[k] \in DOMAIN state' /\ state'[stack'[k]] = "Pending"
    <3>1. stack'[k] = stack[k] /\ k \in 1 .. Len(stack) /\ stack[k] \notin D
      BY <1>8, <1>11
    <3>2. stack[k] \in DOMAIN parallel_moves /\ state[stack[k]] = "Pending"
      BY <1>2, <3>1
    <3> QED BY Zenon, <1>6, <1>7, <3>1, <3>2
  <2>3. ASSUME NEW j \in DOMAIN state', state'[j] = "Pending"
        PROVE  \E k \in DOMAIN stack' : stack'[k] = j
    <3>1. j \in DOMAIN parallel_moves /\ j \notin D /\ state[j] = "Pending"
      BY Zenon, <1>6, <1>7, <2>3
    <3>2. PICK k \in 1 .. Len(stack) : stack[k] = j
      BY <1>2, <3>1
    <3>3. k \in 1 .. first - 1
      BY <1>2, <3>1, <3>2 DEF D
    <3> QED BY <1>8, <3>2, <3>3
  <2>4. Range(stack') = {j \in DOMAIN state' : state'[j] = "Pending"}
    <3> DEFINE S == {j \in DOMAIN state' : state'[j] = "Pending"}
    <3>1. \A k \in DOMAIN stack' : stack'[k] \in S
      BY Zenon, <2>2
    <3>2. \A j \in S : \E k \in DOMAIN stack' : stack'[k] = j
      BY Zenon, <2>3
    <3> HIDE DEF S
    <3>3. Lists(stack', S)
      BY <3>1, <3>2 DEF Lists
    <3> QED BY Zenon, <3>3, RangeIs DEF S
  <2>5. ret' \in Seq(AnyMove)
    BY <1>3
  <2> QED BY Zenon, <1>1, <1>7, <1>8, <2>1, <2>4, <2>5 DEF TypeOK, AnyMove, Cell
<1>13. MovesMatch'
  BY ZenonT(60), <1>1, <1>5, <1>6 DEF MovesMatch
<1>14. StackIsChain'
  <2> SUFFICES ASSUME NEW k \in 1 .. Len(stack') - 1
               PROVE  parallel_moves[stack'[k]].src = parallel_moves[stack'[k + 1]].dst
    BY DEF StackIsChain
  <2>1. k \in 1 .. first - 1 /\ k + 1 \in 1 .. first - 1 /\ k \in 1 .. Len(stack) - 1
    BY <1>2, <1>8
  <2> QED BY <1>1, <1>8, <2>1 DEF StackIsChain
<1>15. DoneClosed'
  <2> SUFFICES ASSUME NEW i \in Done', NEW j \in DOMAIN parallel_moves,
                      parallel_moves[j].dst = parallel_moves[i].src
               PROVE  j \in Done'
    BY DEF DoneClosed
  <2>1. CASE i \in Done
    BY <1>1, <1>9, <2>1 DEF DoneClosed
  <2>2. CASE i \in D
    <3>1. PICK k \in first .. Len(stack) : i = stack[k]
      BY <2>2
    <3>2. CASE k = Len(stack)
      BY <1>9, <3>1, <3>2
    <3>3. CASE k # Len(stack)
      <4>1. k \in 1 .. Len(stack) - 1 /\ k + 1 \in first .. Len(stack)
            /\ k + 1 \in 1 .. Len(stack)
        BY <1>2, <3>3
      <4>2. parallel_moves[stack[k + 1]].dst = parallel_moves[j].dst
        BY <1>1, <3>1, <4>1 DEF StackIsChain
      <4>3. j = stack[k + 1]
        BY <1>1, <1>2, <4>1, <4>2 DEF MovesMatch
      <4> QED BY <1>9, <4>1, <4>3
    <3> QED BY <3>2, <3>3
  <2> QED BY <1>9, <2>1, <2>2
<1>16. PlacedInParallel'
  <2>1. \A i \in D : Perform(a, Untouched)[parallel_moves[i].dst] = parallel_moves[i].src
    OBVIOUS
  <2>2. \A l \in Loc : (\A i \in D : parallel_moves[i].dst # l)
                         => Perform(a, Untouched)[l] = l
    OBVIOUS
  <2> HIDE DEF D
  <2>3. /\ \A i \in Done \cup D :
              Perform(a \o ret, Untouched)[parallel_moves[i].dst] = parallel_moves[i].src
        /\ \A l \in Loc : (\A i \in Done \cup D : parallel_moves[i].dst # l)
                           => Perform(a \o ret, Untouched)[l] = l
    BY <1>1, <1>5, <1>10, <2>1, <2>2, PlacedExtends, ZenonT(60)
  <2> QED BY <1>9, <2>3 DEF PlacedInParallel
<1> QED BY <1>9, <1>12, <1>13, <1>14, <1>15, <1>16 DEF WalkInv

(* A new chain starts with one move. *)
LEMMA RootWalk ==
    ASSUME WalkInv, Root
    PROVE  WalkInv'
<1> DEFINE first == CHOOSE i \in ToDo : \A j \in ToDo : i <= j
<1>1. /\ stack = <<>> /\ ToDo # {} /\ stack' = <<first>>
      /\ state' = [state EXCEPT ![first] = "Pending"]
      /\ UNCHANGED <<parallel_moves, ret, scratch_used, group>>
  BY DEF Root
<1>2. ToDo \in SUBSET Nat
  BY DEF ToDo, WalkInv, TypeOK
<1>3. \E i \in ToDo : \A j \in ToDo : i <= j
  BY <1>1, <1>2, NatMin
<1>4. first \in ToDo
  BY <1>3
<1> HIDE DEF first
<1>5. stack' = Append(stack, first)
  BY <1>1
<1> QED BY Zenon, <1>1, <1>4, <1>5, PushWalk

(* A chain grows by the move that writes what its top reads. *)
LEMMA DescendWalk ==
    ASSUME WalkInv, Descend
    PROVE  WalkInv'
<1>1. TypeOK /\ MovesMatch
  BY DEF WalkInv
<1>2. /\ stack # <<>> /\ next # NONE /\ state[next] = "ToDo"
      /\ stack' = Append(stack, next) /\ state' = [state EXCEPT ![next] = "Pending"]
      /\ UNCHANGED <<parallel_moves, ret, scratch_used, group>>
  BY DEF Descend
<1>3. /\ top = stack[Len(stack)] /\ next \in DOMAIN parallel_moves
      /\ parallel_moves[next].dst = parallel_moves[top].src
  BY <1>1, <1>2, NextFacts
<1>4. next \in ToDo
  BY <1>2, <1>3 DEF ToDo
<1> QED BY Zenon, <1>2, <1>3, <1>4, PushWalk

(* A stack whose last source it does not overwrite is placed as a whole. *)
LEMMA UnwindWalk ==
    ASSUME WalkInv, Unwind
    PROVE  WalkInv' /\ Done' = Done \cup {stack[k] : k \in 1 .. Len(stack)}
<1>1. TypeOK /\ MovesMatch /\ StackIsChain
  BY DEF WalkInv
<1>2. /\ stack # <<>> /\ (next = NONE \/ (next # NONE /\ state[next] = "Done"))
      /\ ret' = MovesAt(stack) \o ret
      /\ state' = AllDone(Range(stack))
      /\ stack' = <<>>
      /\ UNCHANGED <<parallel_moves, scratch_used, group>>
  BY DEF Unwind
<1>3. /\ Len(stack) \in 1 .. Len(stack) /\ top = stack[Len(stack)]
      /\ next # NONE => next \in DOMAIN parallel_moves
      /\ \A j \in DOMAIN parallel_moves :
            parallel_moves[j].dst = parallel_moves[top].src => j = next
  BY <1>1, <1>2, NextFacts
<1>4. /\ Len(stack) \in Nat
      /\ DOMAIN stack = 1 .. Len(stack)
      /\ \A k \in 1 .. Len(stack) : stack[k] \in DOMAIN parallel_moves
                                     /\ state[stack[k]] = "Pending"
      /\ \A k, m \in 1 .. Len(stack) : stack[k] = stack[m] => k = m
      /\ \A i \in DOMAIN parallel_moves : /\ i # 0
                                           /\ parallel_moves[i].src \in Loc
                                           /\ parallel_moves[i].dst \in Loc
  BY <1>1, StackFacts
<1>5. stack \in Seq(DOMAIN parallel_moves) /\ scratch_used \in BOOLEAN
  BY <1>1 DEF TypeOK
<1>6. \A j \in DOMAIN parallel_moves :
         parallel_moves[j].dst = parallel_moves[stack[Len(stack)]].src => j \in Done
  BY <1>2, <1>3, <1>4 DEF Done, NONE
<1>7. ASSUME NEW i \in 1 .. Len(stack), NEW j \in 1 .. Len(stack), i < j
      PROVE  /\ parallel_moves[stack[i]].dst # parallel_moves[stack[j]].src
             /\ parallel_moves[stack[i]].dst # parallel_moves[stack[j]].dst
  <2>1. parallel_moves[stack[i]].dst # parallel_moves[stack[j]].dst
    BY <1>1, <1>4, <1>7 DEF MovesMatch
  <2>2. CASE j = Len(stack)
    BY <1>4, <1>6, <2>1, <2>2 DEF Done
  <2>3. CASE j # Len(stack)
    <3>1. j \in 1 .. Len(stack) - 1 /\ j + 1 \in 1 .. Len(stack) /\ i # j + 1
      <4>1. Len(stack) \in Nat BY <1>4
      <4> QED BY <1>7, <2>3, <4>1
    <3>2. parallel_moves[stack[j]].src = parallel_moves[stack[j + 1]].dst
      BY <1>1, <3>1 DEF StackIsChain
    <3> QED BY <1>1, <1>4, <2>1, <3>1, <3>2 DEF MovesMatch
  <2> QED BY <2>2, <2>3
<1>8. Untouched \in [Cell -> Cell] /\ \A l \in Loc : l \in Cell /\ Untouched[l] = l
  BY DEF Untouched, Cell
<1> DEFINE a == MovesAt(stack)
<1>13. Chained(stack)
  BY <1>7 DEF Chained
<1>9. a \in Seq(AnyMove) /\ PlacesAll(stack, Untouched)
  BY <1>1, <1>5, <1>8, <1>13, ChainPlaces, Zenon
<1> HIDE DEF a
<1>10. /\ \A k \in 1 .. Len(stack) :
             Perform(a, Untouched)[parallel_moves[stack[k]].dst] = parallel_moves[stack[k]].src
       /\ \A l \in Loc :
             (\A k \in 1 .. Len(stack) : parallel_moves[stack[k]].dst # l)
                 => Perform(a, Untouched)[l] = l
  BY <1>4, <1>8, <1>9 DEF a, PlacesAll
<1>11. Range(stack) = {stack[k] : k \in 1 .. Len(stack)}
  BY <1>4 DEF Range
<1>12. stack' = SubSeq(stack, 1, 1 - 1) /\ 1 \in 1 .. Len(stack)
  BY <1>2, <1>3, <1>4
<1> QED BY Zenon, <1>2, <1>5, <1>6, <1>9, <1>10, <1>11, <1>12, PlaceWalk DEF a

(* A cycle goes through the scratch location: save, the other moves,       *)
(* restore.                                                                *)
LEMMA BreakCycleWalk ==
    ASSUME WalkInv, BreakCycle
    PROVE  WalkInv'
<1> DEFINE first == CHOOSE k \in DOMAIN stack : stack[k] = next
           last == parallel_moves[top]
           save == [src |-> last.src, dst |-> NoLoc]
           restore == [src |-> NoLoc, dst |-> last.dst]
           n == Len(stack)
           c == SubSeq(stack, first, n - 1)
           M == MovesAt(c)
           a == <<save>> \o M \o <<restore>>
<1>1. TypeOK /\ MovesMatch /\ StackIsChain
  BY DEF WalkInv
<1>2. /\ stack # <<>> /\ next # NONE /\ state[next] = "Pending"
      /\ ret' = a \o ret
      /\ state' = AllDone(Range(SubSeq(stack, first, n)))
      /\ stack' = SubSeq(stack, 1, first - 1)
      /\ scratch_used' = TRUE
      /\ UNCHANGED <<parallel_moves, group>>
  BY DEF BreakCycle
<1>3. /\ n \in 1 .. n /\ top = stack[n]
      /\ next \in DOMAIN parallel_moves
      /\ \A j \in DOMAIN parallel_moves :
            parallel_moves[j].dst = parallel_moves[top].src => j = next
  BY <1>1, <1>2, NextFacts
<1>4. /\ n \in Nat
      /\ DOMAIN stack = 1 .. n
      /\ \A k \in 1 .. n : stack[k] \in DOMAIN parallel_moves
      /\ \A k, m \in 1 .. n : stack[k] = stack[m] => k = m
      /\ \A j \in DOMAIN parallel_moves :
            state[j] = "Pending" => \E k \in 1 .. n : stack[k] = j
      /\ \A i \in DOMAIN parallel_moves : /\ parallel_moves[i].src \in Loc
                                           /\ parallel_moves[i].dst \in Loc
      /\ NoLoc \notin Loc
  BY <1>1, StackFacts
<1>5. stack \in Seq(DOMAIN parallel_moves)
  BY <1>1 DEF TypeOK
<1>6. first \in 1 .. n /\ stack[first] = next
  BY Zenon, <1>2, <1>3, <1>4
<1>7. last.src \in Loc /\ last.dst \in Loc
  BY <1>3, <1>4
<1> HIDE DEF first, last, n
<1>8. /\ c \in Seq(DOMAIN parallel_moves) /\ Len(c) = n - first
      /\ \A k \in 1 .. n - first : c[k] = stack[first + k - 1]
  <2>1. n - 1 \in first - 1 .. Len(stack) /\ (n - 1) - first + 1 = n - first
    BY <1>4, <1>6 DEF n
  <2> QED BY <1>5, <1>6, <2>1, SubSeqFacts, ZenonT(60) DEF n
<1>9. \A k \in 1 .. n - first :
         /\ first + k - 1 \in 1 .. n - 1 /\ first + k \in 1 .. n
         /\ first + k - 1 \in first .. n - 1 /\ first + k - 1 \in 1 .. n
  BY <1>4, <1>6
<1>10. \A k \in 1 .. n - 1 : parallel_moves[stack[k]].src = parallel_moves[stack[k + 1]].dst
  BY <1>1 DEF StackIsChain, n
<1>11. Chained(c)
  <2> SUFFICES ASSUME NEW i \in 1 .. n - first, NEW j \in 1 .. n - first, i < j
               PROVE  /\ parallel_moves[c[i]].dst # parallel_moves[c[j]].src
                      /\ parallel_moves[c[i]].dst # parallel_moves[c[j]].dst
    BY <1>8 DEF Chained
  <2> DEFINE ii == first + i - 1
             jj == first + j - 1
  <2>1. c[i] = stack[ii] /\ c[j] = stack[jj]
    BY <1>8
  <2>2. ii \in 1 .. n /\ jj \in 1 .. n - 1 /\ jj \in 1 .. n /\ jj + 1 \in 1 .. n
    BY <1>9, <1>4, <1>6
  <2>3. ii # jj /\ ii # jj + 1
    BY <1>4, <1>6
  <2> HIDE DEF ii, jj
  <2>4. parallel_moves[stack[jj]].src = parallel_moves[stack[jj + 1]].dst
    BY <1>10, <2>2
  <2>5. \A k \in 1 .. n : k # ii => parallel_moves[stack[ii]].dst # parallel_moves[stack[k]].dst
    BY <1>1, <1>4, <2>2 DEF MovesMatch
  <2> QED BY Zenon, <2>1, <2>2, <2>3, <2>4, <2>5
<1>12. save \in AnyMove /\ restore \in AnyMove
  BY <1>7 DEF AnyMove, Cell
<1>13. Untouched \in [Cell -> Cell] /\ \A l \in Cell : Untouched[l] = l
  BY DEF Untouched, Cell
<1> DEFINE u1 == Moved(Untouched, save)
           u2 == Perform(M, u1)
           u3 == Moved(u2, restore)
<1>14. /\ u1 \in [Cell -> Cell]
       /\ \A l \in Cell : u1[l] = IF l = NoLoc THEN last.src ELSE l
  BY <1>7, <1>13 DEF Moved, Cell
<1>15. M \in Seq(AnyMove) /\ PlacesAll(c, u1)
  <2> HIDE DEF u1, c
  <2> QED BY <1>1, <1>8, <1>11, <1>14, ChainPlaces, Zenon
<1>16. u2 \in [Cell -> Cell]
  <2> HIDE DEF u1, M
  <2> QED BY <1>14, <1>15, PerformType
<1>17. u3 \in [Cell -> Cell] /\ \A l \in Cell : u3[l] = IF l = last.dst THEN u2[NoLoc] ELSE u2[l]
  <2> HIDE DEF u2
  <2> QED BY <1>7, <1>16 DEF Moved, Cell
<1>18. a \in Seq(AnyMove) /\ Perform(a, Untouched) = u3
  <2> HIDE DEF save, restore, M
  <2>1. <<save>> \in Seq(AnyMove) /\ <<restore>> \in Seq(AnyMove)
        /\ <<save>> \o M \in Seq(AnyMove) /\ a \in Seq(AnyMove)
    BY <1>12, <1>15
  <2>2. Perform(<<save>>, Untouched) = u1
    BY <1>12, <1>13, PerformOne
  <2>3. Perform(<<save>> \o M, Untouched) = u2
    <3>1. Perform(<<save>> \o M, Untouched) = Perform(M, Perform(<<save>>, Untouched))
      BY ZenonT(60), <1>13, <1>15, <2>1, PerformConcat
    <3> QED BY <2>2, <3>1
  <2>4. Perform(<<restore>>, u2) = u3
    <3> HIDE DEF u2
    <3> QED BY <1>12, <1>16, PerformOne
  <2>5. Perform(a, Untouched) = Perform(<<restore>>, Perform(<<save>> \o M, Untouched))
    BY ZenonT(60), <1>13, <2>1, PerformConcat
  <2> QED BY <2>1, <2>3, <2>4, <2>5
<1> HIDE DEF u1, u2, u3, a, c, M
<1>19. u2[NoLoc] = last.src
  <2>1. NoLoc \in Cell /\ \A k \in 1 .. Len(c) : parallel_moves[c[k]].dst # NoLoc
    BY <1>4, <1>8 DEF Cell
  <2> QED BY <1>14, <1>15, <2>1 DEF PlacesAll, u2, M
<1>20. last.dst = parallel_moves[stack[n]].dst /\ last.src = parallel_moves[stack[n]].src
  BY <1>3 DEF last
<1>21. \A k \in first .. n : k \in 1 .. n /\ (k # n => k - first + 1 \in 1 .. n - first
                                               /\ first + (k - first + 1) - 1 = k)
  BY <1>4, <1>6
<1>22. ASSUME NEW k \in first .. n
       PROVE  u3[parallel_moves[stack[k]].dst] = parallel_moves[stack[k]].src
  <2>1. CASE k = n
    BY <1>7, <1>17, <1>19, <1>20, <2>1 DEF Cell
  <2>2. CASE k # n
    <3> DEFINE m == k - first + 1
    <3>1. m \in 1 .. Len(c) /\ c[m] = stack[k]
      BY <1>8, <1>21, <2>2
    <3> HIDE DEF m
    <3>2. u2[parallel_moves[stack[k]].dst] = u1[parallel_moves[stack[k]].src]
      BY <1>15, <3>1 DEF PlacesAll, u2, M
    <3>3. stack[k] \in DOMAIN parallel_moves /\ stack[n] \in DOMAIN parallel_moves
          /\ stack[k] # stack[n]
      BY <1>3, <1>4, <1>21, <2>2
    <3>4. parallel_moves[stack[k]].dst # last.dst
      BY <1>1, <1>20, <3>3 DEF MovesMatch
    <3>5. parallel_moves[stack[k]].src \in Loc /\ parallel_moves[stack[k]].dst \in Loc
      BY <1>4, <3>3
    <3> QED BY <1>4, <1>14, <1>17, <3>2, <3>4, <3>5 DEF Cell
  <2> QED BY <2>1, <2>2
<1>23. ASSUME NEW l \in Loc, \A k \in first .. n : parallel_moves[stack[k]].dst # l
       PROVE  u3[l] = l
  <2>1. l \in Cell /\ l # NoLoc /\ n \in first .. n
    BY <1>4, <1>6 DEF Cell
  <2>2. ASSUME NEW m \in 1 .. Len(c) PROVE parallel_moves[c[m]].dst # l
    <3>1. first + m - 1 \in first .. n
      BY <1>4, <1>6, <1>8
    <3> QED BY <1>8, <1>23, <3>1
  <2>3. u2[l] = u1[l]
    BY <1>15, <2>1, <2>2 DEF PlacesAll, u2, M
  <2> QED BY <1>14, <1>17, <1>20, <1>23, <2>1, <2>3
<1>24. Range(SubSeq(stack, first, n)) = {stack[k] : k \in first .. n}
  <2> DEFINE t == SubSeq(stack, first, n)
             S == {stack[k] : k \in first .. n}
  <2>1. /\ t \in Seq(DOMAIN parallel_moves) /\ Len(t) = n - first + 1
        /\ \A i \in 1 .. n - first + 1 : t[i] = stack[first + i - 1]
    <3>1. n \in first - 1 .. Len(stack)
      BY <1>4, <1>6 DEF n
    <3> QED BY <1>5, <1>6, <3>1, SubSeqFacts DEF n
  <2> HIDE DEF t
  <2>2. DOMAIN t = 1 .. n - first + 1
    BY <2>1
  <2>3. \A i \in 1 .. n - first + 1 : first + i - 1 \in first .. n
    BY <1>4, <1>6
  <2>4. \A k \in first .. n : k - first + 1 \in 1 .. n - first + 1 /\ first + (k - first + 1) - 1 = k
    BY <1>4, <1>6
  <2>5. Lists(t, S)
    <3>1. \A i \in DOMAIN t : t[i] \in S
      BY Zenon, <2>1, <2>2, <2>3
    <3>2. ASSUME NEW k \in first .. n PROVE \E i \in DOMAIN t : t[i] = stack[k]
      <4>1. k - first + 1 \in DOMAIN t /\ t[k - first + 1] = stack[k]
        BY Zenon, <2>1, <2>2, <2>4
      <4> QED BY Zenon, <4>1
    <3>3. \A x \in S : \E i \in DOMAIN t : t[i] = x
      BY Zenon, <3>2
    <3> QED BY Zenon, <3>1, <3>3 DEF Lists
  <2> HIDE DEF S
  <2>6. Range(t) = S
    BY <2>5, RangeIs
  <2> QED BY <2>6 DEF t, S
<1>25. \A j \in DOMAIN parallel_moves :
          parallel_moves[j].dst = parallel_moves[stack[n]].src
              => j \in Done \/ \E k \in first .. n : stack[k] = j
  <2>1. first \in first .. n
    BY <1>4, <1>6
  <2> QED BY <1>3, <1>6, <2>1
<1> QED BY ZenonT(60), <1>2, <1>6, <1>18, <1>22, <1>23, <1>24, <1>25, PlaceWalk DEF n

-----------------------------------------------------------------------------
(* Before a group is added nothing is placed. *)
LEMMA InitWalk ==
    ASSUME Init
    PROVE  WalkInv
<1>1. /\ group = <<>> /\ parallel_moves = <<>> /\ state = <<>>
      /\ stack = <<>> /\ ret = <<>> /\ scratch_used = FALSE
  BY DEF Init, NoMoves
<1>2. DOMAIN group = {} /\ DOMAIN parallel_moves = {} /\ Len(stack) = 0 /\ DOMAIN stack = {}
  BY <1>1
<1>3. TypeOK
  <2>1. Range(stack) = {i \in DOMAIN state : state[i] = "Pending"}
    BY <1>1, <1>2 DEF Range
  <2>2. IsInjective(stack)
    BY <1>2 DEF IsInjective
  <2>3. state \in [DOMAIN parallel_moves -> {"ToDo", "Pending", "Done"}]
    <3>1. state \in [{} -> {"ToDo", "Pending", "Done"}]
      BY <1>1
    <3> QED BY <1>2, <3>1
  <2>4. /\ parallel_moves \in Seq(Move) /\ stack \in Seq(DOMAIN parallel_moves)
        /\ ret \in Seq([src : Loc \cup {NoLoc}, dst : Loc \cup {NoLoc}])
    <3> HIDE DEF Move
    <3>1. \A S : <<>> \in Seq(S)
      OBVIOUS
    <3> QED BY <1>1, <3>1, Zenon
  <2>5. scratch_used \in BOOLEAN
    BY Zenon, <1>1
  <2> QED BY <2>1, <2>2, <2>3, <2>4, <2>5, Zenon DEF TypeOK
<1>4. MovesMatch
  <2>1. group \in Groups
    <3>1. group \in [{} -> Loc]
      BY <1>1
    <3> QED BY <3>1 DEF Groups
  <2> QED BY <1>2, <2>1 DEF MovesMatch
<1>5. StackIsChain
  BY <1>2 DEF StackIsChain
<1>6. Done = {}
  BY <1>2 DEF Done
<1>7. PlacedInParallel
  <2>1. Untouched \in [Cell -> Cell] /\ \A l \in Loc : Untouched[l] = l
    BY DEF Untouched, Cell
  <2>2. Perform(ret, Untouched) = Untouched
    BY <1>1, <2>1, PerformEmpty
  <2> QED BY <1>6, <2>1, <2>2 DEF PlacedInParallel
<1> QED BY <1>3, <1>4, <1>5, <1>6, <1>7 DEF WalkInv, DoneClosed

(* Every step of the resolver keeps what the walk relies on. *)
LEMMA NextWalk ==
    ASSUME WalkInv, [Next]_pvars
    PROVE  WalkInv'
<1>1. ASSUME NEW g \in Groups \ {NoMoves}, Start(g) PROVE WalkInv'
  BY <1>1, StartWalk
<1>2. CASE Root
  BY <1>2, RootWalk
<1>3. CASE Descend
  BY <1>3, DescendWalk
<1>4. CASE Unwind
  BY <1>4, UnwindWalk
<1>5. CASE BreakCycle
  BY <1>5, BreakCycleWalk
<1>6. CASE UNCHANGED pvars
  BY <1>6 DEF pvars, WalkInv, TypeOK, MovesMatch, StackIsChain, DoneClosed,
              PlacedInParallel, Done
<1> QED BY <1>1, <1>2, <1>3, <1>4, <1>5, <1>6 DEF Next, Step

(* WalkInv is an inductive invariant. *)
LEMMA WalkInvariant == Spec => []WalkInv
<1>1. Init => WalkInv
  BY InitWalk
<1>2. WalkInv /\ [Next]_pvars => WalkInv'
  BY NextWalk
<1> QED BY <1>1, <1>2, PTL DEF Spec

(* When nothing is left to follow, everything is placed. *)
LEMMA AllPlaced ==
    ASSUME WalkInv, Resolved
    PROVE  Done = DOMAIN parallel_moves
<1>1. TypeOK
  BY DEF WalkInv
<1>2. \A i \in DOMAIN parallel_moves : state[i] \in {"ToDo", "Pending", "Done"}
  BY <1>1 DEF TypeOK
<1>3. \A i \in DOMAIN parallel_moves : state[i] # "ToDo"
  BY DEF Resolved, ToDo
<1>4. \A i \in DOMAIN parallel_moves : state[i] # "Pending"
  <2>1. Len(stack) = 0
    BY DEF Resolved
  <2> QED BY <1>1, <2>1, StackFacts
<1> QED BY <1>2, <1>3, <1>4 DEF Done

(* What is placed is then the whole group. *)
LEMMA WalkResolves ==
    ASSUME WalkInv
    PROVE  ResolvedInParallel
<1> SUFFICES ASSUME Resolved, NEW l \in Loc
             PROVE  Perform(ret, Untouched)[l] = IF l \in DOMAIN group THEN group[l] ELSE l
  BY DEF ResolvedInParallel
<1>1. TypeOK /\ MovesMatch /\ PlacedInParallel
  BY DEF WalkInv
<1>2. Done = DOMAIN parallel_moves
  BY AllPlaced
<1>3. CASE \E i \in Done : parallel_moves[i].dst = l
  BY <1>1, <1>2, <1>3 DEF MovesMatch, PlacedInParallel
<1>4. CASE ~ \E i \in Done : parallel_moves[i].dst = l
  <2>1. Perform(ret, Untouched)[l] = l
    BY <1>1, <1>4 DEF PlacedInParallel
  <2>2. l \in DOMAIN group => group[l] = l
    BY <1>1, <1>2, <1>4 DEF MovesMatch
  <2> QED BY <2>1, <2>2
<1> QED BY <1>3, <1>4

(* The walk's bookkeeping keeps its shape for every set of locations: the  *)
(* moves on the stack are the pending ones, each of them once.             *)
THEOREM TypeCorrect == Spec => []TypeOK
<1>1. WalkInv => TypeOK
  BY DEF WalkInv
<1> QED BY <1>1, WalkInvariant, PTL

(* `resolve` returns, for every group of moves over any finite set of      *)
(* locations, a sequence that done one move at a time has the effect of    *)
(* all of them at once.                                                    *)
THEOREM ResolvesInParallel == Spec => []ResolvedInParallel
<1>1. WalkInv => ResolvedInParallel
  BY WalkResolves
<1> QED BY <1>1, WalkInvariant, PTL

-----------------------------------------------------------------------------
(* The result holds the placed moves themselves, every one before the move *)
(* that overwrites its source.                                             *)
PlacedInOrder ==
    /\ \A i \in Done : \E a \in DOMAIN ret : ret[a] = parallel_moves[i]
    /\ \A a \in DOMAIN ret : \E i \in Done : ret[a] = parallel_moves[i]
    /\ \A a, b \in DOMAIN ret :
           ret[a].src = ret[b].dst /\ ret[a].src # ret[a].dst => a < b

ScratchExact ==
    IF scratch_used THEN \E l \in DOMAIN group : CycleFrom(l) ELSE PlacedInOrder

IInv == WalkInv /\ ScratchExact

-----------------------------------------------------------------------------
(* at follows the moves of the group from l, source by source. *)
Follows(at, l) ==
    /\ at \in [0 .. Cardinality(Loc) -> Cell]
    /\ at[0] = l
    /\ \A n \in 1 .. Cardinality(Loc) :
           at[n] = IF at[n - 1] \in DOMAIN group THEN group[at[n - 1]] ELSE NoLoc

Returns(at, l) == \E n \in 1 .. Cardinality(Loc) : at[n] = l

(* A cycle is found by following the moves from one of its locations. *)
LEMMA CycleRecursion ==
    ASSUME group \in Groups, NEW l \in Loc
    PROVE  /\ Cardinality(Loc) \in Nat
           /\ \E at : /\ Follows(at, l)
                      /\ CycleFrom(l) <=> group[l] # l /\ Returns(at, l)
<1> DEFINE N == Cardinality(Loc)
           source(x) == IF x \in DOMAIN group THEN group[x] ELSE NoLoc
           Eqn(f) == [n \in 0 .. N |-> IF n = 0 THEN l
                        ELSE IF f[n - 1] \in DOMAIN group THEN group[f[n - 1]] ELSE NoLoc]
           step == [n \in 1 .. N |-> [x \in Cell |-> source(x)]]
           at == CHOOSE f : f = Eqn(f)
<1>1. N \in Nat /\ l \in Cell
  BY LocAssumption, FS_CardinalityType DEF Cell
<1>2. \A x : source(x) \in Cell
  <2>1. \A x \in DOMAIN group : group[x] \in Loc
    BY DEF Groups
  <2> QED BY <2>1 DEF Cell
<1>3. PICK g : IsRecursion(g, step, N, Cell, l)
  <2>1. IsStep(step, N, Cell)
    BY <1>2 DEF IsStep
  <2> HIDE DEF step, N
  <2> QED BY <1>1, <2>1, RecursionExists, Zenon
<1>4. \A n \in 1 .. N : g[n] = source(g[n - 1])
  <2> SUFFICES ASSUME NEW n \in 1 .. N PROVE g[n] = source(g[n - 1])
    OBVIOUS
  <2> HIDE DEF N
  <2>1. g[n - 1] \in Cell
    BY <1>3, <1>1 DEF IsRecursion
  <2> QED BY Zenon, <1>3, <2>1 DEF IsRecursion
<1>5. g = Eqn(g)
  <2> HIDE DEF N
  <2> QED BY <1>1, <1>3, <1>4 DEF IsRecursion
<1>6. at = Eqn(at)
  BY <1>5, Zenon
<1>7. CycleFrom(l) <=> group[l] # l /\ Returns(at, l)
  BY Zenon DEF CycleFrom, Returns
<1>8. Follows(at, l)
  <2> HIDE DEF at
  <2>1. at[0] = l /\ \A n \in 1 .. N : at[n] = source(at[n - 1])
    BY <1>1, <1>6
  <2>2. \A n \in 0 .. N : at[n] \in Cell
    <3> SUFFICES ASSUME NEW n \in 0 .. N PROVE at[n] \in Cell
      OBVIOUS
    <3>1. CASE n = 0
      BY <1>1, <2>1, <3>1
    <3>2. CASE n # 0
      <4>1. n \in 1 .. N
        BY <1>1, <3>2
      <4> QED BY <1>2, <2>1, <4>1
    <3> QED BY <3>1, <3>2
  <2>3. at \in [0 .. N -> Cell]
    BY <1>6, <2>2
  <2> QED BY <2>1, <2>3 DEF Follows
<1> HIDE DEF at
<1> QED BY <1>1, <1>7, <1>8

(* The moves that the walk found to lead back to one of them are a cycle. *)
LEMMA BreakCycleScratch ==
    ASSUME WalkInv, BreakCycle
    PROVE  \E l \in DOMAIN group : CycleFrom(l)
<1> DEFINE n == Len(stack)
           dst(k) == parallel_moves[stack[k]].dst
           src(k) == parallel_moves[stack[k]].src
           N == Cardinality(Loc)
<1>1. TypeOK /\ MovesMatch /\ StackIsChain /\ group \in Groups
  BY DEF WalkInv, MovesMatch
<1>2. stack # <<>> /\ next # NONE /\ state[next] = "Pending"
  BY DEF BreakCycle
<1>3. /\ n \in 1 .. n /\ top = stack[n] /\ next \in DOMAIN parallel_moves
      /\ parallel_moves[next].dst = parallel_moves[top].src
  BY <1>1, <1>2, NextFacts
<1>4. /\ n \in Nat
      /\ \A k \in 1 .. n : stack[k] \in DOMAIN parallel_moves /\ state[stack[k]] = "Pending"
      /\ \A k, m \in 1 .. n : stack[k] = stack[m] => k = m
      /\ \A j \in DOMAIN parallel_moves :
            state[j] = "Pending" => \E k \in 1 .. n : stack[k] = j
      /\ \A i \in DOMAIN parallel_moves : parallel_moves[i].dst \in Loc
  BY <1>1, StackFacts
<1>5. PICK first \in 1 .. n : stack[first] = next
  BY <1>2, <1>3, <1>4
<1>6. \A k \in 1 .. n : /\ dst(k) \in Loc /\ dst(k) \in DOMAIN group
                         /\ group[dst(k)] = src(k) /\ src(k) # dst(k)
  BY <1>1, <1>4 DEF MovesMatch
<1>7. /\ \A k \in 1 .. n - 1 : src(k) = dst(k + 1)
      /\ src(n) = dst(first)
  BY <1>1, <1>3, <1>5 DEF StackIsChain
<1>8. \A k, m \in 1 .. n : dst(k) = dst(m) => k = m
  BY <1>1, <1>4 DEF MovesMatch
<1> HIDE DEF n, dst, src
<1>9. N \in Nat /\ n <= N
  <2> DEFINE f == [k \in 1 .. n |-> dst(k)]
  <2>1. f \in Injection(1 .. n, Loc)
    BY <1>6, <1>8 DEF Injection, IsInjective
  <2> HIDE DEF f
  <2>2. Cardinality(1 .. n) = n
    BY <1>4, FS_Interval
  <2> QED BY <1>4, <2>1, <2>2, LocAssumption, FS_Injection, FS_CardinalityType
<1> DEFINE l == dst(first)
<1>10. l \in Loc /\ l \in DOMAIN group /\ group[l] # l
  BY <1>5, <1>6
<1>11. PICK at : Follows(at, l) /\ (CycleFrom(l) <=> group[l] # l /\ Returns(at, l))
  BY <1>1, <1>10, CycleRecursion
<1> DEFINE S == {k \in 0 .. n - first : at[k] = dst(first + k)}
           K == n - first
<1>12. K \in Nat /\ first \in Nat
  BY <1>4, <1>5
<1>13. 0 \in S
  BY <1>11, <1>12 DEF Follows
<1>14. ASSUME NEW k \in 0 .. K, k \in S, k < K PROVE k + 1 \in S
  <2>1. /\ k + 1 \in 1 .. N /\ (k + 1) - 1 = k /\ k + 1 \in 0 .. K
        /\ first + k \in 1 .. n - 1 /\ first + k \in 1 .. n
        /\ (first + k) + 1 = first + (k + 1)
    BY <1>4, <1>5, <1>9, <1>14
  <2>2. at[k + 1] = IF at[k] \in DOMAIN group THEN group[at[k]] ELSE NoLoc
    BY <1>11, <2>1 DEF Follows
  <2>3. at[k] = dst(first + k)
    BY <1>14
  <2>4. at[k + 1] = dst((first + k) + 1)
    BY <1>6, <1>7, <2>1, <2>2, <2>3
  <2> QED BY <2>1, <2>4
<1> HIDE DEF S, K
<1>15. 0 .. K \subseteq S
  BY <1>12, <1>13, <1>14, PrefixInduction
<1>16. at[K] = dst(n)
  <2>1. K \in S /\ first + K = n
    BY <1>4, <1>12, <1>15 DEF K
  <2> QED BY <2>1 DEF S
<1>17. K + 1 \in 1 .. N /\ (K + 1) - 1 = K
  BY <1>4, <1>5, <1>9 DEF K
<1>18. at[K + 1] = l
  <2>1. at[K + 1] = IF at[K] \in DOMAIN group THEN group[at[K]] ELSE NoLoc
    BY <1>11, <1>17 DEF Follows
  <2>2. n \in 1 .. n
    BY <1>4, <1>5
  <2> QED BY <1>6, <1>7, <1>16, <2>1, <2>2
<1>19. Returns(at, l)
  BY <1>17, <1>18 DEF Returns
<1> QED BY <1>10, <1>11, <1>19

(* Moves that do not overlap are returned as they are. *)
LEMMA StartScratch ==
    ASSUME NEW g \in Groups, Start(g)
    PROVE  ScratchExact'
<1> DEFINE ms == MovesOf(g)
<1>1. ~Overlapping(g) =>
         \A i, j \in DOMAIN ms : ms[i].src = ms[j].dst => i = j /\ ms[i].src = ms[i].dst
  BY MovesOfFacts
<1>2. /\ parallel_moves' = ms
      /\ state' = [i \in DOMAIN ms |-> IF Overlapping(g) THEN "ToDo" ELSE "Done"]
      /\ ret' = (IF Overlapping(g) THEN <<>> ELSE ms)
      /\ scratch_used' = FALSE
  BY DEF Start
<1> HIDE DEF ms
<1>3. Done' = IF Overlapping(g) THEN {} ELSE DOMAIN ms
  BY <1>2 DEF Done
<1>4. PlacedInOrder'
  <2>1. CASE Overlapping(g)
    <3>1. DOMAIN ret' = {} /\ Done' = {}
      BY <1>2, <1>3, <2>1
    <3> QED BY <3>1 DEF PlacedInOrder
  <2>2. CASE ~Overlapping(g)
    BY <1>1, <1>2, <1>3, <2>2 DEF PlacedInOrder
  <2> QED BY <2>1, <2>2
<1> QED BY <1>2, <1>4 DEF ScratchExact

(* Following a move places nothing. *)
LEMMA PushScratch ==
    ASSUME TypeOK, ScratchExact, NEW i \in ToDo,
           state' = [state EXCEPT ![i] = "Pending"],
           UNCHANGED <<parallel_moves, ret, scratch_used, group>>
    PROVE  ScratchExact'
<1>1. i \in DOMAIN parallel_moves /\ state[i] = "ToDo"
  BY DEF ToDo
<1>2. state \in [DOMAIN parallel_moves -> {"ToDo", "Pending", "Done"}]
  BY DEF TypeOK
<1>3. Done' = Done
  BY <1>1, <1>2 DEF Done
<1>4. PlacedInOrder => PlacedInOrder'
  BY <1>3 DEF PlacedInOrder
<1>5. \A l : CycleFrom(l)' <=> CycleFrom(l)
  BY DEF CycleFrom
<1> QED BY <1>4, <1>5 DEF ScratchExact

(* Starting a new chain keeps what is known of the result. *)
LEMMA RootScratch ==
    ASSUME TypeOK, ScratchExact, Root
    PROVE  ScratchExact'
<1> DEFINE first == CHOOSE i \in ToDo : \A j \in ToDo : i <= j
<1>1. /\ ToDo # {} /\ state' = [state EXCEPT ![first] = "Pending"]
      /\ UNCHANGED <<parallel_moves, ret, scratch_used, group>>
  BY DEF Root
<1>2. ToDo \in SUBSET Nat
  BY DEF ToDo, TypeOK
<1>3. \E i \in ToDo : \A j \in ToDo : i <= j
  BY <1>1, <1>2, NatMin
<1>4. first \in ToDo
  BY <1>3
<1> HIDE DEF first
<1> QED BY Zenon, <1>1, <1>4, PushScratch

(* So does following the writer of the top move's source. *)
LEMMA DescendScratch ==
    ASSUME TypeOK, MovesMatch, ScratchExact, Descend
    PROVE  ScratchExact'
<1>1. /\ stack # <<>> /\ next # NONE /\ state[next] = "ToDo"
      /\ state' = [state EXCEPT ![next] = "Pending"]
      /\ UNCHANGED <<parallel_moves, ret, scratch_used, group>>
  BY DEF Descend
<1>2. next \in DOMAIN parallel_moves
  BY <1>1, NextFacts
<1>3. next \in ToDo
  BY <1>1, <1>2 DEF ToDo
<1> QED BY Zenon, <1>1, <1>3, PushScratch

(* The positions of a concatenation u of s and t. *)
Joins(u, s, t) ==
    /\ DOMAIN u = 1 .. Len(s) + Len(t)
    /\ \A k \in 1 .. Len(s) : u[k] = s[k]
    /\ \A k \in Len(s) + 1 .. Len(s) + Len(t) : u[k] = t[k - Len(s)]

(* The elements of s come first, then those of t. *)
LEMMA ConcatJoins ==
    ASSUME NEW S, NEW s \in Seq(S), NEW t \in Seq(S)
    PROVE  Joins(s \o t, s, t)
BY DEF Joins

(* The moves of the stack go in front of the placed ones: none of those    *)
(* reads what the stack writes, and on the stack every move reads what the *)
(* next one writes.                                                        *)
LEMMA UnwindScratch ==
    ASSUME WalkInv, ScratchExact, Unwind
    PROVE  ScratchExact'
<1> DEFINE n == Len(stack)
           M == MovesAt(stack)
           r == Len(ret)
<1>1. TypeOK /\ MovesMatch /\ StackIsChain /\ DoneClosed
  BY DEF WalkInv
<1>2. /\ stack # <<>> /\ (next = NONE \/ (next # NONE /\ state[next] = "Done"))
      /\ ret' = M \o ret
      /\ UNCHANGED <<parallel_moves, scratch_used, group>>
  BY DEF Unwind
<1>3. /\ n \in 1 .. n /\ top = stack[n]
      /\ \A j \in DOMAIN parallel_moves :
            parallel_moves[j].dst = parallel_moves[top].src => j = next
  BY <1>1, <1>2, NextFacts
<1>4. /\ n \in Nat
      /\ \A k \in 1 .. n : stack[k] \in DOMAIN parallel_moves /\ state[stack[k]] = "Pending"
      /\ \A k, m \in 1 .. n : stack[k] = stack[m] => k = m
      /\ \A i \in DOMAIN parallel_moves : parallel_moves[i] \in AnyMove /\ i # 0
  BY <1>1, StackFacts
<1>5. Done' = Done \cup {stack[k] : k \in 1 .. n}
  BY UnwindWalk
<1>6. /\ M \in Seq(AnyMove) /\ Len(M) = n
      /\ \A k \in 1 .. n : M[k] = parallel_moves[stack[k]]
  <2>1. M = [k \in 1 .. n |-> parallel_moves[stack[k]]]
    BY <1>1 DEF MovesAt, TypeOK
  <2> QED BY <1>4, <2>1
<1>7. ret \in Seq(AnyMove) /\ r \in Nat /\ DOMAIN ret = 1 .. r
  BY <1>1 DEF TypeOK, AnyMove, Cell
<1> HIDE DEF M, n, r
<1>8. /\ DOMAIN ret' = 1 .. n + r
      /\ \A k \in 1 .. n : ret'[k] = parallel_moves[stack[k]]
      /\ \A k \in n + 1 .. n + r : ret'[k] = ret[k - n] /\ k - n \in DOMAIN ret
      /\ \A a \in DOMAIN ret : n + a \in n + 1 .. n + r /\ ret'[n + a] = ret[a]
  <2>1. Len(ret) = r
    BY DEF r
  <2>2. /\ DOMAIN ret' = 1 .. n + r
        /\ \A k \in 1 .. n : ret'[k] = M[k]
        /\ \A k \in n + 1 .. n + r : ret'[k] = ret[k - n]
    <3>1. Joins(M \o ret, M, ret)
      BY <1>6, <1>7, ConcatJoins, Zenon
    <3> QED BY <1>2, <1>6, <2>1, <3>1 DEF Joins
  <2>3. \A k \in n + 1 .. n + r : k - n \in 1 .. r
    BY <1>4, <1>7
  <2>4. \A a \in 1 .. r : n + a \in n + 1 .. n + r /\ (n + a) - n = a
    BY <1>4, <1>7
  <2>5. ASSUME NEW a \in DOMAIN ret
        PROVE  n + a \in n + 1 .. n + r /\ ret'[n + a] = ret[a]
    <3>1. n + a \in n + 1 .. n + r /\ (n + a) - n = a
      BY <1>7, <2>4
    <3>2. ret'[n + a] = ret[(n + a) - n]
      BY <2>2, <3>1, Zenon
    <3> QED BY <3>1, <3>2
  <2> QED BY Zenon, <1>6, <1>7, <2>2, <2>3, <2>5
<1>9. \A k \in DOMAIN ret' : k \in 1 .. n \/ k \in n + 1 .. n + r
  BY <1>4, <1>7, <1>8
<1>10. \A k \in 1 .. n : k \in DOMAIN ret'
  BY <1>4, <1>7, <1>8
<1>11. \A k \in n + 1 .. n + r : k \in DOMAIN ret'
  BY <1>4, <1>7, <1>8
<1>12. \A k \in 1 .. n : stack[k] \notin Done
  BY <1>4 DEF Done
<1>13. ASSUME PlacedInOrder PROVE PlacedInOrder'
  <2>1. ASSUME NEW i \in Done' PROVE \E a \in DOMAIN ret' : ret'[a] = parallel_moves[i]
    <3>1. CASE i \in Done
      BY <1>8, <1>11, <1>13, <3>1 DEF PlacedInOrder
    <3>2. CASE i \notin Done
      BY <1>5, <1>8, <1>10, <3>2
    <3> QED BY <3>1, <3>2
  <2>2. ASSUME NEW a \in DOMAIN ret' PROVE \E i \in Done' : ret'[a] = parallel_moves[i]
    <3>1. CASE a \in 1 .. n
      BY <1>5, <1>8, <3>1
    <3>2. CASE a \in n + 1 .. n + r
      BY <1>5, <1>8, <1>13, <3>2 DEF PlacedInOrder
    <3> QED BY <1>9, <3>1, <3>2
  <2>3. ASSUME NEW a \in DOMAIN ret', NEW b \in DOMAIN ret',
               ret'[a].src = ret'[b].dst, ret'[a].src # ret'[a].dst
        PROVE  a < b
    <3>1. CASE a \in 1 .. n /\ b \in 1 .. n
      <4>1. parallel_moves[stack[a]].src = parallel_moves[stack[b]].dst
        BY <1>8, <2>3, <3>1
      <4>2. CASE a = n
        <5>1. stack[b] = next
          BY <1>3, <1>4, <3>1, <4>1, <4>2
        <5> QED BY <1>2, <1>4, <3>1, <5>1 DEF NONE
      <4>3. CASE a # n
        <5>1. a \in 1 .. n - 1 /\ a + 1 \in 1 .. n
          BY <1>4, <3>1, <4>3
        <5>2. parallel_moves[stack[a]].src = parallel_moves[stack[a + 1]].dst
          BY <1>1, <5>1 DEF StackIsChain, n
        <5>3. b = a + 1
          <6>1. /\ stack[b] \in DOMAIN parallel_moves /\ stack[a + 1] \in DOMAIN parallel_moves
                /\ parallel_moves[stack[b]].dst = parallel_moves[stack[a + 1]].dst
            BY <1>4, <3>1, <4>1, <5>1, <5>2
          <6>2. stack[b] = stack[a + 1]
            BY <1>1, <6>1 DEF MovesMatch
          <6> QED BY <1>4, <3>1, <5>1, <6>2
        <5> QED BY <5>1, <5>3
      <4> QED BY <4>2, <4>3
    <3>2. CASE a \in 1 .. n /\ b \in n + 1 .. n + r
      BY <1>4, <1>7, <3>2
    <3>3. CASE a \in n + 1 .. n + r /\ b \in 1 .. n
      <4>1. PICK i \in Done : ret'[a] = parallel_moves[i]
        BY <1>8, <1>13, <3>3 DEF PlacedInOrder
      <4>2. parallel_moves[stack[b]].dst = parallel_moves[i].src
        BY <1>8, <2>3, <3>3, <4>1
      <4>3. stack[b] \in Done
        BY <1>1, <1>4, <3>3, <4>2 DEF DoneClosed
      <4> QED BY <1>12, <3>3, <4>3
    <3>4. CASE a \in n + 1 .. n + r /\ b \in n + 1 .. n + r
      <4>1. a - n < b - n
        BY <1>8, <1>13, <2>3, <3>4 DEF PlacedInOrder
      <4> QED BY <1>4, <1>7, <3>4, <4>1
    <3> QED BY <1>9, <3>1, <3>2, <3>3, <3>4
  <2> QED BY Zenon, <2>1, <2>2, <2>3, <1>2 DEF PlacedInOrder
<1>14. \A l : CycleFrom(l)' <=> CycleFrom(l)
  BY <1>2 DEF CycleFrom
<1> QED BY <1>2, <1>13, <1>14 DEF ScratchExact

-----------------------------------------------------------------------------
(* Moves that can be put in order without a scratch location form no       *)
(* cycle: from one move to the writer of its source the position grows.    *)
LEMMA OrderedHasNoCycle ==
    ASSUME WalkInv, Resolved, PlacedInOrder, NEW l \in DOMAIN group
    PROVE  ~CycleFrom(l)
<1> SUFFICES ASSUME CycleFrom(l) PROVE FALSE
  OBVIOUS
<1>1. MovesMatch /\ group \in Groups /\ TypeOK
  BY DEF WalkInv, MovesMatch
<1>2. l \in Loc /\ DOMAIN group \subseteq Loc /\ NoLoc \notin DOMAIN group
  <2>1. DOMAIN group \subseteq Loc
    BY <1>1 DEF Groups
  <2> QED BY <2>1, LocAssumption DEF NoLoc
<1> DEFINE N == Cardinality(Loc)
<1>3. PICK at : Follows(at, l) /\ (CycleFrom(l) <=> group[l] # l /\ Returns(at, l))
  BY <1>1, <1>2, CycleRecursion
<1>4. N \in Nat /\ group[l] # l /\ Returns(at, l)
  BY <1>1, <1>2, <1>3, CycleRecursion
<1>5. PICK last \in 1 .. N : at[last] = l
  BY <1>4 DEF Returns
<1>6. at[0] = l /\ \A n \in 1 .. N :
          at[n] = IF at[n - 1] \in DOMAIN group THEN group[at[n - 1]] ELSE NoLoc
  BY <1>3 DEF Follows
<1>7. \A x \in DOMAIN group : group[x] # x => \E a \in DOMAIN ret : ret[a].dst = x
  BY <1>1, AllPlaced DEF MovesMatch, PlacedInOrder
<1>8. \A a \in DOMAIN ret : ret[a].dst \in DOMAIN group /\ ret[a].src = group[ret[a].dst]
  BY <1>1, AllPlaced DEF MovesMatch, PlacedInOrder
<1>9. \A a, b \in DOMAIN ret : ret[a].src = ret[b].dst /\ ret[a].src # ret[a].dst => a < b
  BY DEF PlacedInOrder
<1>10. DOMAIN ret \subseteq Nat
  BY <1>1 DEF TypeOK
<1> DEFINE Moves(x) == x \in DOMAIN group /\ group[x] # x
           After(x) == \A a, b \in DOMAIN ret : ret[a].dst = l /\ ret[b].dst = x => a < b
           S == {k \in 0 .. N : k = 0 \/ (Moves(at[k]) => After(at[k]))}
<1>11. 0 \in S
  BY <1>4
<1>12. ASSUME NEW k \in 0 .. N, k \in S, k < N PROVE k + 1 \in S
  <2>1. k + 1 \in 1 .. N /\ (k + 1) - 1 = k /\ k + 1 \in 0 .. N
    BY <1>4, <1>12
  <2>2. at[k + 1] = IF at[k] \in DOMAIN group THEN group[at[k]] ELSE NoLoc
    BY <1>6, <2>1
  <2>3. ASSUME Moves(at[k + 1]) PROVE After(at[k + 1])
    <3>1. at[k] \in DOMAIN group /\ at[k + 1] = group[at[k]] /\ group[at[k]] # at[k]
      BY <1>2, <2>2, <2>3
    <3> SUFFICES ASSUME NEW a \in DOMAIN ret, NEW c \in DOMAIN ret,
                        ret[a].dst = l, ret[c].dst = at[k + 1]
                 PROVE  a < c
      OBVIOUS
    <3>2. CASE k = 0
      <4>1. ret[a].src = ret[c].dst /\ ret[a].src # ret[a].dst
        BY <1>4, <1>6, <1>8, <3>1, <3>2
      <4> QED BY <1>9, <4>1
    <3>3. CASE k # 0
      <4>1. PICK b \in DOMAIN ret : ret[b].dst = at[k]
        BY <1>7, <3>1
      <4>2. a < b
        BY <1>12, <3>1, <3>3, <4>1
      <4>3. ret[b].src = ret[c].dst /\ ret[b].src # ret[b].dst
        BY <1>8, <3>1, <4>1
      <4>4. b < c
        BY <1>9, <4>3
      <4>5. a \in Nat /\ b \in Nat /\ c \in Nat
        BY <1>10
      <4> QED BY <4>2, <4>4, <4>5
    <3> QED BY <3>2, <3>3
  <2> QED BY <2>1, <2>3
<1> HIDE DEF S, N
<1>13. 0 .. N \subseteq S
  BY <1>4, <1>11, <1>12, PrefixInduction
<1>14. After(l)
  <2>1. last \in S /\ last # 0
    BY <1>4, <1>5, <1>13
  <2>2. Moves(at[last]) => After(at[last])
    BY <2>1 DEF S
  <2> QED BY <1>4, <1>5, <2>2
<1>15. PICK a \in DOMAIN ret : ret[a].dst = l
  BY <1>4, <1>7
<1>16. a < a /\ a \in Nat
  BY <1>10, <1>14, <1>15
<1> QED BY <1>16

(* Before the first group nothing is placed. *)
LEMMA InitScratch == Init => IInv
<1> SUFFICES ASSUME Init PROVE IInv
  OBVIOUS
<1>1. WalkInv
  BY InitWalk
<1>2. DOMAIN ret = {} /\ Done = {} /\ scratch_used = FALSE
  BY DEF Init, Done
<1> QED BY <1>1, <1>2 DEF IInv, ScratchExact, PlacedInOrder

(* The inductive invariant: every step either keeps the order or has found *)
(* a cycle.                                                                *)
LEMMA NextScratch == IInv /\ [Next]_pvars => IInv'
<1> SUFFICES ASSUME WalkInv, ScratchExact, [Next]_pvars PROVE ScratchExact'
  BY NextWalk DEF IInv
<1>1. TypeOK /\ MovesMatch
  BY DEF WalkInv
<1>2. ASSUME NEW g \in Groups \ {NoMoves}, Start(g) PROVE ScratchExact'
  BY <1>2, StartScratch
<1>3. CASE Root
  BY <1>1, <1>3, RootScratch
<1>4. CASE Descend
  BY <1>1, <1>4, DescendScratch
<1>5. CASE Unwind
  BY <1>5, UnwindScratch
<1>6. CASE BreakCycle
  <2>1. \E l \in DOMAIN group : CycleFrom(l)
    BY <1>6, BreakCycleScratch
  <2>2. scratch_used' = TRUE /\ group' = group
    BY <1>6 DEF BreakCycle
  <2>3. \A l : CycleFrom(l)' <=> CycleFrom(l)
    BY <2>2 DEF CycleFrom
  <2> QED BY <2>1, <2>2, <2>3 DEF ScratchExact
<1>7. CASE UNCHANGED pvars
  <2>1. \A l : CycleFrom(l)' <=> CycleFrom(l)
    BY <1>7 DEF CycleFrom, pvars
  <2> QED BY <1>7, <2>1 DEF pvars, ScratchExact, PlacedInOrder, Done
<1> QED BY <1>2, <1>3, <1>4, <1>5, <1>6, <1>7 DEF Next, Step

(* It holds in every execution. *)
LEMMA ScratchInvariant == Spec => []IInv
BY InitScratch, NextScratch, PTL DEF Spec

(* `resolve` uses the scratch location exactly for the groups that have a  *)
(* cycle of more than one location, over any finite set of locations.      *)
THEOREM ScratchCorrect == Spec => []ScratchOnlyForCycles
<1>1. IInv => ScratchOnlyForCycles
  <2> SUFFICES ASSUME WalkInv, ScratchExact, Resolved
               PROVE  scratch_used <=> \E l \in DOMAIN group : CycleFrom(l)
    BY DEF IInv, ScratchOnlyForCycles
  <2>1. CASE scratch_used
    BY <2>1 DEF ScratchExact
  <2>2. CASE ~scratch_used
    <3>1. PlacedInOrder
      BY <2>2 DEF ScratchExact
    <3> QED BY <2>2, <3>1, OrderedHasNoCycle
  <2> QED BY <2>1, <2>2
<1> QED BY <1>1, ScratchInvariant, PTL

-----------------------------------------------------------------------------
(* A move that names only locations of the group g and the scratch one. *)
Named(g) == [src : Range(g) \cup {NoLoc}, dst : DOMAIN g \cup {NoLoc}]

(* The result names no location that the group does not name. *)
NamesGroup == ret \in Seq(Named(group))

(* The moves of a group name what the group names. *)
LEMMA MovesNamed ==
    ASSUME MovesMatch, NEW i \in DOMAIN parallel_moves
    PROVE  /\ parallel_moves[i].src \in Range(group) /\ parallel_moves[i].dst \in DOMAIN group
           /\ parallel_moves[i] \in Move => parallel_moves[i] \in Named(group)
<1>1. /\ parallel_moves[i].dst \in DOMAIN group
      /\ parallel_moves[i].src = group[parallel_moves[i].dst]
  BY DEF MovesMatch
<1>2. parallel_moves[i].src \in Range(group)
  BY <1>1 DEF Range
<1> QED BY <1>1, <1>2 DEF Move, Named

(* A new group starts with no result, or with its own moves. *)
LEMMA StartNames ==
    ASSUME NEW g \in Groups, Start(g)
    PROVE  NamesGroup'
<1>1. WalkInv'
  BY StartWalk
<1>2. group' = g /\ (ret' = <<>> \/ ret' = parallel_moves')
  BY DEF Start
<1>3. parallel_moves' \in Seq(Move)
  BY <1>1 DEF WalkInv, TypeOK
<1>4. ASSUME NEW i \in DOMAIN parallel_moves' PROVE parallel_moves'[i] \in Named(group')
  <2>1. /\ parallel_moves'[i].dst \in DOMAIN group'
        /\ parallel_moves'[i].src = group'[parallel_moves'[i].dst]
    BY <1>1 DEF WalkInv, MovesMatch
  <2>2. parallel_moves'[i].src \in Range(group')
    BY <2>1 DEF Range
  <2>3. parallel_moves'[i] \in Move
    BY <1>3
  <2> QED BY <2>1, <2>2, <2>3 DEF Move, Named
<1>5. parallel_moves' \in Seq(Named(group'))
  BY <1>3, <1>4
<1>6. <<>> \in Seq(Named(group'))
  OBVIOUS
<1>7. ret' \in Seq(Named(group'))
  BY Zenon, <1>2, <1>5, <1>6
<1> QED BY <1>7 DEF NamesGroup, Named, Range, NoLoc

(* Every iteration of the loop adds moves of the group, or the two ends of *)
(* a broken cycle.                                                         *)
LEMMA StepNames ==
    ASSUME WalkInv, NamesGroup, Step
    PROVE  NamesGroup'
<1>1. TypeOK /\ MovesMatch
  BY DEF WalkInv
<1>2. \A i \in DOMAIN parallel_moves : parallel_moves[i] \in Named(group)
  <2>1. \A i \in DOMAIN parallel_moves : parallel_moves[i] \in Move
    BY <1>1 DEF TypeOK
  <2> QED BY <1>1, <2>1, MovesNamed
<1>3. ASSUME NEW s \in Seq(DOMAIN parallel_moves) PROVE MovesAt(s) \in Seq(Named(group))
  <2>1. \A k \in 1 .. Len(s) : s[k] \in DOMAIN parallel_moves
    OBVIOUS
  <2>2. MovesAt(s) = [k \in 1 .. Len(s) |-> parallel_moves[s[k]]]
    BY DEF MovesAt
  <2> QED BY <1>2, <2>1, <2>2
<1>4. stack \in Seq(DOMAIN parallel_moves)
  BY <1>1 DEF TypeOK
<1>5. CASE Root \/ Descend
  BY <1>5 DEF Root, Descend, NamesGroup
<1>6. CASE Unwind
  <2>1. ret' = MovesAt(stack) \o ret /\ group' = group
    BY <1>6 DEF Unwind
  <2>2. MovesAt(stack) \in Seq(Named(group)) /\ ret \in Seq(Named(group))
    BY <1>3, <1>4 DEF NamesGroup
  <2> QED BY <2>1, <2>2 DEF NamesGroup
<1>7. CASE BreakCycle
  <2> DEFINE first == CHOOSE k \in DOMAIN stack : stack[k] = next
             last == parallel_moves[top]
             save == [src |-> last.src, dst |-> NoLoc]
             restore == [src |-> NoLoc, dst |-> last.dst]
             c == SubSeq(stack, first, Len(stack) - 1)
  <2>1. /\ stack # <<>> /\ next # NONE /\ state[next] = "Pending"
        /\ ret' = <<save>> \o MovesAt(c) \o <<restore>> \o ret /\ group' = group
    BY <1>7 DEF BreakCycle
  <2>2. /\ Len(stack) \in 1 .. Len(stack) /\ top \in DOMAIN parallel_moves
        /\ next \in DOMAIN parallel_moves
    BY <1>1, <2>1, NextFacts
  <2>3. first \in 1 .. Len(stack)
    BY Zenon, <1>1, <2>1, <2>2, StackFacts
  <2>4. c \in Seq(DOMAIN parallel_moves)
    <3>1. Len(stack) - 1 \in first - 1 .. Len(stack)
      BY <2>2, <2>3
    <3> HIDE DEF first
    <3> QED BY <1>4, <2>3, <3>1, SubSeqFacts
  <2>5. MovesAt(c) \in Seq(Named(group))
    BY Zenon, <1>3, <2>4
  <2>6. save \in Named(group) /\ restore \in Named(group)
    BY <1>1, <2>2, MovesNamed DEF Named
  <2>7. ret \in Seq(Named(group))
    BY DEF NamesGroup
  <2> HIDE DEF save, restore, c
  <2>8. ret' \in Seq(Named(group))
    BY <2>1, <2>5, <2>6, <2>7
  <2> QED BY <2>1, <2>8 DEF NamesGroup
<1> QED BY <1>5, <1>6, <1>7 DEF Step

-----------------------------------------------------------------------------
(* What a caller of the resolver may rely on, at every point of the walk.  *)
ResolverInv == WalkInv /\ ScratchExact /\ NamesGroup

(* From the contents val of the cells the result, done one move at a time, *)
(* leads to cells that hold what the group moves there.                    *)
Delivers(val, W) ==
    \E v : /\ Runs(v, ret, val, W)
          /\ \A l \in Loc : v[Len(ret)][l] = val[IF l \in DOMAIN group THEN group[l] ELSE l]

(* The group without moves is a group. *)
LEMMA NoMovesIsGroup == NoMoves \in Groups
<1>1. <<>> \in [{} -> Loc]
  OBVIOUS
<1> QED BY Zenon, <1>1 DEF NoMoves, Groups

(* A resolver starts with the invariant. *)
LEMMA StartResolver ==
    ASSUME NEW g \in Groups, Start(g)
    PROVE  ResolverInv'
BY StartWalk, StartScratch, StartNames DEF ResolverInv

(* So does one that was given nothing yet. *)
LEMMA InitResolver ==
    ASSUME Init
    PROVE  ResolverInv
<1>1. WalkInv /\ ScratchExact
  BY InitScratch DEF IInv
<1>2. ret = <<>>
  BY DEF Init
<1>3. <<>> \in Seq(Named(group))
  OBVIOUS
<1> QED BY <1>1, <1>2, <1>3 DEF ResolverInv, NamesGroup

(* Every iteration of its loop keeps it. *)
LEMMA StepResolver ==
    ASSUME ResolverInv, Step
    PROVE  ResolverInv'
<1>1. IInv /\ [Next]_pvars
  BY DEF ResolverInv, IInv, Next
<1>2. IInv'
  BY <1>1, NextScratch
<1>3. NamesGroup'
  BY StepNames DEF ResolverInv
<1> QED BY <1>2, <1>3 DEF IInv, ResolverInv

(* A resolver that nobody calls keeps it. *)
LEMMA IdleResolver ==
    ASSUME ResolverInv, UNCHANGED pvars
    PROVE  ResolverInv'
<1>1. IInv /\ [Next]_pvars
  BY DEF ResolverInv, IInv
<1>2. IInv'
  BY <1>1, NextScratch
<1>3. NamesGroup'
  BY DEF ResolverInv, NamesGroup, pvars
<1> QED BY <1>2, <1>3 DEF IInv, ResolverInv

(* The result of the resolver, whatever the cells hold. *)
LEMMA ResolverDelivers ==
    ASSUME ResolverInv, Resolved, NEW W, NEW val \in [Cell -> W]
    PROVE  Delivers(val, W)
<1>1. ret \in Seq(AnyMove)
  BY DEF ResolverInv, WalkInv, TypeOK, AnyMove, Cell
<1>2. PICK v : Runs(v, ret, val, W) /\ Perform(ret, val) = v[Len(ret)]
  BY Zenon, <1>1, PerformRecursion
<1>3. Composes(ret, val)
  BY Zenon, <1>1, PerformComposes
<1>4. ResolvedInParallel
  BY WalkResolves DEF ResolverInv
<1>5. ASSUME NEW l \in Loc
      PROVE  v[Len(ret)][l] = val[IF l \in DOMAIN group THEN group[l] ELSE l]
  <2>1. Perform(ret, Untouched)[l] = IF l \in DOMAIN group THEN group[l] ELSE l
    BY <1>4 DEF ResolvedInParallel
  <2>2. Perform(ret, val)[l] = val[Perform(ret, Untouched)[l]]
    BY <1>3 DEF Composes, Cell
  <2> QED BY <1>2, <2>1, <2>2
<1> QED BY <1>2, <1>5 DEF Delivers

(* The types of the result, and the scratch location only where a cycle    *)
(* was broken.                                                             *)
LEMMA ResolverNames ==
    ASSUME ResolverInv
    PROVE  /\ TypeOK /\ ret \in Seq(AnyMove) /\ scratch_used \in BOOLEAN
           /\ group \in Groups /\ ret \in Seq(Named(group))
           /\ ~scratch_used => \A n \in DOMAIN ret : ret[n].src # NoLoc /\ ret[n].dst # NoLoc
<1>1. TypeOK /\ group \in Groups
  BY DEF ResolverInv, WalkInv, MovesMatch
<1>2. ret \in Seq(AnyMove) /\ scratch_used \in BOOLEAN /\ parallel_moves \in Seq(Move)
  BY <1>1 DEF TypeOK, AnyMove, Cell
<1>3. ASSUME ~scratch_used, NEW n \in DOMAIN ret
      PROVE  ret[n].src # NoLoc /\ ret[n].dst # NoLoc
  <2>1. PICK i \in Done : ret[n] = parallel_moves[i]
    BY <1>3 DEF ResolverInv, ScratchExact, PlacedInOrder
  <2>2. parallel_moves[i] \in Move
    BY <1>2, <2>1 DEF Done
  <2> QED BY <2>1, <2>2, LocAssumption DEF Move, NoLoc
<1>4. ret \in Seq(Named(group))
  BY DEF ResolverInv, NamesGroup
<1> QED BY <1>1, <1>2, <1>3, <1>4
=============================================================================
