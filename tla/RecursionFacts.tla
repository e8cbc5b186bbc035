--------------------------- MODULE RecursionFacts ---------------------------
(***************************************************************************)
(* Induction on the natural numbers and recursively defined functions, in  *)
(* first-order form: the predicate is a set, the step of a recursion is a  *)
(* function.  The proofs about operators that a module defines by          *)
(* recursion over a prefix 0 .. N rest on these.                           *)
(***************************************************************************)
EXTENDS Integers, WellFoundedInduction, TLAPS

(* A non-empty set of natural numbers has a least element. *)
LEMMA NatMin ==
    ASSUME NEW S \in SUBSET Nat, S # {}
    PROVE  \E m \in S : \A k \in S : m <= k
<1> DEFINE R == {ss \in Nat \X Nat : ss[1] < ss[2]}
<1>1. IsWellFoundedOn(R, Nat)
  BY NatLessThanWellFounded, Zenon DEF OpToRel
<1> HIDE DEF R
<1>2. PICK m \in S : \A k \in S : ~(<<k, m>> \in R)
  BY WFMin, <1>1, Zenon
<1>3. \A k \in S : ~(k < m)
  BY Zenon, <1>2 DEF R
<1>4. \A k \in S : k \in Int /\ m \in Int
  OBVIOUS
<1> QED BY <1>2, <1>3, <1>4

(* Induction over 0 .. N: a set with 0 that is closed under successors up  *)
(* to N has all of 0 .. N.                                                 *)
LEMMA PrefixInduction ==
    ASSUME NEW N \in Nat, NEW S,
           0 \in S,
           \A n \in 0 .. N : n \in S /\ n < N => n + 1 \in S
    PROVE  0 .. N \subseteq S
<1> DEFINE Missing == (0 .. N) \ S
<1> SUFFICES ASSUME Missing # {} PROVE FALSE
  OBVIOUS
<1>0. Missing \in SUBSET Nat
  OBVIOUS
<1>1. PICK m \in Missing : \A k \in Missing : m <= k
  <2> HIDE DEF Missing
  <2> QED BY NatMin, <1>0
<1>2. m # 0 /\ m - 1 \in 0 .. N /\ m - 1 < N
  BY <1>1
<1>3. m - 1 \in S
  BY <1>1, <1>2
<1>4. (m - 1) + 1 = m
  BY <1>1
<1> QED BY <1>1, <1>2, <1>3, <1>4

(* A step of a recursion over 0 .. N maps values to values. *)
IsStep(step, N, V) == step \in [1 .. N -> [V -> V]]

(* f is the recursion over 0 .. N that starts at v0 and takes step[n] at n. *)
IsRecursion(f, step, N, V, v0) ==
    /\ f \in [0 .. N -> V]
    /\ f[0] = v0
    /\ \A n \in 1 .. N : f[n] = step[n][f[n - 1]]

(* Every recursion has a solution. *)
LEMMA RecursionExists ==
    ASSUME NEW V, NEW v0 \in V, NEW N \in Nat, NEW step, IsStep(step, N, V)
    PROVE  \E f : IsRecursion(f, step, N, V, v0)
<1> USE DEF IsStep
<1> DEFINE Solves(f, m) == /\ f[0] = v0
                           /\ \A n \in 1 .. m : f[n] = step[n][f[n - 1]]
           S == {m \in 0 .. N : \E f \in [0 .. m -> V] : Solves(f, m)}
<1>1. 0 \in S
  <2> DEFINE g == [i \in 0 .. 0 |-> v0]
  <2>1. g \in [0 .. 0 -> V]
    OBVIOUS
  <2>2. Solves(g, 0)
    OBVIOUS
  <2> HIDE DEF g
  <2> QED BY <2>1, <2>2
<1>2. ASSUME NEW m \in 0 .. N, m \in S, m < N PROVE m + 1 \in S
  <2>1. PICK f \in [0 .. m -> V] : Solves(f, m)
    BY <1>2
  <2> DEFINE next == step[m + 1][f[m]]
             g == [i \in 0 .. m + 1 |-> IF i = m + 1 THEN next ELSE f[i]]
  <2>2. next \in V
    <3>1. f[m] \in V /\ m + 1 \in 1 .. N BY <1>2, <2>1
    <3> QED BY <3>1
  <2>3. g \in [0 .. m + 1 -> V]
    BY <2>1, <2>2
  <2>4. g[0] = v0
    BY <2>1
  <2>5. ASSUME NEW n \in 1 .. m + 1 PROVE g[n] = step[n][g[n - 1]]
    <3>1. CASE n = m + 1
      <4>1. g[n] = next /\ n - 1 = m /\ g[m] = f[m] BY <3>1
      <4> QED BY <4>1, <3>1
    <3>2. CASE n # m + 1
      <4>1. n \in 1 .. m /\ g[n] = f[n] /\ g[n - 1] = f[n - 1] BY <3>2
      <4> QED BY <4>1, <2>1
    <3> QED BY <3>1, <3>2
  <2>6. m + 1 \in 0 .. N BY <1>2
  <2> HIDE DEF g
  <2> QED BY Zenon, <2>3, <2>4, <2>5, <2>6
<1> HIDE DEF S
<1>3. 0 .. N \subseteq S
  BY Zenon, <1>1, <1>2, PrefixInduction
<1>4. N \in S
  BY <1>3
<1> QED BY <1>4 DEF S, IsRecursion
=============================================================================
