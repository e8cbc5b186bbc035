-------------------------- MODULE MoveScratchProofs -------------------------
(***************************************************************************)
(* `MoveAndScratchResolver::compute` returns moves that do what the moves  *)
(* it was given do, none of them from the stack to the stack.  The         *)
(* invariant of its loop (Simulates) relates two machines: one that has    *)
(* done the moves so far, and one that has done the output so far.         *)
(***************************************************************************)
EXTENDS MoveScratch, RecursionFacts

(* A machine whose locations hold values of W, one move on it, and the     *)
(* moves of s done one at a time.                                          *)
Machine(W) == [Alloc -> W]
Copied(v, m) == [v EXCEPT ![m.dst] = v[m.src]]

Run(w, s, W, from, to) ==
    /\ w \in [0 .. Len(s) -> Machine(W)]
    /\ w[0] = from /\ w[Len(s)] = to
    /\ \A n \in 1 .. Len(s) : w[n] = Copied(w[n - 1], s[n])

Reaches(s, W, from, to) == \E w : Run(w, s, W, from, to)

-----------------------------------------------------------------------------
(* One move writes its destination and nothing else. *)
LEMMA CopiedFacts ==
    ASSUME NEW W, NEW v \in Machine(W), NEW m \in Edit
    PROVE  /\ Copied(v, m) \in Machine(W) /\ m.src \in Alloc /\ m.dst \in Alloc
           /\ \A a \in Alloc : Copied(v, m)[a] = IF a = m.dst THEN v[m.src] ELSE v[a]
BY DEF Copied, Machine, Edit

(* No moves lead nowhere else. *)
LEMMA ReachesNothing ==
    ASSUME NEW W, NEW v \in Machine(W)
    PROVE  Reaches(<<>>, W, v, v)
<1> DEFINE w == [n \in 0 .. 0 |-> v]
           s == <<>>
<1>1. Len(s) = 0
  OBVIOUS
<1> HIDE DEF s
<1>2. w \in [0 .. Len(s) -> Machine(W)] /\ w[0] = v /\ w[Len(s)] = v
  BY <1>1
<1>3. \A n \in 1 .. Len(s) : w[n] = Copied(w[n - 1], s[n])
  BY <1>1
<1> HIDE DEF w
<1>4. Reaches(s, W, v, v)
  BY <1>2, <1>3 DEF Reaches, Run
<1> QED BY <1>4 DEF s

(* One move more. *)
LEMMA ReachesAppend ==
    ASSUME NEW s \in Seq(Edit), NEW m \in Edit, NEW W, NEW v, NEW x, Reaches(s, W, v, x)
    PROVE  x \in Machine(W) /\ Reaches(Append(s, m), W, v, Copied(x, m))
<1>1. PICK w : Run(w, s, W, v, x)
  BY DEF Reaches
<1> DEFINE N == Len(s)
           t == Append(s, m)
           u == [n \in 0 .. N + 1 |-> IF n = N + 1 THEN Copied(x, m) ELSE w[n]]
<1>2. /\ N \in Nat /\ w \in [0 .. N -> Machine(W)] /\ w[0] = v /\ w[N] = x
      /\ \A n \in 1 .. N : w[n] = Copied(w[n - 1], s[n])
  BY <1>1 DEF Run
<1>3. Len(t) = N + 1 /\ t[N + 1] = m /\ \A n \in 1 .. N : t[n] = s[n]
  OBVIOUS
<1> HIDE DEF N, t
<1>4. x \in Machine(W)
  BY <1>2
<1>5. Copied(x, m) \in Machine(W)
  BY <1>4, CopiedFacts
<1>6. u \in [0 .. N + 1 -> Machine(W)] /\ u[0] = v /\ u[N + 1] = Copied(x, m)
  BY <1>2, <1>5
<1>7. ASSUME NEW n \in 1 .. N + 1 PROVE u[n] = Copied(u[n - 1], t[n])
  <2>1. CASE n = N + 1
    <3>1. u[n] = Copied(x, m) /\ u[n - 1] = x /\ t[n] = m
      BY <1>2, <1>3, <2>1
    <3> QED BY <3>1
  <2>2. CASE n # N + 1
    <3>1. n \in 1 .. N /\ u[n] = w[n] /\ u[n - 1] = w[n - 1] /\ t[n] = s[n]
      BY <1>2, <1>3, <2>2
    <3> QED BY <1>2, <3>1
  <2> QED BY <2>1, <2>2
<1> HIDE DEF u
<1>8. Run(u, t, W, v, Copied(x, m))
  BY <1>3, <1>6, <1>7 DEF Run
<1> QED BY <1>4, <1>8 DEF Reaches, t

(* The first move done, the others remain. *)
LEMMA ReachesTail ==
    ASSUME NEW s \in Seq(Edit), s # <<>>, NEW W, NEW v, NEW x, Reaches(s, W, v, x)
    PROVE  Reaches(Tail(s), W, Copied(v, Head(s)), x)
<1>1. PICK w : Run(w, s, W, v, x)
  BY DEF Reaches
<1> DEFINE N == Len(s) - 1
           t == Tail(s)
           u == [n \in 0 .. N |-> w[n + 1]]
<1>2. /\ N \in Nat /\ w \in [0 .. N + 1 -> Machine(W)] /\ w[0] = v /\ w[N + 1] = x
      /\ \A n \in 1 .. N + 1 : w[n] = Copied(w[n - 1], s[n])
  BY <1>1 DEF Run
<1>3. Len(t) = N /\ Head(s) = s[1] /\ \A n \in 1 .. N : t[n] = s[n + 1]
  OBVIOUS
<1> HIDE DEF N, t
<1>4. w[1] = Copied(v, Head(s))
  <2>1. 1 \in 1 .. N + 1 /\ 1 - 1 = 0
    BY <1>2
  <2> QED BY <1>2, <1>3, <2>1
<1>5. u \in [0 .. N -> Machine(W)] /\ u[0] = Copied(v, Head(s)) /\ u[N] = x
  BY <1>2, <1>4
<1>6. ASSUME NEW n \in 1 .. N PROVE u[n] = Copied(u[n - 1], t[n])
  <2>1. u[n] = w[n + 1] /\ u[n - 1] = w[n] /\ t[n] = s[n + 1] /\ n + 1 \in 1 .. N + 1
        /\ (n + 1) - 1 = n
    BY <1>2, <1>3
  <2> QED BY <1>2, <2>1
<1> HIDE DEF u
<1>7. Run(u, t, W, Copied(v, Head(s)), x)
  BY <1>3, <1>5, <1>6 DEF Run
<1> QED BY <1>7 DEF Reaches, t

(* Nothing is left: the machine is the one to be reached. *)
LEMMA ReachesEnd ==
    ASSUME NEW W, NEW v, NEW x, Reaches(<<>>, W, v, x)
    PROVE  v = x
<1> DEFINE s == <<>>
<1>1. Len(s) = 0
  OBVIOUS
<1> HIDE DEF s
<1>2. Reaches(s, W, v, x)
  BY DEF s
<1> QED BY <1>1, <1>2 DEF Reaches, Run
-----------------------------------------------------------------------------
(* An edit that is not from the stack to the stack. *)
RegEdit == {m \in Edit : ~IsStackToStack(m)}

(* What the loop over the moves keeps. *)
Acc == [out : Seq(RegEdit), scratch_dirty : BOOLEAN, save_dirty : BOOLEAN]

(* The location that the moves must not name: the slot in which the        *)
(* borrowed register is saved, or the free register.                       *)
reserved == IF borrowed THEN save_slot ELSE scratch_reg
Avoids(m, a) == m.src # a /\ m.dst # a

(* The machine w, after the output so far, and the machine u, after the    *)
(* moves so far, differ at most in the scratch register and the save slot. *)
Simulates(acc, w, u) ==
    IF borrowed
    THEN /\ acc.scratch_dirty => ~acc.save_dirty
         /\ \A a \in Alloc \ {scratch_reg, save_slot} : w[a] = u[a]
         /\ ~acc.scratch_dirty => w[scratch_reg] = u[scratch_reg]
         /\ ~acc.save_dirty => w[save_slot] = u[scratch_reg]
    ELSE \A a \in Alloc \ {scratch_reg} : w[a] = u[a]

FreeTyped == free_regs \in Seq(Regs \cup Dedicated)

(* The scratch register is a register, and the save slot is a slot. *)
LEMMA ScratchFacts ==
    ASSUME FreeTyped
    PROVE  /\ scratch_reg \in Regs \cup Dedicated /\ scratch_reg \in Alloc
           /\ scratch_reg \notin Stack
           /\ save_slot \in Extra /\ save_slot \in Alloc /\ save_slot # scratch_reg
           /\ borrowed \in BOOLEAN
<1>1. still_free \in Seq(Regs \cup Dedicated)
  BY DEF FreeTyped, still_free
<1>2. scratch_reg \in Regs \cup Dedicated
  BY <1>1, ScratchAssumption DEF scratch_reg, borrowed
<1>3. scratch_reg \in Alloc /\ scratch_reg \notin Stack
  BY <1>2, ScratchAssumption DEF Alloc, Loc
<1>4. ExtraSlots[1] \in Extra /\ ExtraSlots[2] \in Extra
  BY ScratchAssumption DEF Extra
<1>5. save_slot \in Extra /\ save_slot \in Stack /\ save_slot \in Alloc
  BY <1>4 DEF save_slot, Stack, Alloc
<1>6. borrowed \in BOOLEAN
  BY DEF borrowed
<1> QED BY <1>2, <1>3, <1>5, <1>6

(* Concatenations with short sequences. *)
LEMMA AppendForms ==
    ASSUME NEW S, NEW s \in Seq(S), NEW a \in S, NEW b \in S, NEW c \in S
    PROVE  /\ s \o <<>> \o <<a>> = Append(s, a)
           /\ s \o <<a>> \o <<b>> = Append(Append(s, a), b)
           /\ s \o <<>> \o <<a, b>> = Append(Append(s, a), b)
           /\ s \o <<a>> \o <<b, c>> = Append(Append(Append(s, a), b), c)
<1>1. s \o <<>> = s /\ s \o <<a>> = Append(s, a)
  OBVIOUS
<1>2. \A t \in Seq(S) : t \o <<b>> = Append(t, b)
  OBVIOUS
<1>3. \A t \in Seq(S) : t \o <<a, b>> = Append(Append(t, a), b)
  OBVIOUS
<1>4. \A t \in Seq(S) : t \o <<b, c>> = Append(Append(t, b), c)
  OBVIOUS
<1>5. Append(s, a) \in Seq(S)
  OBVIOUS
<1> QED BY Zenon, <1>1, <1>2, <1>3, <1>4, <1>5

(* A move of the machine is an edit. *)
LEMMA MvFacts ==
    ASSUME NEW a \in Alloc, NEW b \in Alloc
    PROVE  /\ Mv(a, b) \in Edit /\ Mv(a, b).src = a /\ Mv(a, b).dst = b
           /\ a \notin Stack \/ b \notin Stack => Mv(a, b) \in RegEdit
BY DEF Mv, Edit, RegEdit, IsStackToStack

(* A sequence of edits of the output is one of edits. *)
LEMMA RegEdits == Seq(RegEdit) \subseteq Seq(Edit) /\ RegEdit \subseteq Edit
BY DEF RegEdit

(* The machine z is v with the contents of x in y as well. *)
Wrote(v, z, x, y, W) ==
    /\ z \in Machine(W)
    /\ \A a \in Alloc : z[a] = IF a = y THEN v[x] ELSE v[a]

(* One edit of the output, by its source and its destination. *)
LEMMA CopiedReg ==
    ASSUME NEW W, NEW v \in Machine(W), NEW m \in RegEdit
    PROVE  Wrote(v, Copied(v, m), m.src, m.dst, W)
BY CopiedFacts DEF RegEdit, Wrote

(* The output so far does to the machine v what the moves so far do.       *)
Follows(acc, W, v, u) ==
    \E w \in Machine(W) : Reaches(acc.out, W, v, w) /\ Simulates(acc, w, u)

(* A move from the stack to the stack goes through the scratch register,   *)
(* which is saved before it is written for the first time.                 *)
LEMMA StackStep ==
    ASSUME FreeTyped, NEW acc \in Acc, NEW m \in Edit, Avoids(m, reserved),
           IsStackToStack(m), NEW W, NEW v, NEW u \in Machine(W), Follows(acc, W, v, u)
    PROVE  ThroughScratch(acc, m) \in Acc /\ Follows(ThroughScratch(acc, m), W, v, Copied(u, m))
<1> DEFINE r  == scratch_reg
           p  == save_slot
           to == Mv(m.src, r)
           fr == Mv(r, m.dst)
           sv == Mv(r, p)
           u2 == Copied(u, m)
           next == ThroughScratch(acc, m)
<1>1. PICK w \in Machine(W) : Reaches(acc.out, W, v, w) /\ Simulates(acc, w, u)
  BY DEF Follows
<1>2. /\ r \in Alloc /\ r \notin Stack /\ p \in Alloc /\ p # r /\ p \in Stack
      /\ borrowed \in BOOLEAN
  BY ScratchFacts DEF Stack
<1>3. /\ m.src \in Alloc /\ m.dst \in Alloc /\ m.src \in Stack /\ m.dst \in Stack
      /\ m.src # r /\ m.dst # r
      /\ borrowed => m.src # p /\ m.dst # p
  BY <1>2 DEF Edit, IsStackToStack, Avoids, reserved
<1>4. /\ acc.out \in Seq(RegEdit) /\ acc.scratch_dirty \in BOOLEAN
      /\ acc.save_dirty \in BOOLEAN
  BY DEF Acc
<1>5. /\ to \in RegEdit /\ to.src = m.src /\ to.dst = r
      /\ fr \in RegEdit /\ fr.src = r /\ fr.dst = m.dst
      /\ sv \in RegEdit /\ sv.src = r /\ sv.dst = p
  BY <1>2, <1>3, MvFacts
<1>6. u2 \in Machine(W) /\ \A a \in Alloc : u2[a] = IF a = m.dst THEN u[m.src] ELSE u[a]
  BY CopiedFacts
<1> HIDE DEF to, fr, sv, u2
<1>7. CASE borrowed /\ acc.save_dirty
  <2> DEFINE w1 == Copied(w, sv)
             w2 == Copied(w1, to)
             w3 == Copied(w2, fr)
             o1 == Append(acc.out, sv)
             o2 == Append(o1, to)
             o3 == Append(o2, fr)
  <2>1. next = [out |-> o3, scratch_dirty |-> TRUE, save_dirty |-> FALSE]
    <3>1. next = [out |-> acc.out \o <<sv>> \o <<to, fr>>,
                  scratch_dirty |-> TRUE, save_dirty |-> FALSE]
      BY Zenon, <1>7 DEF ThroughScratch, to, fr, sv
    <3>2. acc.out \o <<sv>> \o <<to, fr>> = o3
      BY <1>4, <1>5, AppendForms, SMTT(20)
    <3> QED BY Zenon, <3>1, <3>2
  <2>2. o1 \in Seq(RegEdit) /\ o2 \in Seq(RegEdit) /\ o3 \in Seq(RegEdit)
    BY <1>4, <1>5
  <2> HIDE DEF next
  <2>3. next \in Acc
    BY <2>1, <2>2 DEF Acc
  <2>4. w1 \in Machine(W) /\ \A a \in Alloc : w1[a] = IF a = p THEN w[r] ELSE w[a]
    <3>1. Wrote(w, w1, sv.src, sv.dst, W)
      BY <1>5, CopiedReg
    <3> HIDE DEF w1
    <3> QED BY <1>5, <3>1 DEF Wrote
  <2> HIDE DEF w1
  <2>5. w2 \in Machine(W) /\ \A a \in Alloc : w2[a] = IF a = r THEN w1[m.src] ELSE w1[a]
    <3>1. Wrote(w1, w2, to.src, to.dst, W)
      BY <1>5, <2>4, CopiedReg
    <3> HIDE DEF w2
    <3> QED BY <1>5, <3>1 DEF Wrote
  <2> HIDE DEF w2
  <2>6. w3 \in Machine(W) /\ \A a \in Alloc : w3[a] = IF a = m.dst THEN w2[r] ELSE w2[a]
    <3>1. Wrote(w2, w3, fr.src, fr.dst, W)
      BY <1>5, <2>5, CopiedReg
    <3> HIDE DEF w3
    <3> QED BY <1>5, <3>1 DEF Wrote
  <2> HIDE DEF w3
  <2>7. Reaches(o1, W, v, w1)
    BY <1>1, <1>4, <1>5, RegEdits, ReachesAppend DEF w1
  <2> HIDE DEF o1
  <2>8. Reaches(o2, W, v, w2)
    BY <2>2, <2>7, <1>5, RegEdits, ReachesAppend DEF w2
  <2> HIDE DEF o2
  <2>9. Reaches(o3, W, v, w3)
    BY <2>2, <2>8, <1>5, RegEdits, ReachesAppend DEF w3
  <2> HIDE DEF o3
  <2>10. /\ w[r] = u[r] /\ \A a \in Alloc \ {r, p} : w[a] = u[a]
    BY <1>1, <1>4, <1>7 DEF Simulates
  <2>11. w3[p] = u2[r] /\ \A a \in Alloc \ {r, p} : w3[a] = u2[a]
    BY <1>2, <1>3, <1>6, <1>7, <2>4, <2>5, <2>6, <2>10
  <2>12. Simulates(next, w3, u2)
    BY <1>7, <2>1, <2>11 DEF Simulates
  <2>13. Follows(next, W, v, u2)
    BY <2>1, <2>6, <2>9, <2>12 DEF Follows
  <2> QED BY <2>3, <2>13 DEF next, u2
<1>8. CASE ~(borrowed /\ acc.save_dirty)
  <2> DEFINE w2 == Copied(w, to)
             w3 == Copied(w2, fr)
             o2 == Append(acc.out, to)
             o3 == Append(o2, fr)
  <2>1. next = [out |-> o3, scratch_dirty |-> TRUE, save_dirty |-> acc.save_dirty /\ ~borrowed]
    <3>1. next = [out |-> acc.out \o <<>> \o <<to, fr>>,
                  scratch_dirty |-> TRUE, save_dirty |-> acc.save_dirty /\ ~borrowed]
      BY Zenon, <1>8 DEF ThroughScratch, to, fr, sv
    <3>2. acc.out \o <<>> \o <<to, fr>> = o3
      BY <1>4, <1>5, AppendForms
    <3> QED BY Zenon, <3>1, <3>2
  <2>2. o2 \in Seq(RegEdit) /\ o3 \in Seq(RegEdit)
    BY <1>4, <1>5
  <2> HIDE DEF next
  <2>3. next \in Acc
    <3>1. (acc.save_dirty /\ ~borrowed) \in BOOLEAN
      OBVIOUS
    <3> QED BY <2>1, <2>2, <3>1 DEF Acc
  <2>5. w2 \in Machine(W) /\ \A a \in Alloc : w2[a] = IF a = r THEN w[m.src] ELSE w[a]
    <3>1. Wrote(w, w2, to.src, to.dst, W)
      BY <1>5, CopiedReg
    <3> HIDE DEF w2
    <3> QED BY <1>5, <3>1 DEF Wrote
  <2> HIDE DEF w2
  <2>6. w3 \in Machine(W) /\ \A a \in Alloc : w3[a] = IF a = m.dst THEN w2[r] ELSE w2[a]
    <3>1. Wrote(w2, w3, fr.src, fr.dst, W)
      BY <1>5, <2>5, CopiedReg
    <3> HIDE DEF w3
    <3> QED BY <1>5, <3>1 DEF Wrote
  <2> HIDE DEF w3
  <2>8. Reaches(o2, W, v, w2)
    BY <1>1, <1>4, <1>5, RegEdits, ReachesAppend DEF w2
  <2> HIDE DEF o2
  <2>9. Reaches(o3, W, v, w3)
    BY <2>2, <2>8, <1>5, RegEdits, ReachesAppend DEF w3
  <2> HIDE DEF o3
  <2>12. Simulates(next, w3, u2)
    <3>1. CASE borrowed
      <4>1. w[p] = u[r] /\ \A a \in Alloc \ {r, p} : w[a] = u[a]
        BY <1>1, <1>4, <1>8, <3>1 DEF Simulates
      <4>2. w3[p] = u2[r] /\ \A a \in Alloc \ {r, p} : w3[a] = u2[a]
        BY <1>2, <1>3, <1>6, <3>1, <2>5, <2>6, <4>1
      <4> QED BY Zenon, <3>1, <2>1, <4>2 DEF Simulates
    <3>2. CASE ~borrowed
      <4>1. \A a \in Alloc \ {r} : w[a] = u[a]
        BY <1>1, <3>2 DEF Simulates
      <4>2. \A a \in Alloc \ {r} : w3[a] = u2[a]
        BY <1>2, <1>3, <1>6, <2>5, <2>6, <4>1
      <4> QED BY <3>2, <4>2 DEF Simulates
    <3> QED BY <3>1, <3>2
  <2>13. Follows(next, W, v, u2)
    BY <2>1, <2>6, <2>9, <2>12 DEF Follows
  <2> QED BY <2>3, <2>13 DEF next, u2
<1> QED BY <1>7, <1>8

(* Another move is done as it is; a borrowed register that it reads is     *)
(* reloaded first.                                                         *)
LEMMA DirectStep ==
    ASSUME FreeTyped, NEW acc \in Acc, NEW m \in RegEdit, Avoids(m, reserved),
           NEW W, NEW v, NEW u \in Machine(W), Follows(acc, W, v, u)
    PROVE  Directly(acc, m) \in Acc /\ Follows(Directly(acc, m), W, v, Copied(u, m))
<1> DEFINE r  == scratch_reg
           p  == save_slot
           ld == Mv(p, r)
           u2 == Copied(u, m)
           reload == m.src = r /\ acc.scratch_dirty
           sc == acc.scratch_dirty /\ ~reload /\ m.dst # r
           sd == acc.save_dirty \/ m.dst = r
           next == Directly(acc, m)
<1>1. PICK w \in Machine(W) : Reaches(acc.out, W, v, w) /\ Simulates(acc, w, u)
  BY DEF Follows
<1>2. /\ r \in Alloc /\ r \notin Stack /\ p \in Alloc /\ p # r
      /\ borrowed \in BOOLEAN
  BY ScratchFacts
<1>3. /\ m.src \in Alloc /\ m.dst \in Alloc
      /\ borrowed => m.src # p /\ m.dst # p
      /\ ~borrowed => m.src # r /\ m.dst # r
  BY <1>2 DEF Edit, RegEdit, Avoids, reserved
<1>4. /\ acc.out \in Seq(RegEdit) /\ acc.scratch_dirty \in BOOLEAN
      /\ acc.save_dirty \in BOOLEAN
  BY DEF Acc
<1>5. ld \in RegEdit /\ ld.src = p /\ ld.dst = r
  BY <1>2, MvFacts
<1>6. u2 \in Machine(W) /\ \A a \in Alloc : u2[a] = IF a = m.dst THEN u[m.src] ELSE u[a]
  BY CopiedReg DEF Wrote
<1> HIDE DEF ld, u2
<1>7. CASE reload
  <2> DEFINE w1 == Copied(w, ld)
             w2 == Copied(w1, m)
             o1 == Append(acc.out, ld)
             o2 == Append(o1, m)
  <2>0. borrowed /\ acc.scratch_dirty /\ m.src = r
    BY <1>3, <1>7
  <2>1. next = [out |-> o2, scratch_dirty |-> FALSE, save_dirty |-> sd]
    <3>1. next = [out |-> acc.out \o <<ld>> \o <<m>>,
                  scratch_dirty |-> FALSE, save_dirty |-> sd]
      BY Zenon, <1>7 DEF Directly, ld
    <3>2. acc.out \o <<ld>> \o <<m>> = o2
      BY <1>4, <1>5, AppendForms
    <3> QED BY Zenon, <3>1, <3>2
  <2>2. o1 \in Seq(RegEdit) /\ o2 \in Seq(RegEdit)
    BY <1>4, <1>5
  <2> HIDE DEF next
  <2>3. next \in Acc
    <3>1. sd \in BOOLEAN
      OBVIOUS
    <3> HIDE DEF sd
    <3> QED BY <2>1, <2>2, <3>1 DEF Acc
  <2>4. w1 \in Machine(W) /\ \A a \in Alloc : w1[a] = IF a = r THEN w[p] ELSE w[a]
    <3>1. Wrote(w, w1, ld.src, ld.dst, W)
      BY <1>5, CopiedReg
    <3> HIDE DEF w1
    <3> QED BY <1>5, <3>1 DEF Wrote
  <2> HIDE DEF w1
  <2>5. w2 \in Machine(W) /\ \A a \in Alloc : w2[a] = IF a = m.dst THEN w1[m.src] ELSE w1[a]
    <3>1. Wrote(w1, w2, m.src, m.dst, W)
      BY <2>4, CopiedReg
    <3> HIDE DEF w2
    <3> QED BY <3>1 DEF Wrote
  <2> HIDE DEF w2
  <2>7. Reaches(o1, W, v, w1)
    BY <1>1, <1>4, <1>5, RegEdits, ReachesAppend DEF w1
  <2> HIDE DEF o1
  <2>8. Reaches(o2, W, v, w2)
    BY <2>2, <2>7, RegEdits, ReachesAppend DEF w2
  <2> HIDE DEF o2
  <2>9. w[p] = u[r] /\ \A a \in Alloc \ {r, p} : w[a] = u[a]
    BY <1>1, <1>4, <2>0 DEF Simulates
  <2>10. /\ \A a \in Alloc \ {r, p} : w2[a] = u2[a]
         /\ w2[r] = u2[r] /\ (~sd => w2[p] = u2[r])
    BY <1>2, <1>3, <1>6, <2>0, <2>4, <2>5, <2>9
  <2>11. Simulates(next, w2, u2)
    <3> HIDE DEF sd
    <3> QED BY <2>0, <2>1, <2>10 DEF Simulates
  <2>12. Follows(next, W, v, u2)
    <3> HIDE DEF sd
    <3> QED BY <2>1, <2>5, <2>8, <2>11 DEF Follows
  <2> QED BY <2>3, <2>12 DEF next, u2
<1>8. CASE ~reload
  <2> DEFINE w2 == Copied(w, m)
             o2 == Append(acc.out, m)
  <2>1. next = [out |-> o2, scratch_dirty |-> sc, save_dirty |-> sd]
    <3>1. next = [out |-> acc.out \o <<>> \o <<m>>, scratch_dirty |-> sc, save_dirty |-> sd]
      BY Zenon, <1>8 DEF Directly
    <3>2. acc.out \o <<>> \o <<m>> = o2
      BY <1>4, AppendForms
    <3> QED BY Zenon, <3>1, <3>2
  <2>2. o2 \in Seq(RegEdit)
    BY <1>4
  <2> HIDE DEF next
  <2>3. next \in Acc
    <3>1. sc \in BOOLEAN /\ sd \in BOOLEAN
      OBVIOUS
    <3> HIDE DEF sc, sd
    <3> QED BY <2>1, <2>2, <3>1 DEF Acc
  <2>5. w2 \in Machine(W) /\ \A a \in Alloc : w2[a] = IF a = m.dst THEN w[m.src] ELSE w[a]
    <3>1. Wrote(w, w2, m.src, m.dst, W)
      BY CopiedReg
    <3> HIDE DEF w2
    <3> QED BY <3>1 DEF Wrote
  <2> HIDE DEF w2
  <2>8. Reaches(o2, W, v, w2)
    BY <1>1, <1>4, RegEdits, ReachesAppend DEF w2
  <2> HIDE DEF o2
  <2>11. Simulates(next, w2, u2)
    <3>1. CASE borrowed
      <4>1. /\ \A a \in Alloc \ {r, p} : w[a] = u[a]
            /\ acc.scratch_dirty => ~acc.save_dirty
            /\ ~acc.scratch_dirty => w[r] = u[r]
            /\ ~acc.save_dirty => w[p] = u[r]
        BY <1>1, <3>1 DEF Simulates
      <4>2. w[m.src] = u[m.src]
        BY <1>3, <1>4, <1>8, <3>1, <4>1
      <4>3. \A a \in Alloc \ {r, p} : w2[a] = u2[a]
        BY <1>6, <2>5, <4>1, <4>2
      <4>4. (~sc => w2[r] = u2[r]) /\ (~sd => w2[p] = u2[r]) /\ (sc => ~sd)
        BY <1>2, <1>3, <1>4, <1>6, <1>8, <2>5, <3>1, <4>1, <4>2
      <4> HIDE DEF sc, sd
      <4> QED BY <3>1, <2>1, <4>3, <4>4 DEF Simulates
    <3>2. CASE ~borrowed
      <4>1. \A a \in Alloc \ {r} : w[a] = u[a]
        BY <1>1, <3>2 DEF Simulates
      <4>2. \A a \in Alloc \ {r} : w2[a] = u2[a]
        BY <1>3, <1>6, <2>5, <3>2, <4>1
      <4> QED BY <3>2, <4>2 DEF Simulates
    <3> QED BY <3>1, <3>2
  <2>12. Follows(next, W, v, u2)
    <3> HIDE DEF sc, sd
    <3> QED BY <2>1, <2>5, <2>8, <2>11 DEF Follows
  <2> QED BY <2>3, <2>12 DEF next, u2
<1> QED BY <1>7, <1>8

(* An iteration of the loop keeps its invariant. *)
LEMMA ThroughFollows ==
    ASSUME FreeTyped, NEW acc \in Acc, NEW m \in Edit, Avoids(m, reserved),
           NEW W, NEW v, NEW u \in Machine(W), Follows(acc, W, v, u)
    PROVE  Through(acc, m) \in Acc /\ Follows(Through(acc, m), W, v, Copied(u, m))
<1>1. CASE IsStackToStack(m)
  <2>1. Through(acc, m) = ThroughScratch(acc, m)
    BY <1>1 DEF Through
  <2> QED BY <1>1, <2>1, StackStep
<1>2. CASE ~IsStackToStack(m)
  <2>1. Through(acc, m) = Directly(acc, m) /\ m \in RegEdit
    BY <1>2 DEF Through, RegEdit
  <2> QED BY <2>1, DirectStep
<1> QED BY <1>1, <1>2

(* Whatever the move, what the loop keeps has its type. *)
LEMMA ThroughType ==
    ASSUME FreeTyped, NEW acc \in Acc, NEW m \in Edit
    PROVE  Through(acc, m) \in Acc
<1> DEFINE r == scratch_reg
           p == save_slot
<1>1. r \in Alloc /\ r \notin Stack /\ p \in Alloc
  BY ScratchFacts
<1>2. m.src \in Alloc /\ m.dst \in Alloc
  BY DEF Edit
<1>3. /\ Mv(m.src, r) \in RegEdit /\ Mv(r, m.dst) \in RegEdit
      /\ Mv(r, p) \in RegEdit /\ Mv(p, r) \in RegEdit
  BY <1>1, <1>2, MvFacts
<1>4. acc.out \in Seq(RegEdit)
  BY DEF Acc
<1>5. CASE IsStackToStack(m)
  <2> DEFINE saved == IF borrowed /\ acc.save_dirty THEN <<Mv(r, p)>> ELSE <<>>
             out == acc.out \o saved \o <<Mv(m.src, r), Mv(r, m.dst)>>
  <2>1. <<>> \in Seq(RegEdit)
    OBVIOUS
  <2>2. <<Mv(r, p)>> \in Seq(RegEdit) /\ <<Mv(m.src, r), Mv(r, m.dst)>> \in Seq(RegEdit)
    BY <1>3
  <2>3. saved \in Seq(RegEdit)
    BY <2>1, <2>2
  <2>4. out \in Seq(RegEdit)
    BY <1>4, <2>2, <2>3
  <2>5. Through(acc, m) = [out |-> out, scratch_dirty |-> TRUE,
                           save_dirty |-> acc.save_dirty /\ ~borrowed]
    BY <1>5 DEF Through, ThroughScratch
  <2>6. (acc.save_dirty /\ ~borrowed) \in BOOLEAN
    OBVIOUS
  <2> HIDE DEF out
  <2> QED BY <2>4, <2>5, <2>6 DEF Acc
<1>6. CASE ~IsStackToStack(m)
  <2> DEFINE reload == m.src = r /\ acc.scratch_dirty
             loaded == IF reload THEN <<Mv(p, r)>> ELSE <<>>
             out == acc.out \o loaded \o <<m>>
             sc == acc.scratch_dirty /\ ~reload /\ m.dst # r
             sd == acc.save_dirty \/ m.dst = r
  <2>1. <<>> \in Seq(RegEdit) /\ m \in RegEdit
    BY <1>6 DEF RegEdit
  <2>2. <<Mv(p, r)>> \in Seq(RegEdit) /\ <<m>> \in Seq(RegEdit)
    BY <1>3, <2>1
  <2>3. loaded \in Seq(RegEdit)
    BY <2>1, <2>2
  <2>4. out \in Seq(RegEdit)
    BY <1>4, <2>2, <2>3
  <2>5. Through(acc, m) = [out |-> out, scratch_dirty |-> sc, save_dirty |-> sd]
    BY <1>6 DEF Through, Directly
  <2>6. sc \in BOOLEAN /\ sd \in BOOLEAN
    OBVIOUS
  <2> HIDE DEF out, sc, sd
  <2> QED BY <2>4, <2>5, <2>6 DEF Acc
<1> QED BY <1>5, <1>6

(* What the loop keeps before its first move, and after its last one. *)
Fresh0 == [out |-> <<>>, scratch_dirty |-> FALSE, save_dirty |-> TRUE]
Closed(end) == end.out \o (IF borrowed /\ end.scratch_dirty
                           THEN <<Mv(save_slot, scratch_reg)>> ELSE <<>>)
Loop(acc, moves) ==
    /\ acc \in [0 .. Len(moves) -> Acc] /\ acc[0] = Fresh0
    /\ \A n \in 1 .. Len(moves) : acc[n] = Through(acc[n - 1], moves[n])

(* The recursion that defines the result has a solution. *)
LEMMA UnstackedRecursion ==
    ASSUME FreeTyped, NEW moves \in Seq(Edit)
    PROVE  \E acc : Loop(acc, moves) /\ Unstacked(moves) = Closed(acc[Len(moves)])
<1> DEFINE N == Len(moves)
           Eqn(f) == [n \in 0 .. N |-> IF n = 0 THEN Fresh0 ELSE Through(f[n - 1], moves[n])]
           step == [n \in 1 .. N |-> [a \in Acc |-> Through(a, moves[n])]]
           acc == CHOOSE f : f = Eqn(f)
<1>1. N \in Nat /\ \A n \in 1 .. N : moves[n] \in Edit
  OBVIOUS
<1>2. \A a \in Acc, n \in 1 .. N : Through(a, moves[n]) \in Acc
  BY <1>1, ThroughType
<1>0. Fresh0 \in Acc
  <2>1. <<>> \in Seq(RegEdit)
    OBVIOUS
  <2> QED BY <2>1 DEF Fresh0, Acc
<1>3. PICK g : IsRecursion(g, step, N, Acc, Fresh0)
  <2>1. IsStep(step, N, Acc)
    BY <1>2 DEF IsStep
  <2> HIDE DEF step, N
  <2> QED BY <1>0, <1>1, <2>1, RecursionExists, Zenon
<1>4. \A n \in 1 .. N : g[n] = Through(g[n - 1], moves[n])
  <2> SUFFICES ASSUME NEW n \in 1 .. N PROVE g[n] = Through(g[n - 1], moves[n])
    OBVIOUS
  <2> HIDE DEF N
  <2>1. g[n - 1] \in Acc
    BY <1>3, <1>1 DEF IsRecursion
  <2> QED BY Zenon, <1>3, <2>1 DEF IsRecursion
<1>5. g = Eqn(g)
  <2> HIDE DEF N
  <2> QED BY <1>1, <1>3, <1>4 DEF IsRecursion
<1>6. acc = Eqn(acc)
  BY <1>5, Zenon
<1>7. Unstacked(moves) = Closed(acc[N])
  BY Zenon DEF Unstacked, Closed, Fresh0
<1>8. acc \in [0 .. N -> Acc]
  <2> DEFINE S == {n \in 0 .. N : acc[n] \in Acc}
  <2> HIDE DEF acc
  <2>1. 0 \in S
    <3>1. acc[0] = Fresh0 BY <1>6, <1>1
    <3> QED BY <3>1, <1>0, <1>1
  <2>2. ASSUME NEW n \in 0 .. N, n \in S, n < N PROVE n + 1 \in S
    <3> HIDE DEF N
    <3>1. n + 1 \in 1 .. N /\ (n + 1) - 1 = n BY <2>2, <1>1
    <3>2. acc[n + 1] = Through(acc[n], moves[n + 1]) BY <1>6, <1>1, <3>1
    <3> QED BY <3>1, <3>2, <1>2, <2>2, <1>1
  <2> HIDE DEF S, N
  <2>3. 0 .. N \subseteq S
    BY Zenon, <1>1, <2>1, <2>2, PrefixInduction
  <2>4. \A n \in 0 .. N : acc[n] \in Acc
    BY <2>3 DEF S
  <2>5. acc = [n \in 0 .. N |-> acc[n]]
    BY <1>6
  <2> QED BY <2>4, <2>5
<1> HIDE DEF acc
<1>9. acc[0] = Fresh0 /\ \A n \in 1 .. N : acc[n] = Through(acc[n - 1], moves[n])
  <2> HIDE DEF N
  <2> QED BY <1>1, <1>6
<1> QED BY <1>7, <1>8, <1>9 DEF Loop

(* Before the first move nothing was saved and nothing is dirty. *)
LEMMA FreshFollows ==
    ASSUME NEW W, NEW v \in Machine(W)
    PROVE  Follows(Fresh0, W, v, v)
<1>1. Reaches(Fresh0.out, W, v, v)
  BY ReachesNothing DEF Fresh0
<1>2. Simulates(Fresh0, v, v)
  BY DEF Simulates, Fresh0
<1> QED BY <1>1, <1>2 DEF Follows

(* After the last move a borrowed register is reloaded: only the reserved  *)
(* location may differ.                                                    *)
EqualBut(w, u, a) == \A b \in Alloc \ {a} : w[b] = u[b]

ReachesBut(s, W, v, u, a) == \E w \in Machine(W) : Reaches(s, W, v, w) /\ EqualBut(w, u, a)

(* The edits with the reload at the end do what was asked, except in the   *)
(* reserved location.                                                      *)
LEMMA ClosedReaches ==
    ASSUME FreeTyped, NEW acc \in Acc, NEW W, NEW v, NEW u \in Machine(W),
           Follows(acc, W, v, u)
    PROVE  Closed(acc) \in Seq(RegEdit) /\ ReachesBut(Closed(acc), W, v, u, reserved)
<1> DEFINE r  == scratch_reg
           p  == save_slot
           ld == Mv(p, r)
           o  == Closed(acc)
<1>1. PICK w \in Machine(W) : Reaches(acc.out, W, v, w) /\ Simulates(acc, w, u)
  BY DEF Follows
<1>2. r \in Alloc /\ r \notin Stack /\ p \in Alloc /\ p # r /\ borrowed \in BOOLEAN
  BY ScratchFacts
<1>3. ld \in RegEdit /\ ld.src = p /\ ld.dst = r
  BY <1>2, MvFacts
<1>4. /\ acc.out \in Seq(RegEdit) /\ acc.scratch_dirty \in BOOLEAN
      /\ acc.save_dirty \in BOOLEAN
  BY DEF Acc
<1>5. CASE borrowed /\ acc.scratch_dirty
  <2> DEFINE w1 == Copied(w, ld)
  <2>1. o = Append(acc.out, ld)
    BY <1>4, <1>5 DEF Closed
  <2>2. o \in Seq(RegEdit)
    BY <1>3, <1>4, <2>1
  <2>3. w1 \in Machine(W) /\ \A a \in Alloc : w1[a] = IF a = r THEN w[p] ELSE w[a]
    <3>1. Wrote(w, w1, ld.src, ld.dst, W)
      BY <1>3, CopiedReg
    <3> HIDE DEF w1
    <3> QED BY <1>3, <3>1 DEF Wrote
  <2>4. Reaches(o, W, v, w1)
    BY <1>1, <1>3, <1>4, <2>1, RegEdits, ReachesAppend
  <2> HIDE DEF w1, o
  <2>5. w[p] = u[r] /\ \A a \in Alloc \ {r, p} : w[a] = u[a]
    BY <1>1, <1>4, <1>5 DEF Simulates
  <2>6. EqualBut(w1, u, reserved)
    BY <1>2, <1>5, <2>3, <2>5 DEF EqualBut, reserved
  <2> QED BY <2>2, <2>3, <2>4, <2>6 DEF ReachesBut, o
<1>6. CASE ~(borrowed /\ acc.scratch_dirty)
  <2>1. o = acc.out
    <3>1. o = acc.out \o <<>>
      BY Zenon, <1>6 DEF Closed
    <3> QED BY <1>4, <3>1
  <2>2. EqualBut(w, u, reserved)
    BY <1>1, <1>2, <1>6 DEF Simulates, EqualBut, reserved
  <2> QED BY <1>1, <1>4, <2>1, <2>2 DEF ReachesBut
<1> QED BY <1>5, <1>6

(* The moves without stack-to-stack moves do what the moves do, except     *)
(* for the contents of the reserved location, which none of them names.    *)
LEMMA UnstackedReaches ==
    ASSUME FreeTyped, NEW moves \in Seq(Edit),
           \A n \in 1 .. Len(moves) : Avoids(moves[n], reserved),
           NEW W, NEW v, NEW u, Reaches(moves, W, v, u)
    PROVE  /\ Unstacked(moves) \in Seq(RegEdit)
           /\ ReachesBut(Unstacked(moves), W, v, u, reserved)
<1> DEFINE N == Len(moves)
<1>1. PICK acc : Loop(acc, moves) /\ Unstacked(moves) = Closed(acc[N])
  BY UnstackedRecursion
<1>2. PICK m : Run(m, moves, W, v, u)
  BY DEF Reaches
<1>3. N \in Nat /\ \A n \in 1 .. N : moves[n] \in Edit /\ Avoids(moves[n], reserved)
  OBVIOUS
<1>4. /\ acc \in [0 .. N -> Acc] /\ acc[0] = Fresh0
      /\ \A n \in 1 .. N : acc[n] = Through(acc[n - 1], moves[n])
  BY <1>1 DEF Loop
<1>5. /\ m \in [0 .. N -> Machine(W)] /\ m[0] = v /\ m[N] = u
      /\ \A n \in 1 .. N : m[n] = Copied(m[n - 1], moves[n])
  BY <1>2 DEF Run
<1> DEFINE S == {n \in 0 .. N : Follows(acc[n], W, v, m[n])}
<1> HIDE DEF N
<1>6. 0 \in S
  <2>1. v \in Machine(W) /\ 0 \in 0 .. N
    BY <1>3, <1>5
  <2> QED BY <1>4, <1>5, <2>1, FreshFollows
<1>7. ASSUME NEW n \in 0 .. N, n \in S, n < N PROVE n + 1 \in S
  <2>1. n + 1 \in 1 .. N /\ n + 1 \in 0 .. N /\ (n + 1) - 1 = n
    BY <1>3, <1>7
  <2>2. /\ acc[n] \in Acc /\ m[n] \in Machine(W) /\ Follows(acc[n], W, v, m[n])
        /\ moves[n + 1] \in Edit /\ Avoids(moves[n + 1], reserved)
    BY <1>3, <1>4, <1>5, <1>7, <2>1
  <2>3. acc[n + 1] = Through(acc[n], moves[n + 1]) /\ m[n + 1] = Copied(m[n], moves[n + 1])
    BY <1>4, <1>5, <2>1
  <2>4. Follows(Through(acc[n], moves[n + 1]), W, v, Copied(m[n], moves[n + 1]))
    BY <2>2, ThroughFollows
  <2> QED BY <2>1, <2>3, <2>4
<1>8. N \in S
  <2> HIDE DEF S
  <2>1. 0 .. N \subseteq S
    BY Zenon, <1>3, <1>6, <1>7, PrefixInduction
  <2> QED BY <1>3, <2>1
<1>9. acc[N] \in Acc /\ u \in Machine(W) /\ Follows(acc[N], W, v, u)
  BY <1>3, <1>4, <1>5, <1>8
<1> QED BY <1>1, <1>9, ClosedReaches

(* Without stack-to-stack moves nothing is to be done. *)
LEMMA ComputeReaches ==
    ASSUME FreeTyped, Filled \in Seq(Edit),
           \A n \in 1 .. Len(Filled) : Avoids(Filled[n], reserved),
           NEW W, NEW v, NEW u, Reaches(Filled, W, v, u)
    PROVE  Compute \in Seq(RegEdit) /\ ReachesBut(Compute, W, v, u, reserved)
<1>1. CASE \A i \in DOMAIN Filled : ~IsStackToStack(Filled[i])
  <2>1. Compute = Filled
    BY <1>1 DEF Compute
  <2>2. Filled \in Seq(RegEdit)
    BY <1>1 DEF RegEdit
  <2>3. u \in Machine(W)
    BY DEF Reaches, Run
  <2> QED BY <2>1, <2>2, <2>3 DEF ReachesBut, EqualBut
<1>2. CASE ~\A i \in DOMAIN Filled : ~IsStackToStack(Filled[i])
  <2>1. Compute = Unstacked(Filled)
    BY <1>2 DEF Compute
  <2> QED BY <2>1, UnstackedReaches
<1> QED BY <1>1, <1>2

-----------------------------------------------------------------------------
(* The resolved moves name locations and the scratch location, but none of *)
(* the registers that are offered as free.                                 *)
Cells == Loc \cup {NoLoc}
CellMove == [src : Cells, dst : Cells]
Offered == {free_regs[i] : i \in DOMAIN free_regs}

ResolvedWell ==
    /\ FreeTyped
    /\ \A i, j \in DOMAIN free_regs : free_regs[i] = free_regs[j] => i = j
    /\ ret \in Seq(CellMove)
    /\ scratch_used \in BOOLEAN
    /\ \A n \in 1 .. Len(ret) : ret[n].src \notin Offered /\ ret[n].dst \notin Offered
    /\ ~scratch_used => \A n \in 1 .. Len(ret) : ret[n].src # NoLoc /\ ret[n].dst # NoLoc

(* The resolved moves, done one at a time on the locations alone. *)
CellRun(v, W, val) ==
    /\ v \in [0 .. Len(ret) -> [Cells -> W]]
    /\ \A l \in Loc : v[0][l] = val[l]
    /\ v[0][NoLoc] = val[scratch]
    /\ \A n \in 1 .. Len(ret) :
          v[n] = [v[n - 1] EXCEPT ![ret[n].dst] = v[n - 1][ret[n].src]]

(* The scratch location is filled in by an allocation that no move names.  *)
LEMMA ScratchUnnamed ==
    ASSUME ResolvedWell
    PROVE  /\ scratch \in Alloc
           /\ \A n \in 1 .. Len(ret) : ret[n].src # scratch /\ ret[n].dst # scratch
           /\ scratch \in Loc => scratch \in Offered
<1>1. free_regs \in Seq(Regs \cup Dedicated)
  BY DEF ResolvedWell, FreeTyped
<1>2. \A n \in 1 .. Len(ret) : ret[n].src \in Cells /\ ret[n].dst \in Cells
  <2>1. ret \in Seq(CellMove)
    BY DEF ResolvedWell
  <2>2. \A n \in 1 .. Len(ret) : ret[n] \in CellMove
    BY <2>1
  <2> QED BY <2>2 DEF CellMove
<1>3. CASE free_regs # <<>>
  <2>1. scratch = free_regs[1] /\ 1 \in DOMAIN free_regs
    BY <1>1, <1>3 DEF scratch
  <2>2. scratch \in Offered /\ scratch \in Alloc
    BY <1>1, <2>1 DEF Offered, Alloc, Loc
  <2> QED BY <2>2 DEF ResolvedWell
<1>4. CASE free_regs = <<>>
  <2>1. scratch = ExtraSlots[1] /\ 1 \in DOMAIN ExtraSlots
    BY <1>4, ScratchAssumption DEF scratch
  <2>2. scratch \in Extra
    BY <2>1 DEF Extra
  <2>3. scratch \in Alloc /\ scratch \in Stack
    BY <2>2 DEF Alloc, Stack
  <2>4. scratch \notin Loc /\ scratch # NoLoc
    BY <2>2, <2>3, ScratchAssumption DEF Loc, NoLoc
  <2> QED BY <1>2, <2>3, <2>4 DEF Cells
<1> QED BY <1>3, <1>4

(* One move with the scratch location filled in. *)
LEMMA FilledMove ==
    ASSUME ResolvedWell, NEW n \in 1 .. Len(ret)
    PROVE  /\ Len(Filled) = Len(ret) /\ Filled[n] \in Edit
           /\ Filled[n].src = IF ret[n].src = NoLoc THEN scratch ELSE ret[n].src
           /\ Filled[n].dst = IF ret[n].dst = NoLoc THEN scratch ELSE ret[n].dst
           /\ ret[n].src = NoLoc \/ ret[n].dst = NoLoc => scratch_used
<1>1. /\ ret \in Seq(CellMove) /\ ret[n] \in CellMove
      /\ scratch_used \in BOOLEAN
      /\ ~scratch_used => ret[n].src # NoLoc /\ ret[n].dst # NoLoc
  <2>1. ret \in Seq(CellMove) /\ scratch_used \in BOOLEAN
    BY DEF ResolvedWell
  <2>2. ret[n] \in CellMove
    BY <2>1
  <2>3. ~scratch_used => ret[n].src # NoLoc /\ ret[n].dst # NoLoc
    BY DEF ResolvedWell
  <2> QED BY <2>1, <2>2, <2>3
<1>2. /\ ret[n] = [src |-> ret[n].src, dst |-> ret[n].dst]
      /\ ret[n].src \in Cells /\ ret[n].dst \in Cells
  BY <1>1 DEF CellMove
<1>3. scratch \in Alloc /\ \A c \in Cells : c # NoLoc => c \in Alloc
  BY ScratchUnnamed DEF Cells, Alloc
<1>4. CASE scratch_used
  <2>1. Filled = [i \in DOMAIN ret |->
                    Mv(IF ret[i].src = NoLoc THEN scratch ELSE ret[i].src,
                       IF ret[i].dst = NoLoc THEN scratch ELSE ret[i].dst)]
    BY <1>4 DEF Filled, WithScratch
  <2>2. DOMAIN ret = 1 .. Len(ret) /\ Len(ret) \in Nat
    BY <1>1
  <2>3. Len(Filled) = Len(ret)
    BY <2>1, <2>2
  <2>4. Filled[n] = Mv(IF ret[n].src = NoLoc THEN scratch ELSE ret[n].src,
                       IF ret[n].dst = NoLoc THEN scratch ELSE ret[n].dst)
    BY <2>1, <2>2
  <2> QED BY <1>2, <1>3, <1>4, <2>3, <2>4, MvFacts
<1>5. CASE ~scratch_used
  <2>1. Filled = ret
    BY <1>5 DEF Filled
  <2>2. ret[n].src \in Alloc /\ ret[n].dst \in Alloc
    BY <1>1, <1>2, <1>3, <1>5
  <2> QED BY <1>1, <1>2, <1>5, <2>1, <2>2 DEF Edit
<1> QED BY <1>4, <1>5

(* The moves with the scratch location filled in are edits. *)
LEMMA FilledEdits ==
    ASSUME ResolvedWell
    PROVE  Filled \in Seq(Edit) /\ Len(Filled) = Len(ret) /\ Len(ret) \in Nat
<1>1. ret \in Seq(CellMove)
  BY DEF ResolvedWell
<1>2. Len(ret) \in Nat /\ DOMAIN ret = 1 .. Len(ret)
  BY <1>1
<1>3. Filled = [i \in 1 .. Len(ret) |-> Filled[i]]
  <2>1. CASE scratch_used
    BY <1>2, <2>1 DEF Filled, WithScratch
  <2>2. CASE ~scratch_used
    BY <1>1, <1>2, <2>2 DEF Filled
  <2> QED BY <2>1, <2>2
<1>4. \A i \in 1 .. Len(ret) : Filled[i] \in Edit
  BY FilledMove
<1>5. Filled \in Seq(Edit)
  <2> DEFINE f == Filled
  <2>1. f = [i \in 1 .. Len(ret) |-> f[i]] /\ \A i \in 1 .. Len(ret) : f[i] \in Edit
    BY <1>3, <1>4
  <2> HIDE DEF f
  <2>2. f \in [1 .. Len(ret) -> Edit]
    BY <2>1
  <2>3. f \in Seq(Edit)
    BY <1>2, <2>2
  <2> QED BY <2>3 DEF f
<1>6. Len(Filled) = Len(ret)
  <2> DEFINE f == Filled
  <2>1. f = [i \in 1 .. Len(ret) |-> f[i]]
    BY <1>3
  <2> HIDE DEF f
  <2>2. DOMAIN f = 1 .. Len(ret)
    BY <2>1
  <2>3. Len(f) = Len(ret)
    BY <1>2, <1>5, <2>2 DEF f
  <2> QED BY <2>3 DEF f
<1> QED BY <1>2, <1>5, <1>6

(* They name neither the slot in which a register is saved nor the free    *)
(* register that stack-to-stack moves go through.                          *)
LEMMA FilledAvoids ==
    ASSUME ResolvedWell, NEW n \in 1 .. Len(ret)
    PROVE  Avoids(Filled[n], reserved)
<1>1. /\ Filled[n].src = IF ret[n].src = NoLoc THEN scratch ELSE ret[n].src
      /\ Filled[n].dst = IF ret[n].dst = NoLoc THEN scratch ELSE ret[n].dst
      /\ ret[n].src = NoLoc \/ ret[n].dst = NoLoc => scratch_used
  BY FilledMove
<1>2. free_regs \in Seq(Regs \cup Dedicated)
  BY DEF ResolvedWell, FreeTyped
<1>3. ret[n].src \in Cells /\ ret[n].dst \in Cells
  <2>1. ret \in Seq(CellMove)
    BY DEF ResolvedWell
  <2>2. ret[n] \in CellMove
    BY <2>1
  <2> QED BY <2>2 DEF CellMove
<1>4. CASE borrowed
  <2>1. reserved = save_slot /\ save_slot \in Extra /\ save_slot \in Alloc
    BY <1>4, ScratchFacts DEF reserved, ResolvedWell
  <2>2. save_slot \notin Cells
    <3>1. save_slot \notin Slots /\ save_slot \in Stack
      BY <2>1, ScratchAssumption DEF Stack
    <3> QED BY <2>1, <3>1, ScratchAssumption DEF Cells, Loc, NoLoc
  <2>3. scratch_used => scratch # save_slot
    <3>1. CASE free_regs = <<>>
      BY <3>1, ScratchAssumption DEF scratch, save_slot
    <3>2. CASE free_regs # <<>>
      <4>1. scratch \in Regs \cup Dedicated
        BY <1>2, <3>2 DEF scratch
      <4>2. save_slot \in Stack
        BY <2>1 DEF Stack
      <4> QED BY <4>1, <4>2, ScratchAssumption
    <3> QED BY <3>1, <3>2
  <2> QED BY <1>1, <1>3, <2>1, <2>2, <2>3 DEF Avoids
<1>5. CASE ~borrowed
  <2>1. reserved = Head(still_free) /\ still_free # <<>>
    BY <1>5 DEF reserved, scratch_reg, borrowed
  <2>2. PICK k \in DOMAIN free_regs :
           reserved = free_regs[k] /\ (scratch_used => k # 1)
    <3>1. CASE scratch_used /\ free_regs # <<>>
      <4>1. still_free = Tail(free_regs)
        BY <3>1 DEF still_free
      <4>2. Len(free_regs) >= 2 /\ Head(Tail(free_regs)) = free_regs[2]
        BY <1>2, <2>1, <3>1, <4>1
      <4>3. 2 \in DOMAIN free_regs
        BY <1>2, <4>2
      <4> QED BY <2>1, <4>1, <4>2, <4>3
    <3>2. CASE ~(scratch_used /\ free_regs # <<>>)
      <4>1. still_free = free_regs
        BY <3>2 DEF still_free
      <4>2. 1 \in DOMAIN free_regs /\ Head(free_regs) = free_regs[1]
        BY <1>2, <2>1, <4>1
      <4> QED BY <2>1, <3>2, <4>1, <4>2
    <3> QED BY <3>1, <3>2
  <2>3. reserved \in Offered
    BY <2>2 DEF Offered
  <2>4. scratch_used => scratch # reserved
    <3>1. free_regs # <<>> /\ 1 \in DOMAIN free_regs /\ scratch = free_regs[1]
      BY <1>2, <2>2 DEF scratch
    <3> QED BY <2>2, <3>1 DEF ResolvedWell
  <2>5. ret[n].src # reserved /\ ret[n].dst # reserved
    BY <2>3 DEF ResolvedWell
  <2> QED BY <1>1, <2>4, <2>5 DEF Avoids
<1> QED BY <1>4, <1>5

(* The machine after n of the moves, from the contents of the locations.   *)
MachineAt(v, n, val) ==
    [a \in Alloc |-> IF scratch_used /\ a = scratch THEN v[n][NoLoc]
                     ELSE IF a \in Loc THEN v[n][a] ELSE val[a]]

(* The moves with the scratch location filled in do on the machine what    *)
(* the resolved moves do on the locations.                                 *)
LEMMA FilledStep ==
    ASSUME ResolvedWell, NEW W, NEW val \in Machine(W), NEW v, CellRun(v, W, val),
           NEW n \in 1 .. Len(ret)
    PROVE  MachineAt(v, n, val) = Copied(MachineAt(v, n - 1, val), Filled[n])
<1> DEFINE s == ret[n].src
           d == ret[n].dst
           x == v[n - 1]
           y == v[n]
           f == Filled[n]
           M == MachineAt(v, n - 1, val)
<1>1. /\ f \in Edit
      /\ f.src = IF s = NoLoc THEN scratch ELSE s
      /\ f.dst = IF d = NoLoc THEN scratch ELSE d
      /\ s = NoLoc \/ d = NoLoc => scratch_used
  BY FilledMove
<1>2. scratch \in Alloc /\ s # scratch /\ d # scratch
  BY ScratchUnnamed
<1>3. s \in Cells /\ d \in Cells
  <2>1. ret \in Seq(CellMove)
    BY DEF ResolvedWell
  <2>2. ret[n] \in CellMove
    BY <2>1
  <2> QED BY <2>2 DEF CellMove
<1>4. x \in [Cells -> W] /\ y = [x EXCEPT ![d] = x[s]]
  <2>1. Len(ret) \in Nat
    BY FilledEdits
  <2>2. n - 1 \in 0 .. Len(ret)
    BY <2>1
  <2> QED BY Zenon, <2>2 DEF CellRun
<1>5. \A c \in Cells : y[c] = IF c = d THEN x[s] ELSE x[c]
  BY <1>3, <1>4
<1>6. Loc \subseteq Alloc /\ NoLoc \in Cells /\ NoLoc \notin Loc /\ \A l \in Loc : l \in Cells
  BY ScratchAssumption DEF Alloc, Cells, NoLoc
<1> HIDE DEF s, d, x, y, f
<1>7. f.src \in Alloc /\ f.dst \in Alloc
  BY <1>1 DEF Edit
<1>8. /\ M = [a \in Alloc |-> IF scratch_used /\ a = scratch THEN x[NoLoc]
                              ELSE IF a \in Loc THEN x[a] ELSE val[a]]
      /\ MachineAt(v, n, val) =
           [a \in Alloc |-> IF scratch_used /\ a = scratch THEN y[NoLoc]
                            ELSE IF a \in Loc THEN y[a] ELSE val[a]]
  BY DEF MachineAt, x, y
<1>9. M[f.src] = x[s]
  BY <1>1, <1>2, <1>3, <1>6, <1>7, <1>8 DEF Cells
<1>10. Copied(M, f) = [a \in Alloc |-> IF a = f.dst THEN M[f.src] ELSE M[a]]
  BY <1>7, <1>8 DEF Copied
<1>11. \A a \in Alloc : MachineAt(v, n, val)[a] = IF a = f.dst THEN x[s] ELSE M[a]
  <2> SUFFICES ASSUME NEW a \in Alloc
               PROVE  MachineAt(v, n, val)[a] = IF a = f.dst THEN x[s] ELSE M[a]
    OBVIOUS
  <2>1. CASE scratch_used /\ a = scratch
    <3>1. MachineAt(v, n, val)[a] = y[NoLoc] /\ M[a] = x[NoLoc]
      BY <1>8, <2>1
    <3>2. a = f.dst <=> d = NoLoc
      BY <1>1, <1>2, <2>1
    <3>3. y[NoLoc] = IF NoLoc = d THEN x[s] ELSE x[NoLoc]
      BY <1>5, <1>6
    <3> QED BY <3>1, <3>2, <3>3
  <2>2. CASE ~(scratch_used /\ a = scratch) /\ a \in Loc
    <3>1. MachineAt(v, n, val)[a] = y[a] /\ M[a] = x[a]
      BY <1>8, <2>2
    <3>2. a = f.dst <=> d = a
      BY <1>1, <1>2, <1>6, <2>2
    <3>3. y[a] = IF a = d THEN x[s] ELSE x[a]
      BY <1>5, <1>6, <2>2
    <3> QED BY <3>1, <3>2, <3>3
  <2>3. CASE ~(scratch_used /\ a = scratch) /\ a \notin Loc
    <3>1. MachineAt(v, n, val)[a] = val[a] /\ M[a] = val[a]
      BY <1>8, <2>3
    <3>2. a # f.dst
      BY <1>1, <1>3, <2>3 DEF Cells
    <3> QED BY <3>1, <3>2
  <2> QED BY <2>1, <2>2, <2>3
<1>12. MachineAt(v, n, val) = Copied(M, f)
  <2>1. \A a \in Alloc : MachineAt(v, n, val)[a] = Copied(M, f)[a]
    BY <1>9, <1>10, <1>11
  <2>2. /\ MachineAt(v, n, val) = [a \in Alloc |-> MachineAt(v, n, val)[a]]
        /\ Copied(M, f) = [a \in Alloc |-> Copied(M, f)[a]]
    BY <1>8, <1>10
  <2> QED BY <2>1, <2>2, Zenon
<1> QED BY <1>12 DEF f

(* The edits with the scratch location filled in do on the machine what    *)
(* the resolved moves do on their cells.                                   *)
LEMMA FilledReaches ==
    ASSUME ResolvedWell, NEW W, NEW val \in Machine(W), NEW v, CellRun(v, W, val)
    PROVE  Reaches(Filled, W, val, MachineAt(v, Len(ret), val))
<1> DEFINE N == Len(ret)
           u == [n \in 0 .. N |-> MachineAt(v, n, val)]
<1>1. N \in Nat /\ Len(Filled) = N
  BY FilledEdits
<1>2. /\ v \in [0 .. N -> [Cells -> W]]
      /\ \A l \in Loc : v[0][l] = val[l]
      /\ v[0][NoLoc] = val[scratch]
  BY DEF CellRun
<1> HIDE DEF N
<1>3. ASSUME NEW n \in 0 .. N PROVE MachineAt(v, n, val) \in Machine(W)
  <2>1. v[n] \in [Cells -> W]
    BY <1>2
  <2>2. \A c \in Cells : v[n][c] \in W
    BY <2>1
  <2>3. \A a \in Alloc : val[a] \in W
    BY DEF Machine
  <2> QED BY <2>2, <2>3 DEF MachineAt, Machine, Cells
<1>4. MachineAt(v, 0, val) = val
  <2>1. val = [a \in Alloc |-> val[a]]
    BY DEF Machine
  <2>2. \A a \in Alloc : MachineAt(v, 0, val)[a] = val[a]
    BY <1>2 DEF MachineAt
  <2>3. MachineAt(v, 0, val) = [a \in Alloc |-> MachineAt(v, 0, val)[a]]
    BY DEF MachineAt
  <2> QED BY <2>1, <2>2, <2>3, Zenon
<1>5. \A n \in 1 .. N : MachineAt(v, n, val) = Copied(MachineAt(v, n - 1, val), Filled[n])
  BY FilledStep DEF N
<1>6. /\ u \in [0 .. N -> Machine(W)] /\ u[0] = val /\ u[N] = MachineAt(v, N, val)
      /\ \A n \in 1 .. N : u[n] = Copied(u[n - 1], Filled[n])
  <2>1. u \in [0 .. N -> Machine(W)]
    BY <1>3
  <2>2. u[0] = val /\ u[N] = MachineAt(v, N, val)
    BY <1>1, <1>4
  <2>3. \A n \in 1 .. N : n \in 0 .. N /\ n - 1 \in 0 .. N
    BY <1>1
  <2>4. \A n \in 1 .. N : u[n] = MachineAt(v, n, val) /\ u[n - 1] = MachineAt(v, n - 1, val)
    BY <2>3
  <2> QED BY Zenon, <1>5, <2>1, <2>2, <2>4
<1> HIDE DEF u
<1>7. Run(u, Filled, W, val, MachineAt(v, N, val))
  BY <1>1, <1>6 DEF Run
<1> QED BY <1>7 DEF Reaches, N

(* Resolved moves, with the scratch location filled in and the moves from  *)
(* the stack to the stack replaced, leave in every location that is not    *)
(* offered as free what the resolved moves leave there.                    *)
AppliesTo(s, W, val, v) ==
    \E w \in Machine(W) :
        /\ Reaches(s, W, val, w)
        /\ \A l \in Loc \ Offered : w[l] = v[Len(ret)][l]

(* `compute` does what the resolved moves do, and every edit it returns has*)
(* a register on one side.                                                 *)
LEMMA ComputeApplies ==
    ASSUME ResolvedWell, NEW W, NEW val \in Machine(W), NEW v, CellRun(v, W, val)
    PROVE  Compute \in Seq(RegEdit) /\ AppliesTo(Compute, W, val, v)
<1> DEFINE u == MachineAt(v, Len(ret), val)
<1>1. Reaches(Filled, W, val, u)
  BY FilledReaches
<1>2. /\ Filled \in Seq(Edit)
      /\ \A n \in 1 .. Len(Filled) : Avoids(Filled[n], reserved)
      /\ FreeTyped
  BY FilledEdits, FilledAvoids DEF ResolvedWell
<1>3. Compute \in Seq(RegEdit) /\ ReachesBut(Compute, W, val, u, reserved)
  <2> HIDE DEF u
  <2> QED BY <1>1, <1>2, ComputeReaches
<1>4. PICK w \in Machine(W) : Reaches(Compute, W, val, w) /\ EqualBut(w, u, reserved)
  BY <1>3 DEF ReachesBut
<1>5. ASSUME NEW l \in Loc \ Offered PROVE w[l] = v[Len(ret)][l]
  <2>1. l \in Alloc /\ l # scratch
    BY ScratchUnnamed DEF Alloc
  <2>2. l # reserved
    <3>1. CASE borrowed
      <4>1. reserved \in Extra
        BY <1>2, <3>1, ScratchFacts DEF reserved
      <4>2. reserved \in Stack
        BY <4>1 DEF Stack
      <4> QED BY <4>1, <4>2, ScratchAssumption DEF Loc
    <3>2. CASE ~borrowed
      <4>1. free_regs \in Seq(Regs \cup Dedicated)
        BY <1>2 DEF FreeTyped
      <4>2. reserved = Head(still_free) /\ still_free # <<>>
        BY <3>2 DEF reserved, scratch_reg, borrowed
      <4>3. reserved \in Offered
        <5>1. CASE still_free = free_regs
          BY <4>1, <4>2, <5>1 DEF Offered
        <5>2. CASE still_free = Tail(free_regs) /\ free_regs # <<>>
          <6>1. Len(free_regs) >= 2 /\ Head(Tail(free_regs)) = free_regs[2]
            BY <4>1, <4>2, <5>2
          <6>2. 2 \in DOMAIN free_regs
            BY <4>1, <6>1
          <6> QED BY <4>2, <5>2, <6>1, <6>2 DEF Offered
        <5> QED BY <5>1, <5>2 DEF still_free
      <4> QED BY <4>3
    <3> QED BY <3>1, <3>2
  <2>3. w[l] = u[l]
    BY <1>4, <2>1, <2>2 DEF EqualBut
  <2>4. u[l] = v[Len(ret)][l]
    BY <2>1, <1>5 DEF MachineAt
  <2> QED BY <2>3, <2>4
<1> QED BY <1>3, <1>4, <1>5 DEF AppliesTo

-----------------------------------------------------------------------------
(* One element in front of a sequence. *)
LEMMA PrependFacts ==
    ASSUME NEW S, NEW r \in S, NEW s \in Seq(S)
    PROVE  /\ <<r>> \o s \in Seq(S) /\ Len(<<r>> \o s) = Len(s) + 1
           /\ (<<r>> \o s)[1] = r
           /\ \A i \in 2 .. Len(s) + 1 : (<<r>> \o s)[i] = s[i - 1]
OBVIOUS

(* A dedicated scratch register, if there is one, followed by registers of *)
(* which each comes once, are registers of which each comes once.          *)
LEMMA OfferedFacts ==
    ASSUME NEW unused \in SUBSET Regs, NEW n \in Nat, NEW s \in [1 .. n -> unused],
           \A i, j \in 1 .. n : s[i] = s[j] => i = j,
           NEW d \in {<<>>} \cup {<<r>> : r \in Dedicated}, NEW f, f = d \o s
    PROVE  /\ f \in Seq(Regs \cup Dedicated)
           /\ \A i, j \in DOMAIN f : f[i] = f[j] => i = j
           /\ \A i \in DOMAIN f : f[i] \in Dedicated \/ f[i] \in unused
<1>1. s \in Seq(Regs \cup Dedicated) /\ Len(s) = n /\ DOMAIN s = 1 .. n
  BY SMTT(20)
<1>2. CASE d = <<>>
  <2>1. f = s
    BY <1>1, <1>2
  <2> QED BY <1>1, <2>1
<1>3. ASSUME NEW r \in Dedicated, d = <<r>>
      PROVE  /\ f \in Seq(Regs \cup Dedicated)
             /\ \A i, j \in DOMAIN f : f[i] = f[j] => i = j
             /\ \A i \in DOMAIN f : f[i] \in Dedicated \/ f[i] \in unused
  <2>0. r \in Regs \cup Dedicated /\ f = <<r>> \o s
    BY <1>3
  <2>1. f \in Seq(Regs \cup Dedicated) /\ Len(f) = n + 1
    BY <1>1, <2>0, PrependFacts
  <2>2. f[1] = r /\ \A i \in 2 .. n + 1 : f[i] = s[i - 1]
    BY <1>1, <2>0, PrependFacts
  <2>3. \A i \in 2 .. n + 1 : f[i] \in unused /\ f[i] # r /\ i - 1 \in 1 .. n
    <3> SUFFICES ASSUME NEW i \in 2 .. n + 1
                 PROVE  f[i] \in unused /\ f[i] # r /\ i - 1 \in 1 .. n
      BY Zenon
    <3>0. i - 1 \in 1 .. n
      OBVIOUS
    <3>1. i - 1 \in 1 .. n /\ f[i] = s[i - 1]
      BY <2>2, <3>0, Zenon
    <3>2. f[i] \in unused
      BY <3>1
    <3> QED BY <3>1, <3>2, ScratchAssumption
  <2>4. DOMAIN f = 1 .. n + 1
    BY <2>1
  <2>5. \A i, j \in 1 .. n + 1 : f[i] = f[j] => i = j
    <3> SUFFICES ASSUME NEW i \in 1 .. n + 1, NEW j \in 1 .. n + 1, f[i] = f[j]
                 PROVE  i = j
      BY Zenon
    <3>1. CASE i = 1 /\ j # 1
      <4>1. j \in 2 .. n + 1
        BY <3>1
      <4>2. f[j] # r /\ f[i] = r
        BY Zenon, <2>2, <2>3, <3>1, <4>1
      <4> QED BY <4>2
    <3>2. CASE j = 1 /\ i # 1
      <4>1. i \in 2 .. n + 1
        BY <3>2
      <4>2. f[i] # r /\ f[j] = r
        BY Zenon, <2>2, <2>3, <3>2, <4>1
      <4> QED BY <4>2
    <3>3. CASE i # 1 /\ j # 1
      <4>1. i \in 2 .. n + 1 /\ j \in 2 .. n + 1
        BY <3>3
      <4>2. s[i - 1] = s[j - 1] /\ i - 1 \in 1 .. n /\ j - 1 \in 1 .. n
        BY Zenon, <2>2, <2>3, <4>1
      <4>3. i - 1 = j - 1
        BY <4>2
      <4> QED BY <4>1, <4>3
    <3> QED BY <3>1, <3>2, <3>3
  <2>6. \A i \in 1 .. n + 1 : f[i] \in Dedicated \/ f[i] \in unused
    <3> SUFFICES ASSUME NEW i \in 1 .. n + 1 PROVE f[i] \in Dedicated \/ f[i] \in unused
      BY Zenon
    <3>1. CASE i = 1
      BY <1>3, <2>2, <3>1
    <3>2. CASE i # 1
      <4>1. i \in 2 .. n + 1
        BY <3>2
      <4> QED BY Zenon, <2>3, <4>1
    <3> QED BY Zenon, <3>1, <3>2
  <2> QED BY Zenon, <2>1, <2>4, <2>5, <2>6
<1> QED BY Zenon, <1>2, <1>3
=============================================================================
