--------------------------- MODULE UseListsProofs ---------------------------
(***************************************************************************)
(* The reverse-use sets are exact, predecessors are found and no operand   *)
(* dangles, for any sets of handles and blocks.  UsersExact alone is not   *)
(* inductive: a handle that is handed out must not be in any set already   *)
(* (FreshUnlinked), and a value must not use itself when its users are     *)
(* rewritten (NoSelfUse).  NoDanglingOperand needs the same of             *)
(* instructions that are not placed yet, and during a sweep that what      *)
(* survives it uses nothing the sweep removes (SurvivorsKeepOperands).     *)
(***************************************************************************)
EXTENDS UseLists, FiniteSetTheorems, TLAPS

(* The data of an instruction, operands in any number. *)
AnyValue == Constant \cup [k : {"op"}, ops : SUBSET Operand]
AnyTerminator ==
    [k : {"jump"}, target : Blocks, args : SUBSET Operand]
    \cup [k : {"branch"}, cond : Values, t : Blocks, targs : SUBSET Operand,
          f : Blocks, fargs : SUBSET Operand]

Typed ==
    /\ data \in [Inst -> AnyValue \cup AnyTerminator \cup {NoData, Global}]
    /\ \A v \in Values : data[v] \in AnyValue \cup {NoData}
    /\ \A t \in Terminators : data[t] \in AnyTerminator \cup {NoData}
    /\ \A g \in Globals : data[g] = Global
    /\ used_by \in [Inst -> SUBSET Local]
    /\ bb_used_by \in [Blocks -> SUBSET Terminators]
    /\ parent \in [Local -> Blocks \cup {NoBlock}]
    /\ spent \subseteq Local
    /\ layout \subseteq Blocks
    /\ Live \subseteq spent \cup Globals
    /\ Placed \subseteq Live
    /\ doomed \subseteq Placed

FreshUnlinked ==
    /\ \A i \in Inst : Uses(data[i]) \subseteq spent \cup Globals
    /\ \A i \in Inst : used_by[i] \subseteq spent
    /\ \A i \in Local \ spent : used_by[i] = {}
    /\ \A b \in Blocks : bb_used_by[b] \subseteq spent

NoSelfUse == \A i \in Inst : i \notin Uses(data[i])

TargetsExact ==
    \A b \in Blocks : \A t \in Live :
        t \in bb_used_by[b] <=> b \in Targets(data[t])

IInv == Typed /\ FreshUnlinked /\ NoSelfUse /\ UsersExact /\ TargetsExact

SurvivorsKeepOperands ==
    \A i \in Live \ doomed : Uses(data[i]) \subseteq Live \ doomed

-----------------------------------------------------------------------------
(* What the data of each kind uses and targets. *)
LEMMA DataFacts ==
    /\ \A d \in AnyValue : Uses(d) \subseteq Operand /\ Targets(d) = {} /\ d # NoData
    /\ \A d \in AnyTerminator :
         Uses(d) \subseteq Operand /\ Targets(d) \subseteq Blocks /\ d # NoData
    /\ \A d \in Constant : Uses(d) = {}
    /\ Uses(NoData) = {} /\ Targets(NoData) = {}
    /\ Uses(Global) = {} /\ Targets(Global) = {} /\ Global # NoData
    /\ Value \subseteq AnyValue /\ Op \subseteq AnyValue
    /\ Constant \subseteq AnyValue /\ Terminator \subseteq AnyTerminator
<1>1. \A d \in AnyValue : Uses(d) \subseteq Operand /\ Targets(d) = {} /\ d # NoData
  BY DEF AnyValue, Constant, Uses, Targets, NoData
<1>2. \A d \in AnyTerminator :
        Uses(d) \subseteq Operand /\ Targets(d) \subseteq Blocks /\ d # NoData
  BY DEF AnyTerminator, Uses, Targets, NoData, Operand
<1>3. \A d \in Constant : Uses(d) = {}
  BY DEF Constant, Uses
<1>4. /\ Uses(NoData) = {} /\ Targets(NoData) = {}
      /\ Uses(Global) = {} /\ Targets(Global) = {} /\ Global # NoData
  BY DEF NoData, Global, Uses, Targets
<1>5. /\ Value \subseteq AnyValue /\ Op \subseteq AnyValue
      /\ Constant \subseteq AnyValue /\ Terminator \subseteq AnyTerminator
  BY DEF Value, Op, AnyValue, Sets, Terminator, Jump, Branch, AnyTerminator
<1>. QED  BY <1>1, <1>2, <1>3, <1>4, <1>5

(* A rewritten user keeps its kind, uses nothing new but the replacement,  *)
(* targets nothing new, and still uses the old value only when a branch on *)
(* a constant passed it on.                                                *)
LEMMA Rewritten ==
    ASSUME NEW rep \in Values, NEW with \in Values, rep # with,
           NEW d \in AnyValue \cup AnyTerminator
    PROVE  LET n == Substituted(d, rep, with) IN
           /\ d \in AnyValue => n \in AnyValue
           /\ d \in AnyTerminator => n \in AnyTerminator
           /\ Uses(n) \subseteq Uses(d) \cup {with}
           /\ Targets(n) \subseteq Targets(d)
           /\ rep \in Uses(n) => d.k = "branch" /\ n.k = "jump" /\ rep \in n.args
<1>. DEFINE n == Substituted(d, rep, with)
            cond == IF d.cond = rep THEN with ELSE d.cond
<1>. HIDE DEF cond
<1>1. CASE d \in Constant
  <2>1. n = d
    BY <1>1 DEF Constant, Substituted
  <2>. QED  BY <1>1, <2>1, DataFacts DEF AnyValue, AnyTerminator, Constant
<1>2. CASE d \in [k : {"op"}, ops : SUBSET Operand]
  <2>1. n = [d EXCEPT !.ops = Subst(d.ops, rep, with)]
    BY <1>2 DEF Substituted
  <2>2. Subst(d.ops, rep, with) \in SUBSET Operand
    BY <1>2 DEF Subst, Operand
  <2>. QED  BY <1>2, <2>1, <2>2 DEF AnyValue, AnyTerminator, Uses, Targets, Subst
<1>3. CASE d \in [k : {"jump"}, target : Blocks, args : SUBSET Operand]
  <2>1. n = [d EXCEPT !.args = Subst(d.args, rep, with)]
    BY <1>3 DEF Substituted
  <2>2. Subst(d.args, rep, with) \in SUBSET Operand
    BY <1>3 DEF Subst, Operand
  <2>. QED  BY <1>3, <2>1, <2>2 DEF AnyValue, Constant, AnyTerminator, Uses, Targets, Subst
<1>4. CASE d \in [k : {"branch"}, cond : Values, t : Blocks, targs : SUBSET Operand,
                  f : Blocks, fargs : SUBSET Operand]
  <2>0. cond \in Values /\ cond # rep /\ (cond = d.cond \/ cond = with)
    BY <1>4 DEF cond
  <2>1. CASE data[cond].k = "int"
    <3>1. n = IF data[cond].zero
              THEN [k |-> "jump", target |-> d.f, args |-> d.fargs]
              ELSE [k |-> "jump", target |-> d.t, args |-> d.targs]
      BY <1>4, <2>1 DEF Substituted, cond
    <3>. QED  BY <1>4, <3>1 DEF AnyValue, Constant, AnyTerminator, Uses, Targets
  <2>2. CASE data[cond].k # "int"
    <3>1. n = [d EXCEPT !.cond = cond, !.targs = Subst(d.targs, rep, with),
                        !.fargs = Subst(d.fargs, rep, with)]
      BY <1>4, <2>2 DEF Substituted, cond
    <3>2. /\ Subst(d.targs, rep, with) \in SUBSET Operand
          /\ Subst(d.fargs, rep, with) \in SUBSET Operand
      BY <1>4 DEF Subst, Operand
    <3>3. /\ n.k = "branch" /\ n.cond = cond /\ n.t = d.t /\ n.f = d.f
          /\ n.targs = Subst(d.targs, rep, with)
          /\ n.fargs = Subst(d.fargs, rep, with)
          /\ n \in AnyTerminator
      BY Zenon, <1>4, <2>0, <3>1, <3>2 DEF AnyTerminator
    <3>4. Uses(n) = {cond} \cup n.targs \cup n.fargs /\ Targets(n) = Targets(d)
      BY <1>4, <3>3 DEF Uses, Targets
    <3>5. Uses(d) = {d.cond} \cup d.targs \cup d.fargs
      BY <1>4 DEF Uses
    <3>. QED  BY <1>4, <2>0, <3>3, <3>4, <3>5 DEF AnyValue, Constant, Subst
  <2>. QED  BY <2>1, <2>2
<1>. QED  BY <1>1, <1>2, <1>3, <1>4 DEF AnyValue, AnyTerminator

-----------------------------------------------------------------------------
(* The empty store satisfies the invariant. *)
LEMMA InitInv == Init => IInv
<1>. SUFFICES ASSUME Init PROVE IInv
  OBVIOUS
<1>1. \A i \in Inst : data[i] = (IF i \in Globals THEN Global ELSE NoData)
  BY DEF Init
<1>2. Live = Globals
  BY <1>1, DataFacts DEF Live, Inst
<1>3. Placed = {}
  BY DEF Init, Placed
<1>4. Typed
  BY <1>1, <1>2, <1>3, StoreAssumption DEF Init, Typed, Inst, Local
<1>5. \A i \in Inst : Uses(data[i]) = {} /\ Targets(data[i]) = {}
  BY <1>1, DataFacts
<1>6. FreshUnlinked /\ NoSelfUse
  BY Zenon, <1>5, StoreAssumption DEF Init, FreshUnlinked, NoSelfUse, Inst, Local
<1>7. UsersExact /\ TargetsExact
  BY Zenon, <1>2, <1>5, StoreAssumption DEF Init, UsersExact, TargetsExact, Inst, Local, Live
<1>. QED  BY <1>4, <1>6, <1>7 DEF IInv

(* A data entry of the right kind for the handle. *)
Fits(i, d) == \/ i \in Values /\ d \in AnyValue
              \/ i \in Terminators /\ d \in AnyTerminator

(* A new handle is in no reverse-use set and used by nothing. *)
LEMMA NewKeeps ==
    ASSUME IInv, NEW i, NEW d, Fits(i, d), New(i, d)
    PROVE  IInv'
<1>1. /\ i \in Local /\ i \in Inst /\ i \notin spent /\ i \notin Live
      /\ d # NoData /\ Uses(d) \subseteq Live \cap Operand
      /\ Targets(d) \subseteq Blocks /\ i \notin Globals
  BY StoreAssumption, DataFacts DEF IInv, Typed, New, Fits, Local, Inst
<1>2. /\ data'[i] = d
      /\ \A j \in Inst : j # i => data'[j] = data[j]
  BY <1>1 DEF IInv, Typed, New
<1>3. Live' = Live \cup {i} /\ Placed' = Placed
  BY <1>1, <1>2 DEF Live, Placed, New
<1>4. /\ \A j \in Inst : used_by'[j] = IF j \in Uses(d) THEN used_by[j] \cup {i}
                                                        ELSE used_by[j]
      /\ \A b \in Blocks : bb_used_by'[b] = IF b \in Targets(d)
                                            THEN bb_used_by[b] \cup {i} ELSE bb_used_by[b]
      /\ spent' = spent \cup {i} /\ UNCHANGED <<layout, parent, doomed>>
  BY DEF IInv, Typed, New, Linked
<1>5. /\ used_by' \in [Inst -> SUBSET Local]
      /\ bb_used_by' \in [Blocks -> SUBSET Terminators]
  <2>1. DOMAIN used_by' = Inst /\ DOMAIN bb_used_by' = Blocks
    BY DEF IInv, Typed, New, Linked
  <2>2. \A b \in Blocks : bb_used_by'[b] \subseteq Terminators
    <3>1. \A b \in Blocks : bb_used_by[b] \subseteq Terminators
      BY DEF IInv, Typed
    <3>2. Targets(d) # {} => i \in Terminators
      BY DataFacts DEF Fits
    <3>. QED  BY Zenon, <1>4, <3>1, <3>2
  <2>. QED  BY <1>1, <1>4, <2>1, <2>2 DEF IInv, Typed, New, Linked
<1>6. data' \in [Inst -> AnyValue \cup AnyTerminator \cup {NoData, Global}]
  BY <1>1 DEF IInv, Typed, New, Fits
<1>7. Typed'
  BY <1>1, <1>2, <1>3, <1>4, <1>5, <1>6, StoreAssumption
     DEF IInv, Typed, Fits, Local, Inst
<1>8. FreshUnlinked'
  <2>1. \A j \in Inst : Uses(data'[j]) \subseteq spent' \cup Globals
    BY <1>1, <1>2, <1>4 DEF IInv, Typed, FreshUnlinked
  <2>2. \A j \in Inst : used_by'[j] \subseteq spent'
    BY Zenon, <1>4 DEF IInv, FreshUnlinked
  <2>3. \A j \in Local \ spent' : used_by'[j] = {}
    BY Zenon, <1>1, <1>4, StoreAssumption DEF IInv, Typed, FreshUnlinked, Inst, Local
  <2>4. \A b \in Blocks : bb_used_by'[b] \subseteq spent'
    BY Zenon, <1>4 DEF IInv, FreshUnlinked
  <2>. QED  BY <2>1, <2>2, <2>3, <2>4 DEF FreshUnlinked
<1>9. NoSelfUse'
  BY <1>1, <1>2 DEF IInv, NoSelfUse
<1>10. \A j \in Inst : i \notin Uses(data[j])
  BY <1>1 DEF IInv, FreshUnlinked
<1>11. UsersExact'
  <2>1. ASSUME NEW v \in Values, v \in Live'
        PROVE  used_by'[v] = {j \in Live' : v \in Uses(data'[j])}
    <3>1. CASE v = i
      BY ZenonT(60), <1>1, <1>2, <1>3, <1>4, <1>10, <3>1 DEF IInv, FreshUnlinked, Live
    <3>2. CASE v # i
      <4>1. v \in Live /\ v \in Inst /\ used_by[v] = {j \in Live : v \in Uses(data[j])}
        BY <2>1, <1>3, <3>2 DEF IInv, UsersExact, Inst
      <4>. QED  BY ZenonT(60), <1>1, <1>2, <1>3, <1>4, <4>1 DEF Live
    <3>. QED  BY <3>1, <3>2
  <2>2. ASSUME NEW g \in Globals
        PROVE  {j \in Live' : g \in Uses(data'[j])} \subseteq used_by'[g]
    BY ZenonT(60), <1>1, <1>2, <1>3, <1>4 DEF IInv, UsersExact, Inst, Live
  <2>. QED  BY <2>1, <2>2 DEF UsersExact
<1>12. TargetsExact'
  <2>. SUFFICES ASSUME NEW b \in Blocks, NEW t \in Live'
                PROVE  t \in bb_used_by'[b] <=> b \in Targets(data'[t])
    BY DEF TargetsExact
  <2>1. CASE t = i
    BY Zenon, <1>1, <1>2, <1>4, <2>1 DEF IInv, FreshUnlinked
  <2>2. CASE t # i
    <3>1. t \in Live /\ t \in Inst
      BY <1>3, <2>2 DEF Live
    <3>2. data'[t] = data[t] /\ (t \in bb_used_by'[b] <=> t \in bb_used_by[b])
      BY Zenon, <1>2, <1>4, <2>2, <3>1
    <3>. QED  BY <3>1, <3>2 DEF IInv, TargetsExact
  <2>. QED  BY <2>1, <2>2
<1>. QED  BY <1>7, <1>8, <1>9, <1>11, <1>12 DEF IInv

(* Steps that change no link. *)
LEMMA LinksUnchanged ==
    ASSUME IInv, Typed', UNCHANGED <<data, used_by, bb_used_by, spent>>
    PROVE  IInv'
<1>1. Live' = Live
  BY DEF Live
<1>2. FreshUnlinked' /\ NoSelfUse'
  BY DEF IInv, FreshUnlinked, NoSelfUse
<1>3. UsersExact' /\ TargetsExact'
  BY <1>1 DEF IInv, UsersExact, TargetsExact
<1>. QED  BY <1>2, <1>3 DEF IInv

(* New data under the handle of a live instruction: it leaves the sets of  *)
(* what it used and enters those of what it uses now.                      *)
LEMMA UpdateKeeps ==
    ASSUME IInv, NEW i \in Live \ Globals, NEW d, Fits(i, d),
           Uses(d) \subseteq Live \ {i},
           data' = [data EXCEPT ![i] = d],
           used_by' = Linked(Unlinked(used_by, Uses(data[i]), i), Uses(d), i),
           bb_used_by' = Linked(Unlinked(bb_used_by, Targets(data[i]), i),
                                Targets(d), i),
           UNCHANGED <<layout, spent>>,
           parent' \in [Local -> Blocks \cup {NoBlock}],
           Placed' \subseteq Placed, doomed' \subseteq Placed'
    PROVE  IInv'
<1>1. /\ i \in Local /\ i \in Inst /\ i \in spent
      /\ d # NoData /\ Uses(d) \subseteq Operand /\ Targets(d) \subseteq Blocks
  BY StoreAssumption, DataFacts DEF IInv, Typed, Fits, Local, Inst, Live
<1>2. /\ data'[i] = d
      /\ \A j \in Inst : j # i => data'[j] = data[j]
  BY <1>1 DEF IInv, Typed
<1>3. Live' = Live
  BY <1>1, <1>2 DEF Live
<1>4. /\ \A j \in Inst : \A u : u # i => (u \in used_by'[j] <=> u \in used_by[j])
      /\ \A b \in Blocks : \A u : u # i => (u \in bb_used_by'[b] <=> u \in bb_used_by[b])
  BY DEF IInv, Typed, Linked, Unlinked
<1>5. /\ \A j \in Inst : i \in used_by'[j]
            <=> j \in Uses(d) \/ (i \in used_by[j] /\ j \notin Uses(data[i]))
      /\ \A b \in Blocks : i \in bb_used_by'[b]
            <=> b \in Targets(d) \/ (i \in bb_used_by[b] /\ b \notin Targets(data[i]))
  BY DEF IInv, Typed, Linked, Unlinked
<1>6. /\ used_by' \in [Inst -> SUBSET Local]
      /\ bb_used_by' \in [Blocks -> SUBSET Terminators]
  <2>1. DOMAIN used_by' = Inst /\ DOMAIN bb_used_by' = Blocks
    BY DEF IInv, Typed, Linked, Unlinked
  <2>2. \A j \in Inst : used_by'[j] \subseteq Local
    BY <1>1, <1>4 DEF IInv, Typed
  <2>3. \A b \in Blocks : bb_used_by'[b] \subseteq Terminators
    BY <1>4, <1>5, DataFacts DEF IInv, Typed, Fits
  <2>4. used_by' = [j \in Inst |-> used_by'[j]] /\ bb_used_by' = [b \in Blocks |-> bb_used_by'[b]]
    BY <2>1 DEF IInv, Typed, Linked, Unlinked
  <2>. QED  BY <2>2, <2>3, <2>4
<1>7. data' \in [Inst -> AnyValue \cup AnyTerminator \cup {NoData, Global}]
  BY <1>1 DEF IInv, Typed, Fits
<1>8. Typed'
  BY <1>1, <1>2, <1>3, <1>6, <1>7, StoreAssumption
     DEF IInv, Typed, Fits, Local, Inst
<1>9. FreshUnlinked'
  <2>1. \A j \in Inst : Uses(data'[j]) \subseteq spent' \cup Globals
    BY <1>1, <1>2 DEF IInv, Typed, FreshUnlinked
  <2>2. \A j \in Inst : used_by'[j] \subseteq spent'
    BY <1>1, <1>4 DEF IInv, FreshUnlinked
  <2>3. \A j \in Local \ spent' : used_by'[j] = {}
    <3>. SUFFICES ASSUME NEW j \in Local \ spent, NEW u \in used_by'[j] PROVE FALSE
      OBVIOUS
    <3>1. j \in Inst /\ j \notin Uses(d) /\ used_by[j] = {}
      BY <1>1, StoreAssumption DEF IInv, Typed, FreshUnlinked, Inst, Local
    <3>. QED  BY <1>4, <1>5, <3>1
  <2>4. \A b \in Blocks : bb_used_by'[b] \subseteq spent'
    BY <1>1, <1>4 DEF IInv, FreshUnlinked
  <2>. QED  BY <2>1, <2>2, <2>3, <2>4 DEF FreshUnlinked
<1>10. NoSelfUse'
  BY <1>1, <1>2 DEF IInv, NoSelfUse
<1>11. UsersExact'
  <2>1. ASSUME NEW v \in Values, v \in Live
        PROVE  used_by'[v] = {j \in Live : v \in Uses(data'[j])}
    <3>1. v \in Inst /\ used_by[v] = {j \in Live : v \in Uses(data[j])}
      BY <2>1 DEF IInv, UsersExact, Inst
    <3>2. i \in used_by'[v] <=> v \in Uses(data'[i])
      BY <1>2, <1>5, <3>1
    <3>3. \A u : u # i => (u \in used_by'[v] <=> u \in Live /\ v \in Uses(data'[u]))
      BY <1>2, <1>4, <3>1 DEF Live
    <3>. QED  BY <3>2, <3>3
  <2>2. ASSUME NEW g \in Globals, NEW u \in Live, g \in Uses(data'[u])
        PROVE  u \in used_by'[g]
    <3>1. g \in Inst /\ u \in Inst
      BY DEF Inst, Live
    <3>2. u # i => u \in used_by[g]
      BY <1>2, <2>2, <3>1 DEF IInv, UsersExact
    <3>. QED  BY <1>2, <1>4, <1>5, <2>2, <3>1, <3>2
  <2>. QED  BY <1>3, <2>1, <2>2 DEF UsersExact
<1>12. TargetsExact'
  <2>. SUFFICES ASSUME NEW b \in Blocks, NEW t \in Live
                PROVE  t \in bb_used_by'[b] <=> b \in Targets(data'[t])
    BY <1>3 DEF TargetsExact
  <2>1. t \in bb_used_by[b] <=> b \in Targets(data[t])
    BY DEF IInv, TargetsExact
  <2>2. CASE t = i
    BY <1>2, <1>5, <2>1, <2>2
  <2>3. CASE t # i
    BY <1>2, <1>4, <2>1, <2>3 DEF Live
  <2>. QED  BY <2>2, <2>3
<1>. QED  BY <1>8, <1>9, <1>10, <1>11, <1>12 DEF IInv

(* The instructions of S are gone; nothing else loses its data. *)
LEMMA FreedKeeps ==
    ASSUME IInv, NEW S \in SUBSET Placed, Freed(S), UNCHANGED spent,
           layout' \subseteq Blocks, doomed' \subseteq Placed \ S
    PROVE  IInv' /\ Live' = Live \ S /\ Placed' = Placed \ S
<1>1. S \subseteq Local /\ S \subseteq Inst /\ S \cap Globals = {}
  BY StoreAssumption DEF Placed, Local, Inst
<1>2. /\ \A j \in Inst : data'[j] = IF j \in S THEN NoData ELSE data[j]
      /\ \A j \in Inst : used_by'[j] \subseteq used_by[j]
      /\ \A b \in Blocks : bb_used_by'[b] \subseteq bb_used_by[b]
      /\ \A j \in Inst \ S : \A u \in used_by[j] :
            u \notin S => u \in used_by'[j]
      /\ \A b \in Blocks : \A u \in bb_used_by[b] :
            u \notin S => u \in bb_used_by'[b]
      /\ \A j \in Local \ S : \A u \in S : u \in used_by'[j] => j \notin Uses(data[u])
  BY DEF Freed, Detached, Inst, Local
<1>3. Live' = Live \ S
  BY <1>2 DEF Live
<1>4. Placed' = Placed \ S
  BY StoreAssumption DEF Freed, Placed
<1>5. Typed'
  <2>1. data' \in [Inst -> AnyValue \cup AnyTerminator \cup {NoData, Global}]
    BY DEF IInv, Typed, Freed, Detached
  <2>2. /\ \A v \in Values : data'[v] \in AnyValue \cup {NoData}
        /\ \A t \in Terminators : data'[t] \in AnyTerminator \cup {NoData}
        /\ \A g \in Globals : data'[g] = Global
    BY <1>1, <1>2 DEF IInv, Typed, Inst
  <2>3. used_by' \in [Inst -> SUBSET Local] /\ bb_used_by' \in [Blocks -> SUBSET Terminators]
    BY DEF IInv, Typed, Freed, Detached
  <2>4. parent' \in [Local -> Blocks \cup {NoBlock}]
    BY DEF IInv, Typed, Freed
  <2>5. Live' \subseteq spent' \cup Globals /\ Placed' \subseteq Live' /\ doomed' \subseteq Placed'
    BY <1>3, <1>4 DEF IInv, Typed
  <2>. QED  BY <2>1, <2>2, <2>3, <2>4, <2>5 DEF IInv, Typed
<1>6. \A j \in Inst : Uses(data'[j]) \subseteq Uses(data[j])
  BY <1>2, DataFacts
<1>7. FreshUnlinked'
  <2>1. \A j \in Local : j \in Inst
    BY DEF Local, Inst
  <2>. QED  BY <1>2, <1>6, <2>1 DEF IInv, FreshUnlinked
<1>8. NoSelfUse'
  BY <1>6 DEF IInv, NoSelfUse
<1>9. UsersExact'
  <2>1. ASSUME NEW v \in Values, v \in Live \ S
        PROVE  used_by'[v] = {j \in Live \ S : v \in Uses(data'[j])}
    <3>1. v \in Inst \ S /\ v \in Local \ S /\ used_by[v] = {j \in Live : v \in Uses(data[j])}
      BY <2>1 DEF IInv, UsersExact, Inst, Local
    <3>2. ASSUME NEW u \in used_by'[v] PROVE u \in Live \ S /\ v \in Uses(data'[u])
      <4>1. u \in Live /\ v \in Uses(data[u])
        BY <1>2, <3>1, <3>2
      <4>2. u \notin S
        BY <1>2, <3>1, <3>2, <4>1
      <4>. QED  BY <1>2, <4>1, <4>2 DEF Live
    <3>3. ASSUME NEW u \in Live \ S, v \in Uses(data'[u]) PROVE u \in used_by'[v]
      BY <1>2, <3>1, <3>3 DEF Live
    <3>. QED  BY <3>2, <3>3
  <2>2. ASSUME NEW g \in Globals, NEW u \in Live \ S, g \in Uses(data'[u])
        PROVE  u \in used_by'[g]
    <3>1. g \in Inst \ S /\ u \in Inst
      BY <1>1 DEF Inst, Live
    <3>2. u \in used_by[g]
      BY <1>6, <2>2, <3>1 DEF IInv, UsersExact
    <3>. QED  BY <1>2, <3>1, <3>2
  <2>. QED  BY <1>3, <2>1, <2>2 DEF UsersExact
<1>10. TargetsExact'
  BY <1>2, <1>3 DEF IInv, TargetsExact, Live
<1>. QED  BY <1>3, <1>4, <1>5, <1>7, <1>8, <1>9, <1>10 DEF IInv

-----------------------------------------------------------------------------
(* What `visit_and_replace` leaves: exactly the users of rep are rewritten. *)
LEMMA Replaced ==
    ASSUME IInv, NEW rep \in Values, NEW with \in Values, NEW gone \in BOOLEAN,
           ReplaceUses(rep, with, gone)
    PROVE  /\ rep \in Live /\ with \in Live /\ rep # with
           /\ used_by[rep] = {u \in Live : rep \in Uses(data[u])}
           /\ rep \notin used_by[rep] /\ with \notin used_by[rep]
           /\ used_by[rep] \subseteq Local
           /\ data'[rep] = IF gone THEN NoData ELSE data[rep]
           /\ \A u \in used_by[rep] : data'[u] = Substituted(data[u], rep, with)
           /\ \A j \in Inst : j # rep /\ j \notin used_by[rep] => data'[j] = data[j]
           /\ \A u \in used_by[rep] : data'[u] # NoData
           /\ Live' = IF gone THEN Live \ {rep} ELSE Live
           /\ data' \in [Inst -> AnyValue \cup AnyTerminator \cup {NoData, Global}]
<1>1. /\ rep \in Live /\ with \in Live /\ rep # with /\ rep \in Inst
      /\ with \notin used_by[rep]
  BY DEF IInv, Typed, ReplaceUses, Inst
<1>2. /\ used_by[rep] = {u \in Live : rep \in Uses(data[u])}
      /\ rep \notin used_by[rep] /\ used_by[rep] \subseteq Local
  BY <1>1 DEF IInv, Typed, UsersExact, NoSelfUse
<1>3. /\ data' = [i \in Inst |->
                    IF i = rep THEN (IF gone THEN NoData ELSE data[i])
                    ELSE IF i \in used_by[rep] THEN Substituted(data[i], rep, with)
                    ELSE data[i]]
  <2>. DEFINE new == [u \in used_by[rep] |-> Substituted(data[u], rep, with)]
  <2>1. data' = [i \in Inst |-> CASE i = rep -> IF gone THEN NoData ELSE data[i]
                                  [] i \in used_by[rep] /\ i # rep -> new[i]
                                  [] OTHER -> data[i]]
    BY DEF ReplaceUses
  <2>2. \A i \in used_by[rep] : new[i] = Substituted(data[i], rep, with)
    OBVIOUS
  <2>. HIDE DEF new
  <2>3. \A i \in Inst :
          data'[i] = IF i = rep THEN (IF gone THEN NoData ELSE data[i])
                     ELSE IF i \in used_by[rep] THEN Substituted(data[i], rep, with)
                     ELSE data[i]
    BY <2>1, <2>2
  <2>. QED  BY <2>1, <2>3
<1>4. \A u \in used_by[rep] :
        /\ u \in Inst /\ data[u] \in AnyValue \cup AnyTerminator
        /\ data'[u] = Substituted(data[u], rep, with)
  <2>1. ASSUME NEW u \in used_by[rep]
        PROVE  u \in Inst /\ data[u] \in AnyValue \cup AnyTerminator
    <3>1. u \in Local /\ data[u] # NoData
      BY <1>2 DEF Live
    <3>. QED  BY <3>1 DEF IInv, Typed, Local, Inst
  <2>. QED  BY <1>2, <1>3, <2>1
<1>5. \A u \in used_by[rep] : data'[u] \in AnyValue \cup AnyTerminator /\ data'[u] # NoData
  BY <1>1, <1>4, Rewritten, DataFacts
<1>6. Live' = IF gone THEN Live \ {rep} ELSE Live
  BY <1>1, <1>2, <1>3, <1>5 DEF Live
<1>7. data' \in [Inst -> AnyValue \cup AnyTerminator \cup {NoData, Global}]
  <2>1. \A i \in Inst : data'[i] \in AnyValue \cup AnyTerminator \cup {NoData, Global}
    BY <1>3, <1>5 DEF IInv, Typed
  <2>. QED  BY <1>3, <2>1
<1>. QED  BY <1>1, <1>2, <1>3, <1>4, <1>5, <1>6, <1>7

(* Replacing every use of a value keeps the invariant. *)
LEMMA ReplaceUsesKeeps ==
    ASSUME IInv, Idle, NEW rep \in Values, NEW with \in Values, NEW gone \in BOOLEAN,
           ReplaceUses(rep, with, gone)
    PROVE  IInv'
<1>. DEFINE users == used_by[rep]
<1>1. /\ rep \in Live /\ with \in Live /\ rep # with
      /\ users = {u \in Live : rep \in Uses(data[u])}
      /\ rep \notin users /\ with \notin users /\ users \subseteq Local
      /\ data'[rep] = IF gone THEN NoData ELSE data[rep]
      /\ \A u \in users : data'[u] = Substituted(data[u], rep, with)
      /\ \A j \in Inst : j # rep /\ j \notin users => data'[j] = data[j]
      /\ Live' = IF gone THEN Live \ {rep} ELSE Live
      /\ data' \in [Inst -> AnyValue \cup AnyTerminator \cup {NoData, Global}]
  BY Replaced, SMTT(20)
<1>2. \A u \in users : u \in Inst /\ data[u] \in AnyValue \cup AnyTerminator
  <2>1. ASSUME NEW u \in users
        PROVE  u \in Inst /\ data[u] \in AnyValue \cup AnyTerminator
    <3>1. u \in Local /\ data[u] # NoData
      BY <1>1 DEF Live
    <3>. QED  BY <3>1 DEF IInv, Typed, Local, Inst
  <2>. QED  BY <2>1
<1>3. \A u \in users :
        /\ data[u] \in AnyValue => data'[u] \in AnyValue
        /\ data[u] \in AnyTerminator => data'[u] \in AnyTerminator
        /\ Uses(data'[u]) \subseteq Uses(data[u]) \cup {with}
        /\ Targets(data'[u]) \subseteq Targets(data[u])
  <2>1. ASSUME NEW u \in users
        PROVE  /\ data[u] \in AnyValue => data'[u] \in AnyValue
               /\ data[u] \in AnyTerminator => data'[u] \in AnyTerminator
               /\ Uses(data'[u]) \subseteq Uses(data[u]) \cup {with}
               /\ Targets(data'[u]) \subseteq Targets(data[u])
    <3>1. data'[u] = Substituted(data[u], rep, with) /\ data[u] \in AnyValue \cup AnyTerminator
      BY <1>1, <1>2
    <3>. QED  BY <1>1, <3>1, Rewritten
  <2>. QED  BY <2>1
<1>4. \A j \in Inst : \A u : u \in used_by'[j] <=>
        /\ IF u \in users THEN j \in Uses(data'[u]) ELSE u \in used_by[j]
        /\ gone => j # rep /\ ~(u = rep /\ j \in Uses(data[rep]) \cap Local)
  <2>. DEFINE new == [u \in users |-> Substituted(data[u], rep, with)]
              left(j) == (used_by[j] \ users) \cup {u \in users : j \in Uses(new[u])}
  <2>1. used_by' = [j \in Inst |->
                     CASE ~gone -> left(j)
                       [] gone /\ j = rep -> {}
                       [] gone /\ j # rep ->
                            IF j \in Uses(data[rep]) \cap Local
                            THEN left(j) \ {rep} ELSE left(j)]
    BY DEF ReplaceUses
  <2>2. \A j, u : u \in left(j) <=>
          IF u \in users THEN j \in Uses(data'[u]) ELSE u \in used_by[j]
    BY <1>1
  <2>. HIDE DEF left
  <2>3. ASSUME NEW j \in Inst
        PROVE  used_by'[j] = IF ~gone THEN left(j)
                             ELSE IF j = rep THEN {}
                             ELSE IF j \in Uses(data[rep]) \cap Local
                             THEN left(j) \ {rep} ELSE left(j)
    <3>1. CASE ~gone
      BY <2>1, <3>1
    <3>2. CASE gone /\ j = rep
      BY Zenon, <2>1, <3>2
    <3>3. CASE gone /\ j # rep
      BY Zenon, <2>1, <3>3
    <3>. QED  BY <3>1, <3>2, <3>3
  <2>. QED  BY ZenonT(60), <2>2, <2>3
<1>5. \A b \in Blocks : \A t : t \in bb_used_by'[b] <=>
        t \in bb_used_by[b] /\ (t \in users => b \in Targets(data'[t]))
  <2>. DEFINE new == [u \in users |-> Substituted(data[u], rep, with)]
  <2>1. bb_used_by' = [b \in Blocks |->
                         {t \in bb_used_by[b] : t \in users => b \in Targets(new[t])}]
    BY DEF ReplaceUses
  <2>. QED  BY <1>1, <2>1
<1>6. /\ parent' = [parent EXCEPT ![rep] = IF gone THEN NoBlock ELSE @]
      /\ UNCHANGED <<layout, spent, doomed>> /\ doomed = {}
  BY DEF ReplaceUses, Idle
<1>7. \A j \in Inst : Uses(data'[j]) \subseteq Uses(data[j]) \cup (IF j \in users THEN {with} ELSE {})
  BY <1>1, <1>3, DataFacts
<1>8. Typed'
  <2>1. /\ \A v \in Values : data'[v] \in AnyValue \cup {NoData}
        /\ \A t \in Terminators : data'[t] \in AnyTerminator \cup {NoData}
        /\ \A g \in Globals : data'[g] = Global
    <3>1. ASSUME NEW v \in Values PROVE data'[v] \in AnyValue \cup {NoData}
      <4>1. CASE v \in users
        BY <1>1, <1>2, <1>3, <4>1, DataFacts DEF IInv, Typed, Live
      <4>. QED  BY <1>1, <4>1 DEF IInv, Typed, Inst
    <3>2. ASSUME NEW t \in Terminators PROVE data'[t] \in AnyTerminator \cup {NoData}
      <4>0. t # rep /\ t \in Inst
        BY StoreAssumption DEF Inst
      <4>1. CASE t \in users
        BY <1>1, <1>2, <1>3, <4>1, DataFacts DEF IInv, Typed, Live
      <4>. QED  BY <1>1, <4>0, <4>1 DEF IInv, Typed
    <3>3. ASSUME NEW g \in Globals PROVE data'[g] = Global
      BY <1>1, StoreAssumption DEF IInv, Typed, Inst, Local
    <3>. QED  BY <3>1, <3>2, <3>3
  <2>2. used_by' \in [Inst -> SUBSET Local]
    <3>1. used_by' = [j \in Inst |-> used_by'[j]]
      BY DEF ReplaceUses
    <3>2. \A j \in Inst : used_by'[j] \subseteq Local
      BY <1>1, <1>4 DEF IInv, Typed
    <3>. QED  BY <3>1, <3>2
  <2>3. bb_used_by' \in [Blocks -> SUBSET Terminators]
    <3>1. bb_used_by' = [b \in Blocks |-> bb_used_by'[b]]
      BY DEF ReplaceUses
    <3>2. \A b \in Blocks : bb_used_by'[b] \subseteq Terminators
      BY <1>5 DEF IInv, Typed
    <3>. QED  BY <3>1, <3>2
  <2>4. parent' \in [Local -> Blocks \cup {NoBlock}] /\ Placed' = IF gone THEN Placed \ {rep} ELSE Placed
    BY <1>6, StoreAssumption DEF IInv, Typed, Placed, Local
  <2>5. Live' \subseteq spent' \cup Globals /\ Placed' \subseteq Live' /\ doomed' \subseteq Placed'
    BY <1>1, <1>6, <2>4 DEF IInv, Typed
  <2>. QED  BY <1>1, <1>6, <2>1, <2>2, <2>3, <2>4, <2>5 DEF IInv, Typed
<1>9. FreshUnlinked'
  <2>0. with \in spent \cup Globals /\ users \subseteq spent /\ rep \in spent
    BY <1>1, StoreAssumption DEF IInv, Typed, Local
  <2>1. \A j \in Inst : Uses(data'[j]) \subseteq spent' \cup Globals
    BY <1>6, <1>7, <2>0 DEF IInv, FreshUnlinked
  <2>2. \A j \in Inst : used_by'[j] \subseteq spent'
    BY <1>4, <1>6, <2>0 DEF IInv, FreshUnlinked
  <2>3. ASSUME NEW j \in Local \ spent PROVE used_by'[j] = {}
    <3>1. j \in Inst /\ j \notin Globals /\ used_by[j] = {}
      BY StoreAssumption DEF IInv, FreshUnlinked, Local, Inst
    <3>2. \A u \in users : j \notin Uses(data'[u])
      BY <1>2, <1>6, <2>1, <3>1
    <3>. QED  BY <1>4, <3>1, <3>2
  <2>4. \A b \in Blocks : bb_used_by'[b] \subseteq spent'
    BY <1>5, <1>6 DEF IInv, FreshUnlinked
  <2>. QED  BY <1>6, <2>1, <2>2, <2>3, <2>4 DEF FreshUnlinked
<1>10. NoSelfUse'
  BY <1>1, <1>7 DEF IInv, NoSelfUse
<1>11. UsersExact'
  <2>1. ASSUME NEW v \in Values, v \in Live'
        PROVE  used_by'[v] = {j \in Live' : v \in Uses(data'[j])}
    <3>1. /\ v \in Inst /\ v \in Local /\ v \in Live
          /\ used_by[v] = {j \in Live : v \in Uses(data[j])}
          /\ gone => v # rep
      BY <1>1, <2>1 DEF IInv, UsersExact, Inst, Local
    <3>2. ASSUME NEW u \in users
          PROVE  u \in used_by'[v] <=> u \in Live' /\ v \in Uses(data'[u])
      BY <1>1, <1>4, <3>1, <3>2
    <3>3. ASSUME NEW u, u \notin users, u # rep
          PROVE  u \in used_by'[v] <=> u \in Live' /\ v \in Uses(data'[u])
      <4>1. u \in used_by'[v] <=> u \in Live /\ v \in Uses(data[u])
        BY <1>4, <3>1, <3>3
      <4>2. u \in Live' <=> u \in Live
        BY <1>1, <3>3
      <4>. QED  BY <1>1, <3>3, <4>1, <4>2 DEF Live
    <3>4. rep \in used_by'[v] <=> rep \in Live' /\ v \in Uses(data'[rep])
      BY <1>1, <1>4, <3>1
    <3>. QED  BY <3>2, <3>3, <3>4
  <2>2. ASSUME NEW g \in Globals, NEW u \in Live', g \in Uses(data'[u])
        PROVE  u \in used_by'[g]
    <3>1. g \in Inst /\ g \notin Local /\ g # rep /\ u \in Inst /\ u \in Live
      BY <1>1, StoreAssumption DEF Inst, Live, Local
    <3>2. CASE u \in users
      BY <1>4, <2>2, <3>1, <3>2
    <3>3. CASE u \notin users
      <4>1. data'[u] = data[u]
        BY <1>1, <3>1, <3>3
      <4>2. u \in used_by[g]
        BY <2>2, <3>1, <4>1 DEF IInv, UsersExact
      <4>. QED  BY <1>4, <3>1, <3>3, <4>2
    <3>. QED  BY <3>2, <3>3
  <2>. QED  BY <2>1, <2>2 DEF UsersExact
<1>12. TargetsExact'
  <2>. SUFFICES ASSUME NEW b \in Blocks, NEW t \in Live'
                PROVE  t \in bb_used_by'[b] <=> b \in Targets(data'[t])
    BY DEF TargetsExact
  <2>1. t \in Live /\ t \in Inst /\ (t \in bb_used_by[b] <=> b \in Targets(data[t]))
    BY <1>1 DEF IInv, TargetsExact, Live
  <2>2. CASE t \in users
    BY <1>3, <1>5, <2>1, <2>2
  <2>3. CASE t \notin users
    BY <1>1, <1>5, <2>1, <2>3
  <2>. QED  BY <2>2, <2>3
<1>. QED  BY <1>8, <1>9, <1>10, <1>11, <1>12 DEF IInv

-----------------------------------------------------------------------------
(* Every operation keeps the links: one step per disjunct of Next. *)
LEMMA NextKeeps == IInv /\ [Next]_vars => IInv'
<1>. SUFFICES ASSUME IInv, [Next]_vars PROVE IInv'
  OBVIOUS
<1>1. ASSUME NEW v \in Values, NEW d \in Value, New(v, d) PROVE IInv'
  BY <1>1, NewKeeps, DataFacts DEF Fits
<1>2. ASSUME NEW t \in Terminators, NEW d \in Terminator, New(t, d) PROVE IInv'
  BY <1>2, NewKeeps, DataFacts DEF Fits
<1>3. ASSUME NEW i, NEW d, Fits(i, d), Replace(i, d) PROVE IInv'
  <2>1. /\ i \in Live \ Globals /\ Uses(d) \subseteq Live \ {i}
        /\ parent' \in [Local -> Blocks \cup {NoBlock}]
        /\ Placed' \subseteq Placed /\ doomed' \subseteq Placed'
    BY <1>3 DEF Replace, IInv, Typed, Placed
  <2>. QED  BY Zenon, <1>3, <2>1, UpdateKeeps DEF Replace
<1>4. ASSUME NEW v \in Values, NEW d \in Constant, Idle, Detach(v, d) PROVE IInv'
  <2>1. /\ v \in Live \ Globals /\ v \in Inst /\ Fits(v, d)
        /\ Uses(d) = {} /\ Targets(d) = {} /\ Targets(data[v]) = {}
    BY <1>4, DataFacts, StoreAssumption
       DEF Detach, IInv, Typed, Fits, Placed, Local, Inst, Live
  <2>2. /\ used_by' = Linked(Unlinked(used_by, Uses(data[v]), v), Uses(d), v)
        /\ bb_used_by' = Linked(Unlinked(bb_used_by, Targets(data[v]), v), Targets(d), v)
    BY <1>4, <2>1 DEF Detach, IInv, Typed, Linked, Unlinked
  <2>3. /\ parent' \in [Local -> Blocks \cup {NoBlock}]
        /\ Placed' \subseteq Placed /\ doomed' \subseteq Placed'
    BY <1>4 DEF Detach, Idle, IInv, Typed, Placed
  <2>. QED  BY Zenon, <1>4, <2>1, <2>2, <2>3, UpdateKeeps DEF Detach
<1>5. ASSUME NEW b \in Blocks, PlaceBlock(b) PROVE IInv'
  <2>1. Typed'
    BY <1>5 DEF PlaceBlock, IInv, Typed, Live, Placed
  <2>. QED  BY <1>5, <2>1, LinksUnchanged DEF PlaceBlock
<1>6. ASSUME NEW i \in Local, NEW b \in Blocks, Idle, Place(i, b) PROVE IInv'
  <2>1. Live' = Live /\ Placed' \subseteq Placed \cup {i} /\ i \in Live
    BY <1>6 DEF Place, Live, Placed, IInv, Typed
  <2>2. Typed'
    BY <1>6, <2>1 DEF Place, Idle, IInv, Typed
  <2>. QED  BY <1>6, <2>2, LinksUnchanged DEF Place
<1>7. ASSUME NEW live, Mark(live) PROVE IInv'
  <2>1. Live' = Live /\ Placed' = Placed
    BY <1>7 DEF Mark, Live, Placed
  <2>2. Typed'
    BY <1>7, <2>1 DEF Mark, IInv, Typed
  <2>. QED  BY <1>7, <2>2, LinksUnchanged DEF Mark
<1>8. ASSUME NEW i \in Local, Idle, RemoveInst(i) PROVE IInv'
  BY <1>8, FreedKeeps DEF RemoveInst, Idle, IInv, Typed
<1>9. ASSUME NEW i \in Local, Sweep(i) PROVE IInv'
  BY <1>9, FreedKeeps DEF Sweep, IInv, Typed
<1>10. ASSUME NEW b \in Blocks, Idle, RemoveBlock(b) PROVE IInv'
  BY <1>10, FreedKeeps DEF RemoveBlock, InstsOf, Idle, IInv, Typed
<1>11. ASSUME NEW rep \in Values, NEW with \in Values, NEW gone \in BOOLEAN,
              Idle, ReplaceUses(rep, with, gone)
       PROVE  IInv'
  BY <1>11, ReplaceUsesKeeps
<1>12. CASE UNCHANGED vars
  <2>1. Typed'
    BY <1>12 DEF vars, IInv, Typed, Live, Placed
  <2>. QED  BY <1>12, <2>1, LinksUnchanged DEF vars
<1>13. ASSUME NEW v \in Values, NEW d \in Op, Replace(v, d) PROVE IInv'
  BY <1>3, <1>13, DataFacts DEF Fits
<1>14. ASSUME NEW t \in Terminators, NEW d \in Terminator, Replace(t, d) PROVE IInv'
  BY <1>3, <1>14, DataFacts DEF Fits
<1>. QED  BY <1>1, <1>2, <1>4, <1>5, <1>6, <1>7, <1>8, <1>9, <1>10, <1>11, <1>12,
             <1>13, <1>14 DEF Next

(* The invariant holds in every execution. *)
LEMMA SpecInv == Spec => []IInv
  BY InitInv, NextKeeps, PTL DEF Spec

(* The reverse-use sets of the arena (`used_by` of ir/arena.rs, kept by    *)
(* alloc_local_inst, replace_inst_with, detach_inst_usage and              *)
(* visit_and_replace) hold exactly the live users of every live value,     *)
(* whatever operations the passes run and in whatever order.               *)
THEOREM UseSetsExact == Spec => []UsersExact
<1>1. IInv => UsersExact
  BY DEF IInv
<1>. QED  BY <1>1, SpecInv, PTL

(* The users of a block that are in the layout are exactly the terminators *)
(* that target it: the predecessors the passes collect from a block's      *)
(* `used_by` set are the real ones.                                        *)
THEOREM PredecessorsExact == Spec => []PredecessorsFound
<1>1. IInv => PredecessorsFound
  BY DEF IInv, Typed, TargetsExact, PredecessorsFound
<1>. QED  BY <1>1, SpecInv, PTL

-----------------------------------------------------------------------------
(* No instruction has more operands than its kind allows. *)
Sized ==
    /\ removed \subseteq Blocks
    /\ \A i \in Local : data[i] \in Value \cup Terminator \cup {NoData}

(* Substituting an operand adds none. *)
LEMMA SubstSize ==
    ASSUME NEW S \in Sets(Operand), NEW rep \in Values, NEW with \in Values
    PROVE  Subst(S, rep, with) \in Sets(Operand)
<1>1. S \in SUBSET Operand /\ IsFiniteSet(S) /\ Cardinality(S) <= MaxOperands
  BY StoreAssumption, FS_Subset DEF Sets
<1>2. Subst(S, rep, with) \in SUBSET Operand
  BY <1>1 DEF Subst, Operand
<1>3. CASE rep \in S
  <2>1. /\ IsFiniteSet(S \ {rep}) /\ Cardinality(S \ {rep}) = Cardinality(S) - 1
    BY <1>1, <1>3, FS_RemoveElement
  <2>2. Cardinality((S \ {rep}) \cup {with}) \in {Cardinality(S) - 1, Cardinality(S)}
    <3>. DEFINE R == S \ {rep}
    <3>1. Cardinality(R \cup {with})
            = IF with \in R THEN Cardinality(R) ELSE Cardinality(R) + 1
      BY Zenon, <2>1, FS_AddElement
    <3>2. Cardinality(S) \in Nat /\ Cardinality(R) = Cardinality(S) - 1
      BY <1>1, <2>1, FS_CardinalityType
    <3>. HIDE DEF R
    <3>3. Cardinality(R \cup {with}) \in {Cardinality(S) - 1, Cardinality(S)}
      BY <3>1, <3>2
    <3>. QED  BY <3>3 DEF R
  <2>3. Cardinality((S \ {rep}) \cup {with}) <= MaxOperands
    BY <1>1, <2>2, FS_CardinalityType, StoreAssumption
  <2>. QED  BY <1>2, <1>3, <2>3 DEF Subst, Sets
<1>4. CASE rep \notin S
  BY <1>1, <1>4 DEF Subst, Sets
<1>. QED  BY <1>3, <1>4

(* A rewritten user is as large as before. *)
LEMMA RewrittenSize ==
    ASSUME NEW rep \in Values, NEW with \in Values, NEW d \in Value \cup Terminator
    PROVE  Substituted(d, rep, with) \in Value \cup Terminator
<1>. DEFINE n == Substituted(d, rep, with)
            cond == IF d.cond = rep THEN with ELSE d.cond
<1>1. CASE d \in Constant
  <2>1. n = d
    BY <1>1 DEF Constant, Substituted
  <2>. QED  BY <2>1
<1>2. CASE d \in Op
  <2>1. n = [d EXCEPT !.ops = Subst(d.ops, rep, with)]
    BY <1>2 DEF Op, Substituted
  <2>2. n \in Op
    BY <1>2, <2>1, SubstSize DEF Op
  <2>. QED  BY <2>2 DEF Value
<1>3. CASE d \in Jump
  <2>1. n = [d EXCEPT !.args = Subst(d.args, rep, with)]
    BY <1>3 DEF Jump, Substituted
  <2>2. n \in Jump
    BY <1>3, <2>1, SubstSize DEF Jump
  <2>. QED  BY <2>2 DEF Terminator
<1>4. CASE d \in Branch
  <2>1. cond \in Values
    BY <1>4 DEF Branch
  <2>2. CASE data[cond].k = "int"
    <3>1. n = IF data[cond].zero
              THEN [k |-> "jump", target |-> d.f, args |-> d.fargs]
              ELSE [k |-> "jump", target |-> d.t, args |-> d.targs]
      BY <1>4, <2>2 DEF Branch, Substituted
    <3>2. n \in Jump
      BY <1>4, <3>1 DEF Branch, Jump
    <3>. QED  BY <3>2 DEF Terminator
  <2>3. CASE data[cond].k # "int"
    <3>1. n = [d EXCEPT !.cond = cond, !.targs = Subst(d.targs, rep, with),
                        !.fargs = Subst(d.fargs, rep, with)]
      BY <1>4, <2>3 DEF Branch, Substituted
    <3>2. /\ Subst(d.targs, rep, with) \in Sets(Operand)
          /\ Subst(d.fargs, rep, with) \in Sets(Operand)
      BY <1>4, SubstSize DEF Branch
    <3>3. n \in Branch
      <4>. HIDE DEF n, cond
      <4>. QED  BY Zenon, <1>4, <2>1, <3>1, <3>2 DEF Branch
    <3>. QED  BY <3>3 DEF Terminator
  <2>. QED  BY <2>2, <2>3
<1>. QED  BY <1>1, <1>2, <1>3, <1>4 DEF Value, Terminator

(* Every operation hands out and rewrites data within the bounds. *)
LEMMA SizedKept == IInv /\ Sized /\ [Next]_vars => Sized'
<1>. SUFFICES ASSUME IInv, Sized, [Next]_vars PROVE Sized'
  OBVIOUS
<1>0. /\ data \in [Inst -> AnyValue \cup AnyTerminator \cup {NoData, Global}]
      /\ used_by \in [Inst -> SUBSET Local]
  BY DEF IInv, Typed
<1>1. ASSUME NEW i \in Local, NEW d \in Value \cup Terminator,
             New(i, d) \/ Replace(i, d) \/ Detach(i, d)
      PROVE  Sized'
  BY <1>0, <1>1 DEF New, Replace, Detach, Sized, Inst, Local
<1>2. ASSUME NEW S, Freed(S), removed' \subseteq Blocks PROVE Sized'
  BY <1>0, <1>2 DEF Freed, Detached, Sized, Inst, Local
<1>3. ASSUME NEW b \in Blocks, RemoveBlock(b) PROVE Sized'
  BY <1>2, <1>3 DEF RemoveBlock, Sized
<1>4. ASSUME NEW i \in Local, RemoveInst(i) \/ Sweep(i) PROVE Sized'
  BY <1>2, <1>4 DEF RemoveInst, Sweep, Sized
<1>5. CASE UNCHANGED <<data, removed>>
  BY <1>5 DEF Sized
<1>6. ASSUME NEW rep \in Values, NEW with \in Values, NEW gone \in BOOLEAN,
             ReplaceUses(rep, with, gone)
      PROVE  Sized'
  <2>1. removed' = removed
    BY <1>6 DEF ReplaceUses
  <2>2. ASSUME NEW i \in Local PROVE data'[i] \in Value \cup Terminator \cup {NoData}
    <3>1. i \in Inst /\ data[i] \in Value \cup Terminator \cup {NoData}
      BY DEF Sized, Inst, Local
    <3>2. data'[i] \in {NoData, data[i]}
            \/ (i \in used_by[rep] /\ data'[i] = Substituted(data[i], rep, with))
      BY <1>6, <3>1 DEF ReplaceUses
    <3>3. ASSUME i \in used_by[rep] PROVE data[i] # NoData
      BY <1>6, <3>3 DEF IInv, UsersExact, ReplaceUses, Live, Placed, Typed, Inst, Local
    <3>. QED  BY <3>1, <3>2, <3>3, RewrittenSize
  <2>. QED  BY <2>1, <2>2 DEF Sized
<1>. QED  BY <1>1, <1>3, <1>4, <1>5, <1>6
  DEF Next, vars, PlaceBlock, Place, Mark, Local, Value

(* Values stay values, terminators stay terminators, and no rewrite makes  *)
(* an instruction larger than its kind allows: what `visit_and_replace`    *)
(* and `replace_inst_with` put into the arena is data the passes know.     *)
THEOREM TypeCorrect == Spec => []TypeOK
<1>1. Init => Sized
  <2>. SUFFICES ASSUME Init PROVE Sized
    OBVIOUS
  <2>1. \A i \in Local : i \in Inst /\ i \notin Globals
    BY StoreAssumption DEF Inst, Local
  <2>2. removed = {} /\ \A i \in Local : data[i] = NoData
    BY <2>1 DEF Init
  <2>. QED  BY <2>2 DEF Sized
<1>2. IInv /\ Sized => TypeOK
  <2>. SUFFICES ASSUME IInv, Sized PROVE TypeOK
    OBVIOUS
  <2>1. Typed
    BY DEF IInv
  <2>2. \A v \in Values : data[v] \in Value \cup {NoData}
    <3>1. AnyValue \cap Terminator = {}
      BY DEF AnyValue, Constant, Terminator, Jump, Branch
    <3>. QED  BY <2>1, <3>1 DEF Typed, Sized, Local
  <2>3. \A t \in Terminators : data[t] \in Terminator \cup {NoData}
    <3>1. AnyTerminator \cap Value = {}
      BY DEF AnyTerminator, Value, Constant, Op
    <3>. QED  BY <2>1, <3>1 DEF Typed, Sized, Local
  <2>4. data \in [Inst -> Value \cup Terminator \cup {NoData, Global}]
    BY <2>1, <2>2, <2>3 DEF Typed, Inst
  <2>. QED  BY <2>1, <2>2, <2>3, <2>4 DEF Typed, Sized, TypeOK
<1>. QED  BY <1>1, <1>2, SpecInv, SizedKept, PTL DEF Spec

-----------------------------------------------------------------------------
(* Removing values that nothing uses takes no operand away: a terminator   *)
(* is no operand, and a value's users are all in its set.                  *)
LEMMA UnusedRemovalKeepsOperands ==
    ASSUME IInv, SurvivorsKeepOperands, Idle, NEW S \in SUBSET Placed, Freed(S),
           UNCHANGED <<spent, doomed>>, layout' \subseteq Blocks,
           \A i \in S : used_by[i] = {}
    PROVE  SurvivorsKeepOperands'
<1>1. Live' = Live \ S /\ doomed = {} /\ doomed' = {}
  BY FreedKeeps DEF Idle, IInv, Typed
<1>. SUFFICES ASSUME NEW i \in Live', NEW u \in Uses(data'[i])
              PROVE  u \in Live'
  BY <1>1 DEF SurvivorsKeepOperands
<1>2. i \in Inst /\ i \in Live /\ data'[i] = data[i]
  BY <1>1 DEF Freed, Detached, Live
<1>3. u \in Live /\ u \in Operand
  BY <1>1, <1>2, DataFacts DEF SurvivorsKeepOperands, IInv, Typed
<1>4. u \notin S
  <2>. SUFFICES ASSUME u \in S PROVE FALSE
    OBVIOUS
  <2>1. u \in Values
    BY <1>3, StoreAssumption DEF Operand, Placed, Local
  <2>. QED  BY <1>2, <1>3, <2>1 DEF IInv, UsersExact
<1>. QED  BY <1>1, <1>3, <1>4

(* Outside a rewrite that folds a branch passing the rewritten value on,   *)
(* what survives a removal keeps its operands.                             *)
LEMMA NextKeepsOperands ==
    ASSUME ~FoldsArguments
    PROVE  IInv /\ SurvivorsKeepOperands /\ [Next]_vars => SurvivorsKeepOperands'
<1>. SUFFICES ASSUME IInv, SurvivorsKeepOperands, [Next]_vars
              PROVE  SurvivorsKeepOperands'
  OBVIOUS
<1>1. ASSUME NEW i, NEW d, Idle, i \in Local, d # NoData, Uses(d) \subseteq Live,
             data' = [data EXCEPT ![i] = d], UNCHANGED doomed
      PROVE  SurvivorsKeepOperands'
  <2>1. /\ data'[i] = d /\ \A j \in Inst : j # i => data'[j] = data[j]
        /\ i \in Inst
    BY <1>1 DEF IInv, Typed, Local, Inst
  <2>2. Live' = Live \cup {i}
    BY <1>1, <2>1 DEF Live
  <2>. QED  BY <1>1, <2>1, <2>2 DEF SurvivorsKeepOperands, Idle, Live
<1>2. ASSUME NEW v \in Values, NEW d \in Value, Idle, New(v, d)
      PROVE  SurvivorsKeepOperands'
  BY Zenon, <1>1, <1>2, DataFacts DEF New, Local
<1>3. ASSUME NEW t \in Terminators, NEW d \in Terminator, Idle, New(t, d)
      PROVE  SurvivorsKeepOperands'
  BY Zenon, <1>1, <1>3, DataFacts DEF New, Local
<1>4. ASSUME NEW v \in Values, NEW d \in Op, Idle, Replace(v, d)
      PROVE  SurvivorsKeepOperands'
  BY Zenon, <1>1, <1>4, DataFacts DEF Replace, Local
<1>5. ASSUME NEW t \in Terminators, NEW d \in Terminator, Idle, Replace(t, d)
      PROVE  SurvivorsKeepOperands'
  BY Zenon, <1>1, <1>5, DataFacts DEF Replace, Local
<1>6. ASSUME NEW v \in Values, NEW d \in Constant, Idle, Detach(v, d)
      PROVE  SurvivorsKeepOperands'
  <2>1. Uses(d) = {} /\ d # NoData
    BY DataFacts
  <2>. QED  BY Zenon, <1>1, <1>6, <2>1 DEF Detach, Local
<1>7. ASSUME UNCHANGED <<data, doomed>> PROVE SurvivorsKeepOperands'
  BY <1>7 DEF SurvivorsKeepOperands, Live
<1>8. ASSUME NEW live \in SUBSET (Live \cap Local), Idle, Mark(live)
      PROVE  SurvivorsKeepOperands'
  <2>1. Live' = Live /\ data' = data /\ doomed = {} /\ doomed' = Placed \ live
    BY <1>8 DEF Mark, Live, Idle
  <2>. SUFFICES ASSUME NEW i \in Live, i \notin Placed \ live, NEW u \in Uses(data[i])
                PROVE  u \in Live /\ u \notin Placed \ live
    BY <2>1 DEF SurvivorsKeepOperands
  <2>2. u \in Live
    BY <2>1 DEF SurvivorsKeepOperands
  <2>3. i \in Local
    BY DataFacts DEF IInv, Typed, Live, Inst, Local
  <2>4. i \in live
    BY <1>8, <2>3 DEF Mark, NothingPending
  <2>. QED  BY <1>8, <2>2, <2>4 DEF Mark, Closed, Placed
<1>9. ASSUME NEW i \in Local, Idle, RemoveInst(i) PROVE SurvivorsKeepOperands'
  BY <1>9, UnusedRemovalKeepsOperands DEF RemoveInst, IInv, Typed
<1>10. ASSUME NEW b \in Blocks, Idle, RemoveBlock(b) PROVE SurvivorsKeepOperands'
  BY <1>10, UnusedRemovalKeepsOperands DEF RemoveBlock, InstsOf, IInv, Typed
<1>11. ASSUME NEW i \in Local, Sweep(i) PROVE SurvivorsKeepOperands'
  <2>1. Live' = Live \ {i} /\ doomed' = doomed \ {i} /\ i \in doomed
    BY <1>11, FreedKeeps, SMTT(20) DEF Sweep, IInv, Typed
  <2>2. \A j \in Live' : data'[j] = data[j]
    BY <1>11, <2>1 DEF Sweep, Freed, Detached, Live
  <2>. QED  BY <2>1, <2>2 DEF SurvivorsKeepOperands
<1>12. ASSUME NEW rep \in Values, NEW with \in Values, NEW gone \in BOOLEAN,
              Idle, ReplaceUses(rep, with, gone)
       PROVE  SurvivorsKeepOperands'
  <2>1. /\ rep \in Live /\ with \in Live /\ rep # with
        /\ used_by[rep] = {u \in Live : rep \in Uses(data[u])}
        /\ data'[rep] = IF gone THEN NoData ELSE data[rep]
        /\ \A u \in used_by[rep] : data'[u] = Substituted(data[u], rep, with)
        /\ \A j \in Inst : j # rep /\ j \notin used_by[rep] => data'[j] = data[j]
        /\ Live' = IF gone THEN Live \ {rep} ELSE Live
        /\ rep \notin used_by[rep]
    BY <1>12, Replaced, SMTT(20)
  <2>2. doomed = {} /\ doomed' = {}
    BY <1>12 DEF ReplaceUses, Idle
  <2>3. ASSUME NEW u \in used_by[rep]
        PROVE  Uses(data'[u]) \subseteq (Uses(data[u]) \cup {with}) \ {rep}
    <3>1. u \in Local /\ data[u] \in AnyValue \cup AnyTerminator
      <4>1. u \in Local /\ data[u] # NoData
        BY <1>12, Replaced, <2>1, SMTT(20) DEF Live
      <4>. QED  BY <4>1 DEF IInv, Typed, Local
    <3>2. ~(/\ data[u].k = "branch"
            /\ Substituted(data[u], rep, with).k = "jump"
            /\ rep \in Substituted(data[u], rep, with).args)
      BY Zenon, <1>12 DEF ReplaceUses
    <3>. QED  BY <2>1, <3>1, <3>2, Rewritten, SMTT(20)
  <2>. SUFFICES ASSUME NEW i \in Live', NEW u \in Uses(data'[i]) PROVE u \in Live'
    BY <2>2 DEF SurvivorsKeepOperands
  <2>4. i \in Live /\ i \in Inst
    BY <2>1 DEF Live
  <2>5. CASE i \in used_by[rep]
    BY <2>1, <2>2, <2>3, <2>4, <2>5 DEF SurvivorsKeepOperands
  <2>6. CASE i \notin used_by[rep]
    <3>1. data'[i] = data[i] /\ rep \notin Uses(data[i])
      BY <2>1, <2>4, <2>6
    <3>. QED  BY <2>1, <2>2, <2>4, <3>1 DEF SurvivorsKeepOperands
  <2>. QED  BY <2>5, <2>6
<1>13. ASSUME NEW b \in Blocks, PlaceBlock(b) PROVE SurvivorsKeepOperands'
  BY <1>7, <1>13 DEF PlaceBlock
<1>14. ASSUME NEW i \in Local, NEW b \in Blocks, Place(i, b) PROVE SurvivorsKeepOperands'
  BY <1>7, <1>14 DEF Place
<1>15. CASE UNCHANGED vars
  BY <1>7, <1>15 DEF vars
<1>. QED  BY <1>2, <1>3, <1>4, <1>5, <1>6, <1>8, <1>9, <1>10, <1>11, <1>12, <1>13,
             <1>14, <1>15 DEF Next

(* No operation leaves an instruction of the layout with an operand whose  *)
(* data is gone, provided `visit_and_replace_single` never folds a branch  *)
(* that passes the rewritten value on.                                     *)
THEOREM OperandsNeverDangle ==
    ASSUME ~FoldsArguments
    PROVE  Spec => []NoDanglingOperand
<1>1. Init => SurvivorsKeepOperands
  <2>. SUFFICES ASSUME Init PROVE SurvivorsKeepOperands
    OBVIOUS
  <2>1. \A i \in Inst : Uses(data[i]) = {}
    BY DataFacts DEF Init
  <2>. QED  BY <2>1 DEF SurvivorsKeepOperands, Live
<1>2. IInv /\ SurvivorsKeepOperands => NoDanglingOperand
  BY DEF IInv, Typed, SurvivorsKeepOperands, NoDanglingOperand
<1>3. IInv /\ SurvivorsKeepOperands /\ [Next]_vars => SurvivorsKeepOperands'
  BY NextKeepsOperands
<1>. QED  BY <1>1, <1>2, <1>3, SpecInv, PTL DEF Spec
=============================================================================
