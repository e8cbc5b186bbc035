---------------------------- MODULE MCMiddleEnd ----------------------------
(***************************************************************************)
(* Functions of three and four blocks over two locals u, v and a global w. *)
(***************************************************************************)
EXTENDS MiddleEnd

CONSTANTS Source  \* which family of functions: see MCPrograms

MCLocals == <<"u", "v">>

MCGlobals == {"w"}

Id(op, slot, b, i) == <<op, slot, b, i>>

SetConst(slot, b) ==
    <<Store(Id("store", slot, b, 1), slot, Id("const", slot, b, 0))>>

Copy(from, to, b) ==
    <<Load(Id("load", from, b, 1), from),
      Store(Id("store", to, b, 2), to, Id("load", from, b, 1))>>

Swap(b) ==
    <<Load(Id("load", "u", b, 1), "u"), Load(Id("load", "v", b, 2), "v"),
      Store(Id("store", "u", b, 3), "u", Id("load", "v", b, 2)),
      Store(Id("store", "v", b, 4), "v", Id("load", "u", b, 1))>>

Code(kind, b) ==
    CASE kind = "none" -> <<>>
      [] kind = "v = c" -> SetConst("v", b)
      [] kind = "w = c" -> SetConst("w", b)
      [] kind = "w = v" -> Copy("v", "w", b)
      [] kind = "v = w" -> Copy("w", "v", b)
      [] kind = "swap" -> Swap(b)

\* A return reads all three slots.
Results(b) == <<Load(Id("load", "u", b, 7), "u"), Load(Id("load", "v", b, 8), "v"),
                Load(Id("load", "w", b, 9), "w")>>

Function(n, t, c, kinds) ==
    [layout |-> [i \in 1 .. n |-> i], term |-> t, cond |-> c,
     body |-> [b \in 1 .. n |-> Code(kinds[b], b) \o
                 (IF t[b] = <<>> THEN Results(b) ELSE <<>>)],
     params |-> [b \in 1 .. n |-> <<>>],
     args |-> [b \in 1 .. n |->
                 IF t[b] = <<>>
                 THEN <<<<Results(b)[1].id, Results(b)[2].id, Results(b)[3].id>>>>
                 ELSE [k \in DOMAIN t[b] |-> <<>>]]]

\* Terminators: nothing jumps to the entry.
Terms(n) == {<<>>} \cup {<<t>> : t \in 2 .. n} \cup {<<t, f>> : t, f \in 2 .. n}

\* Graphs with a return whose blocks are all reachable and numbered as they
\* are found: the first target of the entry is block 2.
Graphs(n) ==
    {t \in {<<<<2>> \o t1>> \o rest : t1 \in {<<>>} \cup {<<x>> : x \in 2 .. n},
                                      rest \in [1 .. n - 1 -> Terms(n)]} :
       /\ \E b \in 1 .. n : t[b] = <<>>
       /\ BuildCfgBoth(t, 1).ids = [i \in 1 .. n |-> i]}

NoConstants(n) == [b \in 1 .. n |-> "any"]

Kinds(entry, rest) == {<<k1, k2, k3>> : k1 \in entry, k2, k3 \in rest}

\* Every graph of three blocks, with definitions, copies and swaps of the
\* locals; the global is written from a local or read into one, not both.
Small ==
    {Function(3, t, NoConstants(3), k) : t \in Graphs(3), k \in
       Kinds({"none", "v = c", "swap"}, {"none", "v = c", "w = c", "w = v", "swap"})
       \cup Kinds({"none", "w = c"}, {"none", "v = c", "w = c", "v = w"})}

\* The entry branches on a constant.
Constant ==
    {Function(3, t, [NoConstants(3) EXCEPT ![1] = c], k) :
       t \in {g \in Graphs(3) : Len(g[1]) = 2}, c \in {"0", "1"},
       k \in Kinds({"v = c"}, {"none", "w = v"})}

\* Block 3 is unreachable and goes on to another block.
Unreachable(kinds) ==
    {Function(3, <<t1, t2, t3>>, NoConstants(3), <<"v = c", "w = v", k>>) :
       t1 \in {<<2>>, <<2, 2>>}, t2 \in {<<>>, <<2, 2>>},
       t3 \in {<<2>>, <<3, 2>>}, k \in kinds}

\* Every graph of four blocks: the smallest where the legacy dominator tree
\* can differ from the exact one.
Larger ==
    {Function(4, t, NoConstants(4), <<"v = c">> \o k) : t \in Graphs(4),
       k \in Kinds({"v = c", "swap"}, {"swap", "w = v"})
             \cup {<<"none", "w = c", "swap">>}}

\* The global is saved in a local at the entry and restored later.
Restore ==
    {Function(3, t, NoConstants(3), <<"v = w", "w = c", "w = v">>) : t \in Graphs(3)}

MCPrograms ==
    CASE Source = "sound" ->
           Small \cup Constant \cup Unreachable({"none", "w = c"}) \cup Larger
      [] Source = "restore" -> Restore
      [] Source = "unreachable" -> Unreachable({"swap", "v = w"})

MCHashOrders == {<<1, 2, 3, 4>>, <<4, 3, 2, 1>>, <<3, 1, 4, 2>>}
=============================================================================
