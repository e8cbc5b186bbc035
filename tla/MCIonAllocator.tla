--------------------------- MODULE MCIonAllocator ---------------------------
(***************************************************************************)
(* Two registers and all functions of N instructions in a few shapes that  *)
(* the AArch64 and RISC-V emitters build.  Instruction i defines virtual   *)
(* register i and reads up to two of the earlier ones.                     *)
(***************************************************************************)
EXTENDS IonAllocator

Con(k, r) == [k |-> k, r |-> r]
Use(v, con) == [v |-> v, def |-> FALSE, early |-> TRUE, con |-> con]
Def(v, early, con) == [v |-> v, def |-> TRUE, early |-> early, con |-> con]
Ins(ops, clobbers) == [ops |-> ops, clobbers |-> clobbers]

Inputs(i) == {<<>>} \cup {<<v>> : v \in 1..i-1} \cup {<<v, w>> : v, w \in 1..i-1}

Plain(i, in, early) ==
    Ins(Append([j \in DOMAIN in |-> Use(in[j], Con("reg", 0))],
               Def(i, early, Con("reg", 0))), {})
Tied(i, in) ==
    Ins(Append([j \in DOMAIN in |-> Use(in[j], Con("reg", 0))],
               Def(i, FALSE, Con("reuse", 1))), {})
Call(i, in) ==
    Ins(Append([j \in DOMAIN in |-> Use(in[j], Con("fixed", j - 1))],
               Def(i, FALSE, Con("fixed", 0))), PRegs \ {0})

Ordered(in) == Len(in) = 2 => in[1] <= in[2]

Shapes(i) ==
    {Plain(i, in, FALSE) : in \in {x \in Inputs(i) : Ordered(x)}}
      \cup {Plain(i, in, TRUE) : in \in {x \in Inputs(i) : x # <<>> /\ Ordered(x)}}
      \cup {Tied(i, in) : in \in Inputs(i) \ {<<>>}}
      \cup {Call(i, in) : in \in Inputs(i)}

Start == <<Call(1, <<>>)>>
Second == {s \in Shapes(2) : Len(s.ops) <= 2 \/ s.clobbers # {}}
Fourth == {s \in Shapes(4) : Len(s.ops) > 1}
AcrossCalls == {<<Call(2, <<>>), c, Call(4, <<>>), Plain(5, in, FALSE)>> :
                    c \in Shapes(3), in \in {x \in Inputs(5) : Ordered(x)}}

MCPrograms == {Start \o rest : rest \in Second \X Shapes(3) \X Fourth}
                 \cup {Start \o rest : rest \in AcrossCalls}
MCPreferred == {0, 1}
MCNonPreferred == {}
=============================================================================
