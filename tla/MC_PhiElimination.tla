------------------------- MODULE MC_PhiElimination -------------------------
(* Functions in SSA form: registers 1 and 2 are set at the entry, 3 and 4  *)
(* are the destinations of phis, 5 and 6 are computed in loops or arms.    *)
EXTENDS PhiElimination

W(n) == Reg(V(n), "W")
R(n) == Reg(V(n), "R")
Gen(tag, ops) == Instr("generic", tag, ops, {}, {})
Jmp == Instr("JMP", "jump", << >>, {}, {})
Br(n) == Instr("BR_COND", "branch", <<R(n)>>, {}, {})
Ret(n) == Instr("RET", "ret", <<R(n)>>, {}, {})
Entry == <<Gen("a", <<W(1)>>), Gen("b", <<W(2)>>), Jmp>>
Two(b, l1, c, l2) == <<Phi(V(3), <<FromBlock(R(1), b), FromBlock(R(l1), c)>>), Phi(V(4), <<FromBlock(R(2), b), FromBlock(R(l2), c)>>)>>
F == Gen("f", <<W(5), R(3), R(4)>>)

\* do { x = f(p, q); p = l1; q = l2; } while (c); use u
DoWhile(l1, l2, c, u) ==
    [phis |-> << << >>, Two(1, l1, 2, l2), << >> >>,
     body |-> << Entry, <<F, Br(c)>>, <<Ret(u)>> >>,
     succ |-> <<{2}, {2, 3}, {}>>]

\* while (c) { x = f(p, q); p = l1; q = l2; } use u
While(l1, l2, c, u) ==
    [phis |-> << << >>, Two(1, l1, 3, l2), << >>, << >> >>,
     body |-> << Entry, <<Gen("t", <<W(6), R(3)>>), Br(c)>>, <<F, Jmp>>, <<Ret(u)>> >>,
     succ |-> <<{2}, {3, 4}, {2}, {}>>]

\* A do loop of two blocks: the second decides.
LongLoop(l1, l2, c, u) ==
    [phis |-> << << >>, Two(1, l1, 3, l2), << >>, << >> >>,
     body |-> << Entry, <<F, Jmp>>, <<Gen("t", <<W(6), R(5)>>), Br(c)>>, <<Ret(u)>> >>,
     succ |-> <<{2}, {3}, {2, 4}, {}>>]

\* A loop in a loop: the inner one starts from v and leaves l2 behind.
Nested(v, l1, l2, c) ==
    [phis |-> << << >>, <<Phi(V(3), <<FromBlock(R(1), 1), FromBlock(R(l1), 3)>>)>>,
                 <<Phi(V(4), <<FromBlock(R(v), 2), FromBlock(R(l2), 3)>>)>>, << >> >>,
     body |-> << Entry, <<Gen("g", <<W(5), R(3)>>), Br(5)>>, <<Gen("h", <<W(6), R(4)>>), Br(c)>>, <<Ret(5)>> >>,
     succ |-> <<{2}, {3, 4}, {2, 3}, {}>>]

\* if (a) x = .. else y = ..; p and q take what each arm has to offer.
Diamond(k, in1, in2) ==
    [phis |-> << << >>, << >>, << >>, <<Phi(V(3), in1), Phi(V(4), in2)>> >>,
     body |-> << <<Gen("a", <<W(1)>>), Gen("b", <<W(2)>>), Br(1)>>,
                 <<Instr(k, "x", <<W(5), R(1)>>, {}, {}), Jmp>>, <<Gen("y", <<W(6), R(2)>>), Jmp>>,
                 <<Gen("use", <<R(3), R(4)>>), Ret(3)>> >>,
     succ |-> <<{2, 3}, {4}, {4}, {}>>]
\* Loads: of the value before the addition or before that, read again or not,
\* with a call in between, first in a loop of one block or behind its phis.
Load(d, a) == Instr("LOAD", "load", <<W(d), Mem(<<V(a)>>)>>, {}, {})
Add(d, l, r) == Gen("add", <<W(d), R(l), R(r)>>)
Call == Instr("call", "call", << >>, {}, {})
Summing(before, between, u) ==
    [phis |-> << << >>, Two(1, 5, 2, 4), << >> >>,
     body |-> << Entry, before \o <<Load(7, 4)>> \o between \o <<Add(5, 3, 7), Br(5)>>, <<Ret(u)>> >>,
     succ |-> <<{2}, {2, 3}, {}>>]
\* The load is the first instruction of its block.
Reading(between, u) ==
    [phis |-> << << >>, << >>, <<Phi(V(3), <<FromBlock(R(5), 2), FromBlock(R(3), 3)>>)>> >>,
     body |-> << Entry, <<Load(7, 2)>> \o between \o <<Add(5, 1, 7), Jmp>>, <<Gen("use", <<R(u)>>), Br(3)>> >>,
     succ |-> <<{2}, {3}, {3}>>]
Between == {<< >>, <<Gen("t", <<W(6), R(1)>>)>>, <<Call>>, <<Gen("t", <<W(6), R(7)>>)>>, <<Load(8, 1), Add(9, 2, 8)>>}

Arms == {<<FromBlock(R(5), 2), FromBlock(R(6), 3)>>, <<FromBlock(R(2), 2), FromBlock(R(6), 3)>>, <<FromBlock(R(1), 2), FromBlock(R(9), 3)>>}

MCPrograms ==
    {DoWhile(l1, l2, c, u) : l1 \in 3 .. 5, l2 \in 3 .. 5, c \in {3, 5}, u \in 3 .. 5}
    \cup {While(l1, l2, c, u) : l1 \in 3 .. 5, l2 \in 3 .. 5, c \in {3, 6}, u \in 3 .. 4}
    \cup {LongLoop(l1, l2, c, u) : l1 \in 3 .. 5, l2 \in 3 .. 5, c \in {3, 6}, u \in 3 .. 5}
    \cup {Nested(v, l1, l2, c) : v \in {3, 5}, l1 \in {4, 6}, l2 \in {4, 6, 5}, c \in {4, 6}}
    \cup {Summing(before, between, u) : before \in {<< >>, <<Load(6, 3)>>}, between \in Between, u \in {3, 5, 7}}
    \cup {Reading(between, u) : between \in Between, u \in {3, 5, 7}}
    \cup {Diamond(k, in1, in2) : k \in {"generic", "call"}, in1 \in Arms, in2 \in Arms}

\* Two values that change places in a loop.
Swap == {While(4, 3, 6, 3)}
\* The value the variable had in the last round, used after the loop.
LostCopy == {DoWhile(5, 4, 5, 3)}
\* A loop that decides, at its end, by the value its variable has now.
LatchCondition == {LongLoop(5, 4, 3, 5)}
\* The pairs of a phi in another order than their blocks.
PairOrder == {Diamond("generic", <<FromBlock(R(6), 3), FromBlock(R(5), 2)>>, <<FromBlock(R(2), 2), FromBlock(R(6), 3)>>)}
\* A literal on one edge.
Literal == {Diamond("generic", <<FromBlock(Imm, 2), FromBlock(R(6), 3)>>, <<FromBlock(R(2), 2), FromBlock(R(6), 3)>>)}
\* A value that an indirect call returns.
AfterCall == {Diamond("call", <<FromBlock(R(5), 2), FromBlock(R(6), 3)>>, <<FromBlock(R(2), 2), FromBlock(R(6), 3)>>)}
=============================================================================
