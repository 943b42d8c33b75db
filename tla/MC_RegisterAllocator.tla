----------------------- MODULE MC_RegisterAllocator -----------------------
(* Small functions for the allocator: banks of four colors, of which 0 and *)
(* 1 are caller saved, 2 and 3 callee saved.  In the general purpose bank 3 *)
(* is the stack pointer and 2 the frame pointer.                            *)
EXTENDS RegisterAllocator

G64 == "GPR64"
G32 == "GPR32"
p0 == P(G64, 0)
p1 == P(G64, 1)
p2 == P(G64, 2)
p3 == P(G64, 3)

MCCallerSaved == {p0, p1}
MCCalleeSaved == {p2, p3}

General == [sp |-> {3}, fp |-> {2}]
Float == [sp |-> {}, fp |-> {}]
MCBanks == {General, Float}

W(n) == Reg(V(n), "W")
R(n) == Reg(V(n), "R")
Wide(n) == [k \in 1 .. n |-> G64]
Narrow(n) == [k \in 1 .. n |-> G32]
Straight(block, n) == [code |-> <<block>>, succ |-> <<{}>>, class |-> Wide(n)]
Call == Instr("call", "call", << >>, {}, {0})

\* Four values alive at once in three colors, in 32 bit registers.
Pressure == [Straight(<<Op("a", <<W(1)>>), Op("b", <<W(2)>>), Op("c", <<W(3)>>), Op("d", <<W(4)>>),
                       Op("use1", <<R(4), R(1)>>), Op("use2", <<R(2), R(3)>>)>>, 4) EXCEPT !.class = Narrow(4)]

\* Four values alive at once, three of them read together: the first spill slot
\* takes the frame pointer away and leaves less colors than values read.
Crowd == Straight(<<Op("a", <<W(1)>>), Op("b", <<W(2)>>), Op("c", <<W(3)>>), Op("d", <<W(4)>>),
                    Op("use1", <<R(4), R(1), R(3)>>), Op("use2", <<R(2), R(3)>>)>>, 4)

\* Three values across a call, for which there is at most one color, or two in
\* the other bank.
Kept == Straight(<<Op("a", <<W(1)>>), Op("b", <<W(2)>>), Op("c", <<W(3)>>), Call,
                   Op("use1", <<R(1), R(2)>>), Op("use2", <<R(3), R(1)>>)>>, 3)

\* Values across a call, one of them its result.
AcrossCall == Straight(<<Op("a", <<W(1)>>), Op("b", <<W(2)>>), Call, Move(W(3), Reg(p0, "R")),
                         Tied("sub", <<W(4), R(1), R(2)>>), Op("use", <<R(3), R(4)>>)>>, 4)

\* A shift by a variable amount, as selectSHIFT emits it.
Shift == Straight(<<Op("a", <<W(1)>>), Op("b", <<W(2)>>),
                    Move(Reg(p1, "W"), R(2)),
                    Instr("tied", "shl", <<W(3), R(1)>>, {1}, {}),
                    Move(W(4), Reg(p1, "R")),
                    Op("use1", <<R(1), R(2)>>), Op("use2", <<R(3)>>)>>, 4)

\* Two address chain with copies: the first source lives on, the second dies.
Chain == Straight(<<Op("a", <<W(1)>>), Op("b", <<W(2)>>), Tied("sub", <<W(3), R(1), R(2)>>), Move(W(4), R(3)),
                    Tied("add", <<W(5), R(4), R(1)>>), Op("use", <<R(3), R(5)>>)>>, 5)

\* A loop that carries two values, with the copies phi elimination leaves.
Loop == [code |-> << <<Op("a", <<W(1)>>), Op("n", <<W(2)>>), Move(W(3), R(1)), Move(W(4), R(2))>>,
                     <<Op("test", <<R(4)>>), Tied("add", <<W(5), R(3), R(4)>>),
                       Tied("dec", <<W(6), R(4), Imm>>), Move(W(3), R(5)), Move(W(4), R(6))>>,
                     <<Op("use", <<R(3), R(2)>>)>> >>,
         succ |-> <<{2}, {2, 3}, {}>>, class |-> Wide(6)]

\* A value of each branch, merged by a copy on one side: u and v may share a
\* color only if x and y, in use together before the branch, are told apart.
Diamond == [code |-> << <<Op("x", <<W(1)>>), Op("y", <<W(2)>>)>>,
                        <<Op("u", <<W(3)>>), Op("usex", <<R(1)>>), Move(W(4), R(3))>>,
                        <<Op("v", <<W(4)>>), Op("usey", <<R(2)>>)>>,
                        <<Op("use", <<R(4)>>)>> >>,
            succ |-> <<{2, 3}, {4}, {4}, {}>>, class |-> Wide(4)]

\* An instruction that reads three values.
Ternary == Straight(<<Op("a", <<W(1)>>), Op("b", <<W(2)>>), Op("c", <<W(3)>>), Op("use", <<R(1), R(2), R(3)>>)>>, 3)

MCPrograms == {Diamond, Ternary, Pressure, Crowd, Kept, AcrossCall, Shift, Chain, Loop}

\* An addition with a folded load: the base of the address dies here, the
\* first source lives on.
FoldedLoad == {Straight(<<Op("a", <<W(1)>>), Op("p", <<W(2)>>), Tied("add", <<W(3), R(1), Mem(<<V(2)>>)>>),
                          Op("use", <<R(3), R(1)>>)>>, 3)}

\* A constant built in place, as the RISC-V selector emits LUI and ADDI, and
\* held across more values than there are colors.
InPlace == {Straight(<<Op("lui", <<W(1), Imm>>), Op("addi", <<W(1), R(1), Imm>>), Op("b", <<W(2)>>), Op("c", <<W(3)>>),
                       Op("use1", <<R(2), R(3)>>), Op("use2", <<R(2), R(3)>>), Op("use3", <<R(1)>>)>>, 3)}

\* Two 32 bit arguments moved into 64 bit argument registers 0 and 1, the
\* second of them defined long before.
Arguments == {[code |-> << <<Op("y", <<W(1)>>), Op("x", <<W(2)>>), Op("c", <<W(3)>>), Op("d", <<W(4)>>),
                             Op("use1", <<R(2), R(3)>>), Op("use2", <<R(4), R(2)>>), Op("use3", <<R(3), R(4)>>),
                             Move(Reg(p0, "W"), R(2)), Move(Reg(p1, "W"), R(1)),
                             Instr("call", "call", << >>, {0, 1}, {0})>> >>,
               succ |-> <<{}>>, class |-> Narrow(4)]}

=============================================================================
