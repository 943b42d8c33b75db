---------------------------- MODULE MC_MirPeephole ----------------------------
(***************************************************************************)
(* Every arithmetic instruction over two registers and three immediates,   *)
(* with and without a move behind it, and three block functions with every *)
(* kind of terminator, dead code and loops.                                *)
(***************************************************************************)
EXTENDS PeepholeMeaning

MCRegs == {"a", "b"}
MCInstructions == 1 .. 10
MCRoom == [i \in MCInstructions |-> 3]
MCOpcodes == [i \in MCInstructions |-> {}]
MCValues == {<<"integer", n>> : n \in {0, 1, 3}} \cup {<<"block", b>> : b \in 1 .. 3}

R(r) == [kind |-> "register", reg |-> r]
I(op, ops) == [op |-> op, ops |-> ops, live |-> TRUE]
Ret(r) == <<I("RET", <<R(r)>>)>>
Move(r, o) == <<I("MOV", <<R(r), o>>)>>
Jump(b) == <<I("JMP", <<Block(b)>>)>>
Branch(t, f) == <<I("BR_COND", <<R("a"), Block(t), Block(f)>>)>>

\* Blocks of instructions as a function: instructions are numbered as they come.
Numbered(bodies) ==
    LET all == FlattenSeq(bodies)
        before(b) == Len(FlattenSeq(SubSeq(bodies, 1, b - 1)))
    IN  [code   |-> [i \in MCInstructions |-> IF i \in DOMAIN all THEN all[i] ELSE NoCode],
         blocks |-> [b \in DOMAIN bodies |-> [k \in DOMAIN bodies[b] |-> before(b) + k]]]

Arithmetic ==
    {Numbered(<<<<I(op, <<R(d), x, y>>)>> \o end>>) :
        end \in {Move("a", R("b")) \o Ret("a"), Ret("b")},
        op \in {"ADD", "SUB", "MUL", "AND", "OR", "XOR", "SHL", "SHR"}, d \in MCRegs,
        x \in {R("a"), R("b"), Imm(0), Imm(1), Imm(3)}, y \in {R("a"), R("b"), Imm(0), Imm(1), Imm(3)}}

Control ==
    {Numbered(<<first, <<I("ADD", <<R("b"), R("b"), Imm(1)>>)>> \o second, Move("b", R("a")) \o third>>) :
        first \in {<<>>, Jump(2), Jump(3), Branch(2, 3), Branch(3, 2),
                   Jump(2) \o Move("a", Imm(1)) \o Jump(3), Branch(3, 2) \o Jump(2)},
        second \in {<<>>, Jump(3), Jump(1), Move("a", R("b")) \o Ret("a") \o Move("b", Imm(0))},
        third \in {Ret("a"), Move("a", R("b")) \o Ret("a"), Move("a", Imm(0)) \o Jump(1)}}

MCFunctions == Arithmetic \cup Control
=============================================================================
