------------------------------ MODULE MirCode ------------------------------
(***************************************************************************)
(* The machine instructions of EzMir as the target passes see them: what   *)
(* an instruction reads and writes, and what a function computes along a   *)
(* path of its blocks.  There is one register bank, in which every class   *)
(* names every color, as the GPR and FPR banks of the two targets are.     *)
(***************************************************************************)
EXTENDS Integers, Sequences, FiniteSets, SequencesExt

CONSTANTS
    Colors,       \* hardware register numbers of the bank
    CallerSaved   \* the register references a call clobbers

\* A register reference is virtual, or the register of a class with a number
\* (eax and rax are two references with one number).
V(n) == <<"v", n>>
P(class, color) == <<class, color>>
IsVirtual(r) == r[1] = "v"

\* Operands: a register that is read ("R"), written ("W") or both ("RW"), a
\* memory operand (its base and index are read), a stack slot, an immediate.
Reg(r, acc) == [kind |-> "reg", regs |-> <<r>>, acc |-> acc]
Mem(rs) == [kind |-> "mem", regs |-> rs, acc |-> "R"]
Slot(r) == [kind |-> "slot", regs |-> << >>, acc |-> "R", of |-> r]
Imm == [kind |-> "imm", regs |-> << >>, acc |-> "R"]

\* Instructions.  "uses" and "defs" are the colors the machine touches beyond
\* the operands: no target description declares them as implicit registers, so
\* no pass sees them.  A "tied" instruction is encoded with its destination in
\* place of its first source (the "coalesce" field of the encoding).
Instr(kind, tag, ops, uses, defs) ==
    [kind |-> kind, tag |-> tag, ops |-> ops, uses |-> uses, defs |-> defs]
Op(tag, ops) == Instr("op", tag, ops, {}, {})
Tied(tag, ops) == Instr("tied", tag, ops, {}, {})
Move(dst, src) == Instr("move", "mov", <<dst, src>>, {}, {})

RegisterRefs == STRING \X Nat
MachineOperands ==
    [kind : {"reg"}, regs : [1 .. 1 -> RegisterRefs], acc : {"R", "W", "RW"}]
    \cup [kind : {"mem", "imm"}, regs : Seq(RegisterRefs), acc : {"R"}]
    \cup [kind : {"slot"}, regs : {<< >>}, acc : {"R"}, of : RegisterRefs]
MachineInstructions ==
    [kind : STRING, tag : STRING, ops : Seq(MachineOperands), uses : SUBSET Colors, defs : SUBSET Colors]

\* The registers whose operands have one of the access kinds: in operand order,
\* as the lists of the code, and as a set, where the order does not matter.
Access(i, kinds) == FlattenSeq([k \in DOMAIN i.ops |-> IF i.ops[k].acc \in kinds THEN i.ops[k].regs ELSE << >>])
DefinedRegisters(i) == Access(i, {"W", "RW"})
UsedRegisters(i) == Access(i, {"R", "RW"})
Accessed(i, kinds) ==
    UNION {ToSet(i.ops[k].regs) : k \in {k \in DOMAIN i.ops : i.ops[k].acc \in kinds}}
Defs(i) == Accessed(i, {"W", "RW"})
Uses(i) == Accessed(i, {"R", "RW"})
RegsOf(code) == UNION {Defs(i) \cup Uses(i) : i \in UNION {ToSet(code[b]) : b \in DOMAIN code}}

IsRegisterMove(i) == i.kind = "move" /\ i.ops[1].kind = "reg" /\ i.ops[2].kind = "reg"

\* The registers live out of each block: what LivenessAnalysis computes (its
\* least solution, reached after as many sweeps as there are blocks).
LiveOut(code, succ) ==
    LET Exposed(b) == {r \in RegsOf(code) : \E k \in DOMAIN code[b] :
                          /\ r \in Uses(code[b][k])
                          /\ \A j \in 1 .. k - 1 : r \notin Defs(code[b][j])}
        Written(b) == UNION {Defs(code[b][k]) : k \in DOMAIN code[b]}
        exposed == [b \in DOMAIN code |-> Exposed(b)]
        written == [b \in DOMAIN code |-> Written(b)]
        Out(in) == [b \in DOMAIN code |-> UNION {in[s] : s \in succ[b]}]
        liveIn[n \in 0 .. Len(code)] == IF n = 0 THEN exposed
                             ELSE LET out == Out(liveIn[n - 1])
                                  IN  [b \in DOMAIN code |-> exposed[b] \cup (out[b] \ written[b])]
    IN  Out(liveIn[Len(code)])

-----------------------------------------------------------------------------
(* What the code computes.  A value is named by where it was made: before   *)
(* the function, by a step of the trace, or by a call as garbage.  The      *)
(* trace records what every instruction but a copy or a jump was given.     *)

Loc(r) == IF IsVirtual(r) THEN r ELSE <<"p", r[2]>>
OperandLoc(op) == IF op.kind = "slot" THEN <<"slot", op.of>> ELSE Loc(op.regs[1])

\* The copy that the encoder puts before an instruction whose destination and
\* first source are different hardware registers.
Materialized(val, i, machine) ==
    IF machine /\ i.kind = "tied" THEN [val EXCEPT ![Loc(i.ops[1].regs[1])] = val[Loc(i.ops[2].regs[1])]]
    ELSE val

Step(st, i, machine) ==
    LET after == Materialized(st.val, i, machine)
        n == Len(st.trace) + 1
        Given(k) == LET val == IF k <= 2 THEN st.val ELSE after
                    IN  [j \in DOMAIN i.ops[k].regs |-> val[Loc(i.ops[k].regs[j])]]
        given == [k \in {k \in DOMAIN i.ops : i.ops[k].acc # "W"} |-> Given(k)]
        Result(l) ==
            CASE \E k \in DOMAIN i.ops : i.ops[k].acc # "R" /\ Loc(i.ops[k].regs[1]) = l -> <<"result", n>>
              [] l[1] = "p" /\ l[2] \in i.defs -> <<"fixed", n, l[2]>>
              [] i.kind = "call" /\ \E r \in CallerSaved : Loc(r) = l -> <<"garbage", n, l[2]>>
              [] OTHER -> after[l]
    IN  IF i.kind = "jump" THEN st
        ELSE IF i.kind = "move" /\ i.ops[2].kind # "imm"
           THEN [st EXCEPT !.val[OperandLoc(i.ops[1])] = st.val[OperandLoc(i.ops[2])]]
           ELSE [val |-> [l \in DOMAIN st.val |-> Result(l)],
                 trace |-> Append(st.trace, <<i.tag, given, [c \in i.uses |-> after[<<"p", c>>]]>>)]

Locations(code) ==
    {<<"p", c>> : c \in Colors} \cup {Loc(r) : r \in RegsOf(code)}
    \cup UNION {UNION {{<<"slot", op.of>> : op \in {o \in ToSet(i.ops) : o.kind = "slot"}}
                       : i \in ToSet(code[b])} : b \in DOMAIN code}

Trace(code, path, machine) ==
    FoldLeft(LAMBDA st, i : Step(st, i, machine),
             [val |-> [l \in Locations(code) |-> <<"init", l>>], trace |-> << >>],
             FlattenSeq([k \in DOMAIN path |-> code[path[k]]])).trace

\* The ways through a function, cut after "longest" blocks.
Paths(succ, longest) ==
    UNION {{p \in [1 .. n -> DOMAIN succ] : /\ p[1] = 1
                                            /\ \A k \in 1 .. n - 1 : p[k + 1] \in succ[p[k]]
                                            /\ n = longest \/ succ[p[n]] = {}}
           : n \in 1 .. longest}
=============================================================================
