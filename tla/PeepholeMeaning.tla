---------------------------- MODULE PeepholeMeaning ----------------------------
(***************************************************************************)
(* What a function computes that MirPeepholePass is given: what it returns *)
(* and what its registers hold then.                                       *)
(***************************************************************************)
EXTENDS MirPeephole, Bitwise

CONSTANT Fuel  \* bound on the blocks an execution visits

ASSUME FuelAssumption == Fuel \in Nat

Words == 0 .. 2^Bits - 1

Value(o, regs) == IF o.kind = "register" THEN regs[o.reg] ELSE o.value[2]

Result(op, x, y) ==
    CASE op = "ADD" -> (x + y) % 2^Bits
      [] op = "SUB" -> (x - y) % 2^Bits
      [] op = "MUL" -> (x * y) % 2^Bits
      [] op = "AND" -> x & y
      [] op = "OR"  -> x | y
      [] op = "XOR" -> x ^^ y
      [] op = "SHL" -> (x * 2^y) % 2^Bits
      [] op = "SHR" -> x \div 2^y

\* The effect of instruction c: on the registers, and where control goes.
Executed(st, c) ==
    LET value(k) == Value(c.ops[k], st.regs)
        leave(kind, v) == [st EXCEPT !.kind = kind, !.value = v]
    IN  IF st.kind # "next" THEN st
        ELSE CASE c.op = "JMP"     -> leave("goto", value(1))
               [] c.op = "BR_COND" -> leave("goto", IF value(1) # 0 THEN value(2) ELSE value(3))
               [] c.op = "RET"     -> leave("return", value(1))
               [] c.op = "MOV"     -> [st EXCEPT !.regs[c.ops[1].reg] = value(2)]
               [] OTHER -> [st EXCEPT !.regs[c.ops[1].reg] = Result(c.op, value(2), value(3))]

RECURSIVE Outcome(_, _, _, _)
Outcome(f, b, regs, fuel) ==
    LET end == FoldLeft(LAMBDA st, i : Executed(st, f.code[i]),
                        [regs |-> regs, kind |-> "next", value |-> b + 1], f.blocks[b])
    IN  IF end.kind = "return" \/ end.value \notin DOMAIN f.blocks \/ fuel = 0
        THEN [regs |-> end.regs, returns |-> end.kind = "return", value |-> end.value]
        ELSE Outcome(f, end.value, end.regs, fuel - 1)

-----------------------------------------------------------------------------
(* Properties.                                                             *)

\* Between any two rewrites the function returns what it returned when the
\* pass was entered and leaves the same values in all registers, whatever they
\* hold at the start.
MeaningKept ==
    phase \in {"prune", "scan", "done"} =>
        \A regs \in [Regs -> Words] :
            Outcome(Function, 1, regs, Fuel) = Outcome(initial, 1, regs, Fuel)
=============================================================================
