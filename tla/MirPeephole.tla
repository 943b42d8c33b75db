------------------------------ MODULE MirPeephole ------------------------------
(***************************************************************************)
(* MirPeepholePass: algebraic identities, redundant moves, instructions    *)
(* behind a terminator and jumps to the next block, again and again until  *)
(* nothing changes.  The pass is a client of MirInstructionBuilder: each   *)
(* call it makes is a step of DefUseRegistry.                              *)
(*                                                                         *)
(* MUL stands for IMUL too.  Words have a few bits.                        *)
(***************************************************************************)
EXTENDS DefUseRegistry, SequencesExt

CONSTANTS
    Functions,      \* the functions the pass may be given: code and blocks
    Bits,           \* bits of a word
    MaxIterations   \* maxIterations, ten in the code

\* A function has an entry block; an instruction stands in one place, and a jump
\* has one operand.
ASSUME FunctionsAssumption ==
    \A f \in Functions :
        /\ f.code \in [Instructions -> Codes]
        /\ f.blocks \in Seq(Seq(Instructions)) /\ f.blocks # <<>>
        /\ \A b, c \in DOMAIN f.blocks : \A k \in DOMAIN f.blocks[b], j \in DOMAIN f.blocks[c] :
              f.blocks[b][k] = f.blocks[c][j] => b = c /\ k = j
        /\ \A i \in Instructions : f.code[i].op = "JMP" => Len(f.code[i].ops) = 1
ASSUME BoundsAssumption == Bits \in Nat \ {0} /\ MaxIterations \in Nat /\ MaxIterations >= 3

VARIABLES
    blocks,     \* the instructions of each block, in layout order
    initial,    \* the function as it was given
    block,      \* the block the pass is at
    phase,      \* "prune" and "scan" a block; "clear" and "opcode": inside a rewrite; "done"
    at,         \* the position of the instruction the scan is at
    changed,
    iteration

place == <<block, phase, at>>
allVars == <<vars, blocks, initial, place, changed, iteration>>

Imm(n) == [kind |-> "other", value |-> <<"integer", n>>]
Block(b) == [kind |-> "other", value |-> <<"block", b>>]
Terminators == {"JMP", "BR_COND", "RET"}

\* The function was made by the builder, which has recorded its operands.
PeepholeInit ==
    \E f \in Functions :
        /\ code = f.code /\ blocks = f.blocks /\ initial = f
        /\ uses = [i \in Instructions |-> [r \in Regs |-> [k \in Slots |->
                      Reads(f.code[i].op, f.code[i].ops, k, r)]]]
        /\ def = [r \in Regs |->
                      LET writers == {i \in Instructions : \E k \in Slots :
                                         Writes(f.code[i].op, f.code[i].ops, k, r)}
                      IN  IF writers = {} THEN None ELSE Max(writers)]
        /\ block = 1 /\ phase = "prune" /\ at = 1
        /\ changed = FALSE /\ iteration = 1

-----------------------------------------------------------------------------
(* What can be simplified.                                                 *)

\* The operand that leaves the other one as it is, where there is one.
Identity == [ADD |-> 0, SUB |-> 0, MUL |-> 1, AND |-> 2^Bits - 1,
             OR |-> 0, XOR |-> 0, SHL |-> 0, SHR |-> 0]
Commutative == {"ADD", "MUL", "AND", "OR", "XOR"}

SameRegister(x, y) == x.kind = "register" /\ y = x

\* Mutation: SUB is taken for commutative.
Sources_Commute(i) ==
    LET op == code[i].op
        x  == code[i].ops[2]
        y  == code[i].ops[3]
    IN  IF op \notin DOMAIN Identity THEN {}
        ELSE {o \in {x, y, Imm(0)} :
                 \/ o = x /\ y = Imm(Identity[op])
                 \/ o = y /\ x = Imm(Identity[op]) /\ op \in Commutative \cup {"SUB"}
                 \/ o = x /\ SameRegister(x, y) /\ op \in {"AND", "OR"}
                 \/ o = Imm(0) /\ SameRegister(x, y) /\ op \in {"SUB", "XOR"}
                 \/ o = Imm(0) /\ Imm(0) \in {x, y} /\ op \in {"MUL", "AND"}}
\* The source a three operand instruction can be reduced to, if any.
Sources(i) ==
    LET op == code[i].op
        x  == code[i].ops[2]
        y  == code[i].ops[3]
    IN  IF op \notin DOMAIN Identity THEN {}
        ELSE {o \in {x, y, Imm(0)} :
                 \/ o = x /\ y = Imm(Identity[op])
                 \/ o = y /\ x = Imm(Identity[op]) /\ op \in Commutative
                 \/ o = x /\ SameRegister(x, y) /\ op \in {"AND", "OR"}
                 \/ o = Imm(0) /\ SameRegister(x, y) /\ op \in {"SUB", "XOR"}
                 \/ o = Imm(0) /\ Imm(0) \in {x, y} /\ op \in {"MUL", "AND"}}

\* A move to itself, or back to where the move right before came from.
RedundantMove(b, k) ==
    LET move(j) == code[blocks[b][j]].op = "MOV"
        ops(j)  == code[blocks[b][j]].ops
    IN  /\ move(k)
        /\ \/ SameRegister(ops(k)[1], ops(k)[2])
           \/ /\ k > 1 /\ move(k - 1)
              /\ SameRegister(ops(k - 1)[1], ops(k)[2]) /\ SameRegister(ops(k - 1)[2], ops(k)[1])

\* Mutation: a jump to any later block.
RedundantJump_Forward(b, k) ==
    LET i == blocks[b][k]
    IN  code[i].op = "JMP" /\ b < Len(blocks) /\ \E t \in b + 1 .. Len(blocks) : code[i].ops[1] = Block(t)
RedundantJump(b, k) ==
    LET i == blocks[b][k]
    IN  code[i].op = "JMP" /\ b < Len(blocks) /\ code[i].ops[1] = Block(b + 1)

\* The positions behind the first terminator of block b.
DeadPlaces(b) ==
    {k \in DOMAIN blocks[b] : \E j \in 1 .. k - 1 : code[blocks[b][j]].op \in Terminators}

-----------------------------------------------------------------------------
(* The pass.                                                               *)

EraseAt(k) ==
    /\ Erase(blocks[block][k])
    /\ blocks' = [blocks EXCEPT ![block] = RemoveAt(@, k)]

PruneDead ==
    /\ phase = "prune" /\ DeadPlaces(block) # {}
    /\ EraseAt(Min(DeadPlaces(block)))
    /\ changed' = TRUE
    /\ UNCHANGED <<initial, place, iteration>>

StartScan ==
    /\ phase = "prune" /\ DeadPlaces(block) = {}
    /\ phase' = "scan" /\ at' = 1
    /\ UNCHANGED <<vars, blocks, initial, block, changed, iteration>>

Scanning == phase = "scan" /\ at <= Len(blocks[block])
Current == blocks[block][at]

\* rewriteToMov and rewriteToZero: the source takes the place of the first
\* operand, the second is cleared, the opcode is set behind the record's back.
Rewrite ==
    /\ Scanning
    /\ \E o \in Sources(Current) : SwapOperand(Current, o, 2)
    /\ phase' = "clear"
    /\ UNCHANGED <<blocks, initial, block, at, changed, iteration>>

ClearSecond ==
    /\ phase = "clear"
    /\ ClearOperand(Current, 3)
    /\ phase' = "opcode"
    /\ UNCHANGED <<blocks, initial, block, at, changed, iteration>>

SetOpcode ==
    /\ phase = "opcode"
    /\ code' = [code EXCEPT ![Current].op = "MOV"]
    /\ phase' = "scan" /\ at' = at + 1
    /\ changed' = TRUE
    /\ UNCHANGED <<uses, def, blocks, initial, block, iteration>>

EraseMove ==
    /\ Scanning /\ Sources(Current) = {}
    /\ RedundantMove(block, at)
    /\ EraseAt(at)
    /\ changed' = TRUE
    /\ UNCHANGED <<initial, place, iteration>>

EraseJump ==
    /\ Scanning /\ RedundantJump(block, at)
    /\ EraseAt(at)
    /\ changed' = TRUE
    /\ UNCHANGED <<initial, place, iteration>>

Keep ==
    /\ Scanning /\ Sources(Current) = {}
    /\ ~RedundantMove(block, at) /\ ~RedundantJump(block, at)
    /\ at' = at + 1
    /\ UNCHANGED <<vars, blocks, initial, block, phase, changed, iteration>>

NextBlock ==
    /\ phase = "scan" /\ at > Len(blocks[block]) /\ block < Len(blocks)
    /\ block' = block + 1 /\ phase' = "prune"
    /\ UNCHANGED <<vars, blocks, initial, at, changed, iteration>>

\* Mutation: the flag is never reset.
NextIteration_Kept ==
    /\ phase = "scan" /\ at > Len(blocks[block]) /\ block = Len(blocks)
    /\ changed /\ iteration < MaxIterations
    /\ iteration' = iteration + 1 /\ block' = 1 /\ phase' = "prune"
    /\ UNCHANGED <<vars, blocks, initial, at, changed>>
NextIteration ==
    /\ phase = "scan" /\ at > Len(blocks[block]) /\ block = Len(blocks)
    /\ changed /\ iteration < MaxIterations
    /\ changed' = FALSE
    /\ iteration' = iteration + 1 /\ block' = 1 /\ phase' = "prune"
    /\ UNCHANGED <<vars, blocks, initial, at>>

Finish ==
    /\ phase = "scan" /\ at > Len(blocks[block]) /\ block = Len(blocks)
    /\ ~changed \/ iteration = MaxIterations
    /\ phase' = "done"
    /\ UNCHANGED <<vars, blocks, initial, block, at, changed, iteration>>

PeepholeNext ==
    \/ PruneDead \/ StartScan
    \/ Rewrite \/ ClearSecond \/ SetOpcode
    \/ EraseMove \/ EraseJump \/ Keep
    \/ NextBlock \/ NextIteration \/ Finish

PeepholeSpec == PeepholeInit /\ [][PeepholeNext]_allVars

Function == [code |-> code, blocks |-> blocks]

\* The blocks control may go to from block b of function f.
Successors(f, b) ==
    LET ends == {k \in DOMAIN f.blocks[b] : f.code[f.blocks[b][k]].op \in Terminators}
        last == f.code[f.blocks[b][Min(ends)]]
    IN  IF ends = {} THEN {b + 1} \cap DOMAIN f.blocks
        ELSE {t \in DOMAIN f.blocks : \E k \in DOMAIN last.ops : last.ops[k] = Block(t)}

-----------------------------------------------------------------------------
(* Properties.                                                             *)

\* Types.
PeepholeTypeOK ==
    /\ TypeOK
    /\ blocks \in Seq(Seq(Instructions))
    /\ block \in DOMAIN blocks /\ at \in Nat /\ iteration \in 1 .. MaxIterations
    /\ phase \in {"prune", "scan", "clear", "opcode", "done"} /\ changed \in BOOLEAN
    \* The instructions in the blocks are the live ones, each in one place.
    /\ \A i \in Instructions :
          Cardinality({p \in (DOMAIN blocks) \X (1 .. Cardinality(Instructions)) :
                          p[2] \in DOMAIN blocks[p[1]] /\ blocks[p[1]][p[2]] = i})
            = IF code[i].live THEN 1 ELSE 0

\* No edge of the control flow graph comes or goes: the predecessor lists that
\* phi operands are matched to were published before this pass ran.
SuccessorsKept ==
    \A b \in DOMAIN blocks : Successors(Function, b) = Successors(initial, b)

\* The pass ends because nothing is left to simplify, in the third iteration
\* at the latest, and never because of the limit on iterations.
EndsAtFixpoint ==
    /\ iteration <= 3
    /\ phase = "done" =>
          \A b \in DOMAIN blocks :
              /\ DeadPlaces(b) = {}
              /\ \A k \in DOMAIN blocks[b] :
                    Sources(blocks[b][k]) = {} /\ ~RedundantMove(b, k) /\ ~RedundantJump(b, k)

\* A register that some instruction reads has a recorded use.  Selection drops
\* a phi without uses, and folding takes a register with one use for its only
\* reader's.
ReadMeansUsed ==
    phase \in {"prune", "scan", "done"} =>
        \A r \in Regs, i \in Instructions, k \in Slots :
            ReadsOf(i, k, r) > 0 => \E j \in Instructions, n \in Slots : uses[j][r][n] > 0
=============================================================================
