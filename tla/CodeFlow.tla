------------------------------ MODULE CodeFlow ------------------------------
(***************************************************************************)
(* The control flow analysis of EzMir (CodeFlowAnalysisPass) on one        *)
(* function, before and after instruction selection.                       *)
(*                                                                         *)
(* The pass never looks at what an instruction is, only at its flags: a    *)
(* branch adds an edge to each block it names, and ends the block unless   *)
(* it reads the CPU flags; a return or any other terminator ends the       *)
(* block; a block that nothing ends falls through to the next one.  The    *)
(* middle end runs it on generic instructions, the register allocator on   *)
(* the target's, so both sets of flags must say the same control flow.     *)
(***************************************************************************)
EXTENDS Integers, Sequences, FiniteSets, SequencesExt

CONSTANTS
    NumBlocks,  \* number of blocks of the function
    Bodies,     \* the block bodies the function may be made of
    Target      \* "x86_64" or "riscv64"

ASSUME NumBlocksAssumption == NumBlocks \in Nat \ {0}
ASSUME TargetAssumption == Target \in {"x86_64", "riscv64"}

\* Blocks in list order, which is the order of their ids.
Blocks == 1 .. NumBlocks

\* An instruction: its opcode and the blocks its operands name.
I(op, to) == [op |-> op, to |-> to]

\* The generic opcodes, "MOV" for all that have nothing to do with control,
\* and those of the targets.
GenericOps == {"JMP", "BR_COND", "TRY", "RET", "THROW", "CALL", "CALL indirect", "MOV"}
TargetOps == {"cmp", "jmp", "jne", "bne", "jal", "jalr", "call", "x86 ret", "riscv ret"}
Instructions == [op : GenericOps \cup TargetOps, to : Seq(Blocks)]

\* A function has generic instructions, with the block operands of their
\* descriptors (MirVerifierPass counts and types them).
ASSUME BodiesAssumption ==
    \A body \in Bodies :
        /\ body \in Seq(Instructions)
        /\ \A k \in DOMAIN body :
               /\ body[k].op \in GenericOps
               /\ Len(body[k].to) = CASE body[k].op = "JMP" -> 1
                                      [] body[k].op \in {"BR_COND", "TRY"} -> 2
                                      [] OTHER -> 0

Flags(op) ==
    CASE op \in {"JMP", "BR_COND", "TRY", "jmp"} -> {"IsTerminator", "IsBranch"}
      [] op \in {"RET", "x86 ret"} -> {"IsTerminator", "IsReturn"}
      [] op = "THROW" -> {"IsTerminator"}
      [] op = "jne" -> {"IsTerminator", "IsBranch", "ReadsCPUFlags"}
      [] op \in {"bne", "jal", "jalr"} -> {"IsBranch"}
      [] op = "riscv ret" -> {"IsReturn"}
      [] OTHER -> {}

VARIABLES
    code,       \* the body of each block
    selected,   \* has the function gone through instruction selection?
    phase,      \* of the pass: "scan", "publish", "done"
    blk,        \* the block the current loop is at
    pc,         \* the instruction of blk the scan is at
    succ,       \* m_successors
    pred,       \* m_predecessors
    published,  \* the predecessor list each block was given
    before      \* the successors found before selection (history)

vars == <<code, selected, phase, blk, pc, succ, pred, published, before>>

NoEdges == [b \in Blocks |-> {}]
NoLists == [b \in Blocks |-> << >>]

Init ==
    /\ code \in [Blocks -> Bodies]
    /\ selected = FALSE
    /\ phase = "scan"
    /\ blk = 1
    /\ pc = 1
    /\ succ = NoEdges
    /\ pred = NoEdges
    /\ published = NoLists
    /\ before = NoEdges

AddEdges(from, to) ==
    /\ succ' = [succ EXCEPT ![from] = @ \cup to]
    /\ pred' = [b \in Blocks |-> IF b \in to THEN pred[b] \cup {from} ELSE pred[b]]

Scanning == phase = "scan" /\ pc \in 1 .. Len(code[blk])
Current == code[blk][pc]
Has(flag) == flag \in Flags(Current.op)

\* The scan of a block is over: the next block, or publication.
NextBlock ==
    /\ IF blk < NumBlocks THEN blk' = blk + 1 /\ phase' = phase
                          ELSE blk' = 1 /\ phase' = "publish"
    /\ pc' = 1

\* Mutation: a branch never ends the scan of its block.
EndsBlock_Never == FALSE
\* A branch that does not read the CPU flags is taken as unconditional.
EndsBlock == ~Has("ReadsCPUFlags")

ScanBranch ==
    /\ Scanning
    /\ Has("IsBranch")
    /\ AddEdges(blk, ToSet(Current.to))
    /\ IF EndsBlock THEN NextBlock ELSE pc' = pc + 1 /\ UNCHANGED <<blk, phase>>
    /\ UNCHANGED <<code, selected, published, before>>

\* A return, or a terminator that is no branch, ends the block.
ScanExit ==
    /\ Scanning
    /\ ~Has("IsBranch")
    /\ Has("IsReturn") \/ Has("IsTerminator")
    /\ NextBlock
    /\ UNCHANGED <<code, selected, succ, pred, published, before>>

ScanOther ==
    /\ Scanning
    /\ Flags(Current.op) \cap {"IsBranch", "IsReturn", "IsTerminator"} = {}
    /\ pc' = pc + 1
    /\ UNCHANGED <<code, selected, phase, blk, succ, pred, published, before>>

\* The block that follows b in the layout.
FallsInto(b) == IF b < NumBlocks THEN {b + 1} ELSE {}

FallThrough ==
    /\ phase = "scan"
    /\ pc > Len(code[blk])
    /\ AddEdges(blk, FallsInto(blk))
    /\ NextBlock
    /\ UNCHANGED <<code, selected, published, before>>

\* Mutation: the list keeps the order of a hash table.
InIdOrder_Descending(ids) ==
    [k \in 1 .. Cardinality(ids) |->
        CHOOSE b \in ids : Cardinality({c \in ids : c > b}) = k - 1]
\* The vector of ids insertSortedUnique keeps: each in front of the larger ones.
InIdOrder(ids) ==
    [k \in 1 .. Cardinality(ids) |->
        CHOOSE b \in ids : Cardinality({c \in ids : c < b}) = k - 1]

\* MirBlock::setPredecessors, block after block.
Publish ==
    /\ phase = "publish"
    /\ published' = [published EXCEPT ![blk] = InIdOrder(pred[blk])]
    /\ IF blk < NumBlocks THEN blk' = blk + 1 /\ phase' = phase
                          ELSE blk' = 1 /\ phase' = "done"
    /\ UNCHANGED <<code, selected, pc, succ, pred, before>>

\* Mutation: the jump to the false block is left to the layout.
BranchCode_NoJump(true, false) ==
    IF Target = "x86_64" THEN <<I("cmp", << >>), I("jne", <<true>>)>>
    ELSE <<I("bne", <<true>>)>>
\* selectBR_COND
BranchCode(true, false) ==
    IF Target = "x86_64" THEN <<I("cmp", << >>), I("jne", <<true>>), I("jmp", <<false>>)>>
    ELSE <<I("bne", <<true>>), I("jal", <<false>>)>>

\* What the code of a generic instruction becomes.  THROW has been legalized
\* to a call of the runtime; TRY becomes a jump to its first block.
SelectedCode(i) ==
    LET x86 == Target = "x86_64"
    IN  CASE i.op = "BR_COND" -> BranchCode(i.to[1], i.to[2])
          [] i.op \in {"JMP", "TRY"} -> <<I(IF x86 THEN "jmp" ELSE "jal", <<i.to[1]>>)>>
          [] i.op = "RET" -> <<I(IF x86 THEN "x86 ret" ELSE "riscv ret", << >>)>>
          [] i.op \in {"CALL", "THROW"} -> <<I("call", << >>)>>
          [] i.op = "CALL indirect" -> <<I(IF x86 THEN "call" ELSE "jalr", << >>)>>
          [] OTHER -> <<i>>

\* Legalization and instruction selection replace every instruction, and the
\* analysis starts over from nothing; the published lists stay on the blocks.
Select ==
    /\ phase = "done"
    /\ ~selected
    /\ code' = [b \in Blocks |-> FlattenSeq([k \in DOMAIN code[b] |-> SelectedCode(code[b][k])])]
    /\ selected' = TRUE
    /\ before' = succ
    /\ phase' = "scan"
    /\ succ' = NoEdges
    /\ pred' = NoEdges
    /\ UNCHANGED <<blk, pc, published>>

Next == ScanBranch \/ ScanExit \/ ScanOther \/ FallThrough \/ Publish \/ Select

Spec == Init /\ [][Next]_vars

-----------------------------------------------------------------------------
(* What the instructions do.                                               *)

\* Does control go on to the next instruction?  (Every call may return.)
Continues(op) == op \notin {"JMP", "BR_COND", "TRY", "RET", "THROW", "jmp", "jal", "x86 ret", "riscv ret"}

Reached(b) == {k \in DOMAIN code[b] : \A j \in 1 .. k - 1 : Continues(code[b][j].op)}

\* The blocks control may enter when it leaves block b.
Flow(b) ==
    (UNION {ToSet(code[b][k].to) : k \in Reached(b)})
    \cup (IF \A k \in DOMAIN code[b] : Continues(code[b][k].op) THEN Blocks \cap {b + 1} ELSE {})

-----------------------------------------------------------------------------

Lists == UNION {[1 .. n -> Blocks] : n \in 0 .. NumBlocks}

\* The state of the pass stays in the shape the code gives it.
TypeOK ==
    /\ selected \in BOOLEAN
    /\ phase \in {"scan", "publish", "done"}
    /\ blk \in Blocks
    /\ pc \in 1 .. Len(code[blk]) + 1
    /\ succ \in [Blocks -> SUBSET Blocks]
    /\ pred \in [Blocks -> SUBSET Blocks]
    /\ published \in [Blocks -> Lists]

\* When the pass ends, the graph is the control flow of the code: an edge for
\* every way control may leave a block, none for code that is never reached
\* (the flags of every branch tell a conditional from an unconditional one).
EdgesAreControlFlow == phase = "done" => \A b \in Blocks : succ[b] = Flow(b)

\* Instruction selection takes no way out of a block away: a block that a
\* value was live into before selection is still reached after it.
SelectionKeepsEdges == selected /\ phase = "done" => \A b \in Blocks : before[b] \subseteq succ[b]

\* The list that a block carries afterwards is its predecessors in ascending
\* order without repetition, the order in which SSA construction fills the
\* operands of a phi and phi selection reads them.
PublishedInPhiOrder ==
    phase = "done" =>
        \A b \in Blocks :
            /\ ToSet(published[b]) = {p \in Blocks : b \in succ[p]}
            /\ \A j, k \in DOMAIN published[b] : j < k => published[b][j] < published[b][k]
=============================================================================
