---------------------------- MODULE DefUseRegistry ----------------------------
(***************************************************************************)
(* MirFunctionRegisterInfo, the record of where each virtual register of a *)
(* function is defined and used, and MirInstructionBuilder, which keeps it *)
(* up to date at every edit of an instruction's operands.                  *)
(*                                                                         *)
(* The record is not a function of the code: each edit takes away what the *)
(* old operands stand for and adds what the new ones do, as the access     *)
(* flags of the moment say, and taking away a use forgets all uses of that *)
(* register by that instruction.  The properties say how far the record    *)
(* can be trusted by its readers (load folding, phi elimination, liveness).*)
(*                                                                         *)
(* Every instruction belongs to one function and is built at an insertion  *)
(* point inside it; a target description is set before the operands are.   *)
(***************************************************************************)
EXTENDS Integers, Sequences

CONSTANTS
    Instructions,  \* the instructions that may be created
    Regs,          \* virtual registers
    Values,        \* what operands without a virtual register hold
    Opcodes,       \* the opcodes the client creates each instruction with
    Addresses,     \* the base and index registers of memory operands
    MaxOperands,   \* bound on the operands of an instruction
    Room,          \* how many operands the client gives each instruction at most
    None           \* no instruction; no register in an address

ASSUME NoneAssumption == None \notin Instructions
ASSUME AddressesAssumption ==
    Addresses \subseteq [base : Regs \cup {None}, index : Regs \cup {None}]
ASSUME RoomAssumption == MaxOperands \in Nat /\ Room \in [Instructions -> 0 .. MaxOperands]

Read == {"read"}
Write == {"write"}
ReadWrite == {"read", "write"}
Flags == {{}, Read, Write, ReadWrite}

\* The generated metadata: the access of each operand slot, and which slot
\* repeats (0 for none).  "TARGET" stands for a selected instruction, whose
\* first operand its description may both read and write.
Metadata ==
    [MOV   |-> [slots |-> <<Write, Read>>, variadic |-> 0],
     ADD   |-> [slots |-> <<Write, Read, Read>>, variadic |-> 0],
     SUB   |-> [slots |-> <<Write, Read, Read>>, variadic |-> 0],
     MUL   |-> [slots |-> <<Write, Read, Read>>, variadic |-> 0],
     AND   |-> [slots |-> <<Write, Read, Read>>, variadic |-> 0],
     OR    |-> [slots |-> <<Write, Read, Read>>, variadic |-> 0],
     XOR   |-> [slots |-> <<Write, Read, Read>>, variadic |-> 0],
     SHL   |-> [slots |-> <<Write, Read, Read>>, variadic |-> 0],
     SHR   |-> [slots |-> <<Write, Read, Read>>, variadic |-> 0],
     STORE |-> [slots |-> <<Read, Read>>, variadic |-> 0],
     JMP   |-> [slots |-> <<Read>>, variadic |-> 0],
     BR_COND |-> [slots |-> <<Read, Read, Read>>, variadic |-> 0],
     RET   |-> [slots |-> <<Read>>, variadic |-> 0],
     PHI   |-> [slots |-> <<Write, Read>>, variadic |-> 2],
     CALL  |-> [slots |-> <<Write, Read, Read>>, variadic |-> 3],
     UNMERGE_VALUES |-> [slots |-> <<Write, Read>>, variadic |-> 1],
     TARGET |-> [slots |-> <<ReadWrite, Read>>, variadic |-> 0]]

ASSUME OpcodesAssumption == Opcodes \in [Instructions -> SUBSET DOMAIN Metadata]

\* Operands: a register, a memory operand with its base and index, anything
\* that names no virtual register (an immediate, a block, a physical register).
RegisterOperands == [kind : {"register"}, reg : Regs]
MemoryOperands == [kind : {"memory"}, address : Addresses]
OtherOperands == [kind : {"other"}, value : Values]
Operands == RegisterOperands \cup MemoryOperands \cup OtherOperands

\* An instruction that is not created yet.  One that has been erased is not
\* live; its operands stay with it but nobody looks at them any more.
NoCode == [op |-> "none", ops |-> <<>>, live |-> FALSE]
Codes == {NoCode} \cup [op : DOMAIN Metadata, ops : Seq(Operands), live : BOOLEAN]
Slots == 1 .. MaxOperands

VARIABLES
    code,   \* what each instruction is
    uses,   \* m_uses: how often each operand slot of each instruction is recorded as a use
    def     \* m_defInst

vars == <<code, uses, def>>

NoUses == [k \in Slots |-> 0]

Init ==
    /\ code = [i \in Instructions |-> NoCode]
    /\ uses = [i \in Instructions |-> [r \in Regs |-> NoUses]]
    /\ def = [r \in Regs |-> None]

-----------------------------------------------------------------------------
(* The access of operands (MirInstruction).                                *)

\* getOperandFlag of operand k, which may depend on the number of operands
\* and, for a call, on what the first one is.
Flag(op, ops, k) ==
    LET slots    == Metadata[op].slots
        variadic == Metadata[op].variadic
        slot(j)  == IF j \in 1 .. Len(slots) THEN slots[j] ELSE {}
    IN  IF op = "TARGET" THEN (IF k <= Len(slots) THEN slots[k] ELSE Read)
        ELSE IF op = "CALL" /\ ops[1].kind # "register" THEN Read
        ELSE IF variadic = 0 \/ Len(ops) < Len(slots) - 1 \/ k < variadic THEN slot(k)
        ELSE IF k > Len(ops) - (Len(slots) - variadic) THEN slot(Len(slots) - (Len(ops) - k))
        ELSE slot(variadic)

\* visitOperandRegisters: how often operand k reads r, and whether it writes
\* it.  The registers of an address are always read.
Reads(op, ops, k, r) ==
    IF k \notin 1 .. Len(ops) THEN 0
    ELSE IF ops[k].kind = "register"
         THEN (IF ops[k].reg = r /\ "read" \in Flag(op, ops, k) THEN 1 ELSE 0)
    ELSE IF ops[k].kind = "memory"
         THEN (IF ops[k].address.base = r THEN 1 ELSE 0) + (IF ops[k].address.index = r THEN 1 ELSE 0)
    ELSE 0
Writes(op, ops, k, r) ==
    /\ k \in 1 .. Len(ops)
    /\ ops[k].kind = "register" /\ ops[k].reg = r
    /\ "write" \in Flag(op, ops, k)

-----------------------------------------------------------------------------
(* The builder's edits.  Each unregisters some operands of an instruction, *)
(* changes it, and registers some of its new operands.                     *)

\* Mutation: the registers of an address are not visited.
UsesWithout_Addresses(i, old) ==
    [r \in Regs |->
        IF \E k \in old : code[i].ops[k].kind = "register" /\ Reads(code[i].op, code[i].ops, k, r) > 0
        THEN NoUses ELSE uses[i][r]]
\* unregisterOperand for the operands in "old": removeUse erases every use of
\* the register by the instruction, at whatever operand.
UsesWithout(i, old) ==
    [r \in Regs |->
        IF \E k \in old : Reads(code[i].op, code[i].ops, k, r) > 0
        THEN NoUses ELSE uses[i][r]]

\* registerOperand for the operands in "new" of the changed instruction.
UsesWith(us, op, ops, new) ==
    [r \in Regs |-> [k \in Slots |-> us[r][k] + (IF k \in new THEN Reads(op, ops, k, r) ELSE 0)]]

\* clearDef for the operands in "old", which leaves another instruction's
\* definition alone.
DefWithout(i, old) ==
    [r \in Regs |->
        IF def[r] = i /\ \E k \in old : Writes(code[i].op, code[i].ops, k, r)
        THEN None ELSE def[r]]
DefWith(d, i, op, ops, new) ==
    [r \in Regs |-> IF \E k \in new : Writes(op, ops, k, r) THEN i ELSE d[r]]

Edit(i, old, c, new) ==
    /\ code' = [code EXCEPT ![i] = c]
    /\ uses' = [uses EXCEPT ![i] = UsesWith(UsesWithout(i, old), c.op, c.ops, new)]
    /\ def' = DefWith(DefWithout(i, old), i, c.op, c.ops, new)

IsLive(i) == code[i].live
MayGrow(i) == IsLive(i) /\ Len(code[i].ops) < Room[i]
Positions(i) == 1 .. Len(code[i].ops)
WithOperands(i, ops) == [op |-> code[i].op, ops |-> ops, live |-> TRUE]

\* buildImpl creates an instruction and adds its operands one by one; linking
\* it into the block afterwards leaves the record alone.
CreateInstruction(i, op) ==
    /\ code[i] = NoCode
    /\ code' = [code EXCEPT ![i] = [op |-> op, ops |-> <<>>, live |-> TRUE]]
    /\ UNCHANGED <<uses, def>>

AddOperand(i, o) ==
    /\ MayGrow(i)
    /\ Edit(i, {}, WithOperands(i, Append(code[i].ops, o)), {Len(code[i].ops) + 1})

AddOperandFront(i, o) ==
    /\ MayGrow(i)
    /\ Edit(i, Positions(i), WithOperands(i, <<o>> \o code[i].ops), 1 .. Len(code[i].ops) + 1)

ClearOperands(i) ==
    /\ IsLive(i)
    /\ Edit(i, Positions(i), WithOperands(i, <<>>), {})

WithoutOperand(i, pos) ==
    [k \in 1 .. Len(code[i].ops) - 1 |-> IF k < pos THEN code[i].ops[k] ELSE code[i].ops[k + 1]]

\* Mutation: the operand that moves to pos is not registered.
ClearOperand_SkipsNext(i, pos) ==
    /\ IsLive(i)
    /\ Edit(i, pos .. Len(code[i].ops), WithOperands(i, WithoutOperand(i, pos)),
            pos + 1 .. Len(code[i].ops) - 1)
ClearOperand(i, pos) ==
    /\ IsLive(i)
    /\ Edit(i, pos .. Len(code[i].ops), WithOperands(i, WithoutOperand(i, pos)),
            pos .. Len(code[i].ops) - 1)

\* Mutation: the old operand is unregistered after the new one is registered.
SwapOperand_RegistersFirst(i, o, pos) ==
    /\ IsLive(i)
    /\ LET c == WithOperands(i, [code[i].ops EXCEPT ![pos] = o])
           old(r) == Reads(code[i].op, code[i].ops, pos, r) > 0
       IN  /\ code' = [code EXCEPT ![i] = c]
           /\ uses' = [uses EXCEPT ![i] =
                 [r \in Regs |-> IF old(r) THEN NoUses ELSE UsesWith(uses[i], c.op, c.ops, {pos})[r]]]
           /\ def' = [r \in Regs |-> IF Writes(code[i].op, code[i].ops, pos, r) THEN None
                                     ELSE DefWith(def, i, c.op, c.ops, {pos})[r]]
SwapOperand(i, o, pos) ==
    /\ IsLive(i)
    /\ Edit(i, {pos}, WithOperands(i, [code[i].ops EXCEPT ![pos] = o]), {pos})

\* MirInstructionBuilder::erase and MirInstruction::eraseFromOwner.
Erase(i) ==
    /\ IsLive(i)
    /\ Edit(i, Positions(i), [op |-> code[i].op, ops |-> <<>>, live |-> FALSE], {})

Next ==
    \E i \in Instructions :
        \/ \E op \in Opcodes[i] : CreateInstruction(i, op)
        \/ \E o \in Operands : AddOperand(i, o) \/ AddOperandFront(i, o)
        \/ ClearOperands(i)
        \/ \E pos \in Positions(i) : ClearOperand(i, pos) \/ \E o \in Operands : SwapOperand(i, o, pos)
        \/ Erase(i)

Spec == Init /\ [][Next]_vars

-----------------------------------------------------------------------------
(* Properties.                                                             *)

TypeOK ==
    /\ code \in [Instructions -> Codes]
    /\ uses \in [Instructions -> [Regs -> [Slots -> Nat]]]
    /\ def \in [Regs -> Instructions \cup {None}]

\* The opcodes whose operands keep their access when operands are appended
\* or taken away behind them.
KeepsFlags(i) == code[i].op # "UNMERGE_VALUES"

\* What instruction i reads and writes.
ReadsOf(i, k, r) == Reads(code[i].op, code[i].ops, k, r)
WritesOf(i, k, r) == Writes(code[i].op, code[i].ops, k, r)

\* Every recorded use is a read the instruction still makes, at that operand
\* and no more often than it makes it: no stale use survives any sequence of
\* edits, erasure included.  (The operands of UNMERGE_VALUES change their
\* access while it is built; it is the one opcode this is not true of.)
NoDanglingUse ==
    \A i \in Instructions : KeepsFlags(i) =>
        \A r \in Regs, k \in Slots : uses[i][r][k] <= ReadsOf(i, k, r)

\* The instruction recorded as the definition of a register writes it.
DefIsWriter ==
    \A r \in Regs, i \in Instructions : def[r] = i /\ KeepsFlags(i) =>
        \E k \in Slots : WritesOf(i, k, r)

\* The record has exactly the reads of instruction i.
Exact(i) == \A r \in Regs, k \in Slots : uses[i][r][k] = ReadsOf(i, k, r)

\* No register is read by two operands of instruction i.
ReadsOnce(i) ==
    \A r \in Regs : \A j, k \in Slots :
        ReadsOf(i, j, r) > 0 /\ ReadsOf(i, k, r) > 0 => j = k

\* As long as no two operands of an instruction read the same register, an
\* exact record of its uses stays exact through any edit; two that do are the
\* case in which replacing one forgets the other.
UsesStayExact ==
    [][\A i \in Instructions : KeepsFlags(i) /\ Exact(i) /\ ReadsOnce(i) => Exact(i)']_vars

\* Unregistering all operands makes up for whatever was lost before: an
\* instruction that has been emptied, or got a new first operand, is recorded
\* exactly.
RebuildIsExact ==
    [][\A i \in Instructions :
          KeepsFlags(i) /\ (ClearOperands(i) \/ \E o \in Operands : AddOperandFront(i, o))
          => Exact(i)']_vars

Writers(r) == {p \in Instructions \X Slots : WritesOf(p[1], p[2], r)}
\* SSA in register r: at most one operand writes it.
WrittenOnce(r) == \A p, q \in Writers(r) : p = q
DefKnown(r) == \A p \in Writers(r) : def[r] = p[1]

\* While a register is written at one place at most, before and after a step,
\* its record of the definition stays right.
DefStaysKnown ==
    [][\A r \in Regs :
          /\ \A i \in Instructions : KeepsFlags(i)
          /\ WrittenOnce(r) /\ WrittenOnce(r)' /\ DefKnown(r)
          => DefKnown(r)']_vars
=============================================================================
