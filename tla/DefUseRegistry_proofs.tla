------------------------- MODULE DefUseRegistry_proofs -------------------------
(***************************************************************************)
(* What every client of the builder may rely on, whatever instructions it  *)
(* builds and however it edits them.  These theorems follow from one       *)
(* description of a step (Fits): the operands that are neither             *)
(* unregistered nor registered keep their accesses, and the others are     *)
(* unregistered before they are registered.  After them come those about   *)
(* its first client, the peephole pass.                                    *)
(***************************************************************************)
EXTENDS MirPeephole, SequenceTheorems, WellFoundedInduction, TLAPS

\* The operands keep to the bound; an instruction that is not created has none.
Bounded ==
    \A i \in Instructions :
        /\ Len(code[i].ops) <= Room[i]
        /\ code[i].op = "none" => code[i].ops = <<>>

IInv == TypeOK /\ Bounded /\ NoDanglingUse /\ DefIsWriter

\* Instruction c takes the place of b: the operands in "old" are unregistered,
\* those in "new" registered, and the others are left alone.
Fits(b, c, old, new) ==
    /\ old \subseteq 1 .. Len(b.ops)
    /\ new \subseteq 1 .. Len(c.ops)
    /\ \A r \in Regs, k \in Slots :
          /\ k \notin old \cup new =>
                /\ Reads(b.op, b.ops, k, r) = Reads(c.op, c.ops, k, r)
                /\ Writes(b.op, b.ops, k, r) <=> Writes(c.op, c.ops, k, r)
          /\ k \in new \ old => Reads(b.op, b.ops, k, r) = 0 /\ ~Writes(b.op, b.ops, k, r)
          /\ k \in old \ new => Reads(c.op, c.ops, k, r) = 0 /\ ~Writes(c.op, c.ops, k, r)

-----------------------------------------------------------------------------
(* The access of operands.                                                 *)

\* The metadata of the opcodes: three of them are not a plain list of slots.
LEMMA MetadataShape ==
    /\ \A op \in DOMAIN Metadata :
          op \notin {"PHI", "CALL", "UNMERGE_VALUES"} => Metadata[op].variadic = 0
    /\ "none" \notin DOMAIN Metadata
    /\ Metadata["PHI"] = [slots |-> <<Write, Read>>, variadic |-> 2]
    /\ Metadata["CALL"] = [slots |-> <<Write, Read, Read>>, variadic |-> 3]
BY DEF Metadata

\* Operand kinds exclude one another, and a read count is a number.
LEMMA ReadsType ==
    ASSUME NEW op, NEW ops, NEW k, NEW r
    PROVE  Reads(op, ops, k, r) \in Nat
BY DEF Reads

\* The access of an operand depends on nothing behind it, UNMERGE_VALUES apart.
LEMMA FlagSteady ==
    ASSUME NEW op \in DOMAIN Metadata, op # "UNMERGE_VALUES",
           NEW a \in Seq(Operands), NEW b \in Seq(Operands),
           NEW k \in 1 .. Len(a), k <= Len(b), a[k] = b[k]
    PROVE  Flag(op, a, k) = Flag(op, b, k)
<1>1. CASE op = "TARGET"
  BY <1>1 DEF Flag
<1>2. CASE op = "CALL"
  <2>1. Metadata[op].slots = <<Write, Read, Read>> /\ Metadata[op].variadic = 3
    BY <1>2, MetadataShape
  <2>2. CASE k = 1
    BY <1>2, <2>1, <2>2 DEF Flag
  <2>3. CASE k # 1
    <3>1. Flag(op, a, k) = Read
      BY <1>2, <2>1, <2>3 DEF Flag
    <3>2. Flag(op, b, k) = Read
      BY <1>2, <2>1, <2>3 DEF Flag
    <3> QED BY <3>1, <3>2
  <2> QED BY <2>2, <2>3
<1>3. CASE op = "PHI"
  <2>1. Metadata[op].slots = <<Write, Read>> /\ Metadata[op].variadic = 2
    BY <1>3, MetadataShape
  <2> QED BY <1>3, <2>1 DEF Flag
<1>4. CASE op \notin {"TARGET", "CALL", "PHI"}
  <2>1. Metadata[op].variadic = 0
    BY <1>4, MetadataShape
  <2> QED BY <1>4, <2>1 DEF Flag
<1> QED BY <1>1, <1>2, <1>3, <1>4

\* The same for what the operand reads and writes.
LEMMA AccessSteady ==
    ASSUME NEW op \in DOMAIN Metadata, op # "UNMERGE_VALUES",
           NEW a \in Seq(Operands), NEW b \in Seq(Operands),
           NEW k \in 1 .. Len(a), k <= Len(b), a[k] = b[k], NEW r
    PROVE  /\ Reads(op, a, k, r) = Reads(op, b, k, r)
           /\ Writes(op, a, k, r) <=> Writes(op, b, k, r)
<1>1. Flag(op, a, k) = Flag(op, b, k)
  BY FlagSteady
<1>2. k \in 1 .. Len(b)
  OBVIOUS
<1> QED BY <1>1, <1>2 DEF Reads, Writes

\* An operand that is not there reads and writes nothing.
LEMMA Beyond ==
    ASSUME NEW op, NEW ops, NEW k, k \notin 1 .. Len(ops), NEW r
    PROVE  Reads(op, ops, k, r) = 0 /\ ~Writes(op, ops, k, r)
BY DEF Reads, Writes

-----------------------------------------------------------------------------
(* Every step is an edit that fits.                                        *)

\* What a step does to the instruction it is about.
EditOf(i, c, old, new) ==
    /\ Edit(i, old, c, new)
    /\ c \in Codes
    /\ c.op = code[i].op
    /\ Len(c.ops) <= Room[i]
    /\ KeepsFlags(i) => Fits(code[i], c, old, new)

\* A live instruction has an opcode of the metadata.
LEMMA LiveCode ==
    ASSUME TypeOK, NEW i \in Instructions, IsLive(i)
    PROVE  /\ code[i].op \in DOMAIN Metadata
           /\ code[i].ops \in Seq(Operands)
           /\ Len(code[i].ops) \in Nat
BY DEF TypeOK, Codes, NoCode, IsLive

\* Of the operands a, those not in "old" stay at their place in b, and b has
\* no others besides those in "new".
LeavesOthers(a, b, old, new) ==
    /\ old \subseteq 1 .. Len(a)
    /\ new \subseteq 1 .. Len(b)
    /\ \A k \in 1 .. Len(a) : k \notin old => k \in 1 .. Len(b) /\ k \notin new /\ a[k] = b[k]
    /\ \A k \in 1 .. Len(b) : k \notin new => k \in 1 .. Len(a) /\ k \notin old

\* Operands that are neither unregistered nor registered stay what they are.
LEMMA FitsWhenKept ==
    ASSUME NEW b, NEW c, b.op = c.op, b.op \in DOMAIN Metadata, b.op # "UNMERGE_VALUES",
           b.ops \in Seq(Operands), c.ops \in Seq(Operands),
           NEW old, NEW new, LeavesOthers(b.ops, c.ops, old, new)
    PROVE  Fits(b, c, old, new)
<1> SUFFICES ASSUME NEW r \in Regs, NEW k \in Slots
             PROVE  /\ k \notin old \cup new =>
                          /\ Reads(b.op, b.ops, k, r) = Reads(c.op, c.ops, k, r)
                          /\ Writes(b.op, b.ops, k, r) <=> Writes(c.op, c.ops, k, r)
                    /\ k \in new \ old => Reads(b.op, b.ops, k, r) = 0 /\ ~Writes(b.op, b.ops, k, r)
                    /\ k \in old \ new => Reads(c.op, c.ops, k, r) = 0 /\ ~Writes(c.op, c.ops, k, r)
  BY DEF Fits, LeavesOthers
<1>1. k \notin 1 .. Len(b.ops) => Reads(b.op, b.ops, k, r) = 0 /\ ~Writes(b.op, b.ops, k, r)
  BY Beyond
<1>2. k \notin 1 .. Len(c.ops) => Reads(c.op, c.ops, k, r) = 0 /\ ~Writes(c.op, c.ops, k, r)
  BY Beyond
<1>3. CASE k \in 1 .. Len(b.ops) /\ k \notin old
  <2>1. k \in 1 .. Len(c.ops) /\ k \notin new /\ b.ops[k] = c.ops[k]
    BY <1>3 DEF LeavesOthers
  <2>2. k <= Len(c.ops)
    BY <2>1
  <2>3. /\ Reads(b.op, b.ops, k, r) = Reads(b.op, c.ops, k, r)
        /\ Writes(b.op, b.ops, k, r) <=> Writes(b.op, c.ops, k, r)
    BY <1>3, <2>1, <2>2, AccessSteady
  <2> QED BY <1>3, <2>1, <2>3
<1>4. CASE k \in old
  BY <1>2, <1>4 DEF LeavesOthers
<1>5. CASE k \notin 1 .. Len(b.ops)
  BY <1>1, <1>2, <1>5 DEF LeavesOthers
<1> QED BY <1>3, <1>4, <1>5

\* An edit whose unregistered and registered operands leave the others in
\* place is what EditOf says.
LEMMA EditOfWhenKept ==
    ASSUME TypeOK, NEW i \in Instructions, IsLive(i),
           NEW ops \in Seq(Operands), Len(ops) <= Room[i],
           NEW live \in BOOLEAN,
           NEW old, NEW new, LeavesOthers(code[i].ops, ops, old, new),
           Edit(i, old, [op |-> code[i].op, ops |-> ops, live |-> live], new)
    PROVE  EditOf(i, [op |-> code[i].op, ops |-> ops, live |-> live], old, new)
<1> DEFINE c == [op |-> code[i].op, ops |-> ops, live |-> live]
<1>1. code[i].op \in DOMAIN Metadata /\ code[i].ops \in Seq(Operands)
  BY LiveCode
<1>2. c.op = code[i].op /\ c.ops = ops
  OBVIOUS
<1>3. c \in Codes
  BY <1>1 DEF Codes
<1>4. Edit(i, old, c, new)
  OBVIOUS
<1> HIDE DEF c
<1>5. KeepsFlags(i) => Fits(code[i], c, old, new)
  BY <1>1, <1>2, FitsWhenKept DEF KeepsFlags
<1>6. EditOf(i, c, old, new)
  BY <1>2, <1>3, <1>4, <1>5 DEF EditOf
<1> QED BY <1>6 DEF c

LEMMA EditsWhenKept ==
    ASSUME TypeOK, NEW i \in Instructions, IsLive(i),
           NEW ops \in Seq(Operands), Len(ops) <= Room[i],
           NEW live \in BOOLEAN,
           NEW old, NEW new, LeavesOthers(code[i].ops, ops, old, new),
           Edit(i, old, [op |-> code[i].op, ops |-> ops, live |-> live], new)
    PROVE  \E c, o, n : EditOf(i, c, o, n)
<1>1. EditOf(i, [op |-> code[i].op, ops |-> ops, live |-> live], old, new)
  BY EditOfWhenKept
<1> QED BY <1>1

\* Each operation of the builder on a live instruction is such an edit.
LEMMA StepEdits ==
    ASSUME TypeOK, Bounded, NEW i \in Instructions,
           \/ \E o \in Operands : AddOperand(i, o) \/ AddOperandFront(i, o)
           \/ ClearOperands(i)
           \/ \E pos \in Positions(i) : ClearOperand(i, pos) \/ \E o \in Operands : SwapOperand(i, o, pos)
           \/ Erase(i)
    PROVE  \E c, old, new : EditOf(i, c, old, new)
<1> DEFINE b == code[i].ops
           n == Len(code[i].ops)
<1>1. IsLive(i)
  BY DEF AddOperand, AddOperandFront, ClearOperands, ClearOperand, SwapOperand, Erase, MayGrow
<1>2. b \in Seq(Operands) /\ n \in Nat
  BY <1>1, LiveCode
<1>3. Room[i] \in Nat /\ n <= Room[i]
  BY RoomAssumption DEF Bounded
<1>4. ASSUME NEW o \in Operands, AddOperand(i, o) PROVE \E c, old, new : EditOf(i, c, old, new)
  <2> DEFINE ops == Append(b, o)
  <2>1. n < Room[i] /\ Edit(i, {}, [op |-> code[i].op, ops |-> ops, live |-> TRUE], {n + 1})
    BY <1>4 DEF AddOperand, MayGrow, WithOperands
  <2>2. ops \in Seq(Operands) /\ Len(ops) = n + 1 /\ \A k \in 1 .. n : ops[k] = b[k]
    BY <1>2
  <2> HIDE DEF ops
  <2>3. Len(ops) <= Room[i]
    BY <1>2, <1>3, <2>1, <2>2
  <2>4. LeavesOthers(b, ops, {}, {n + 1})
    BY <1>2, <2>2 DEF LeavesOthers
  <2> QED BY <1>1, <2>1, <2>2, <2>3, <2>4, EditsWhenKept
<1>5. ASSUME NEW o \in Operands, AddOperandFront(i, o) PROVE \E c, old, new : EditOf(i, c, old, new)
  <2> DEFINE ops == <<o>> \o b
  <2>1. n < Room[i] /\ Edit(i, 1 .. n, [op |-> code[i].op, ops |-> ops, live |-> TRUE], 1 .. n + 1)
    BY <1>5 DEF AddOperandFront, MayGrow, WithOperands, Positions
  <2>2. ops \in Seq(Operands) /\ Len(ops) = n + 1
    BY <1>2
  <2> HIDE DEF ops
  <2>3. Len(ops) <= Room[i]
    BY <1>2, <1>3, <2>1, <2>2
  <2>4. LeavesOthers(b, ops, 1 .. n, 1 .. n + 1)
    BY <1>2, <2>2 DEF LeavesOthers
  <2> QED BY <1>1, <2>1, <2>2, <2>3, <2>4, EditsWhenKept
<1>6. ASSUME ClearOperands(i) PROVE \E c, old, new : EditOf(i, c, old, new)
  <2>1. Edit(i, 1 .. n, [op |-> code[i].op, ops |-> <<>>, live |-> TRUE], {})
    BY <1>6 DEF ClearOperands, WithOperands, Positions
  <2>2. <<>> \in Seq(Operands) /\ Len(<<>>) = 0 /\ 0 <= Room[i]
    BY <1>3
  <2>3. LeavesOthers(b, <<>>, 1 .. n, {})
    BY <1>2, <2>2 DEF LeavesOthers
  <2> QED BY <1>1, <2>1, <2>2, <2>3, EditsWhenKept
<1>7. ASSUME NEW pos \in Positions(i), ClearOperand(i, pos) PROVE \E c, old, new : EditOf(i, c, old, new)
  <2> DEFINE ops == WithoutOperand(i, pos)
  <2>1. Edit(i, pos .. n, [op |-> code[i].op, ops |-> ops, live |-> TRUE], pos .. n - 1)
    BY <1>7 DEF ClearOperand, WithOperands
  <2>2. pos \in 1 .. n
    BY DEF Positions
  <2>3. /\ ops \in Seq(Operands) /\ Len(ops) = n - 1
        /\ \A k \in 1 .. n - 1 : k < pos => ops[k] = b[k]
    <3>1. \A k \in 1 .. n - 1 : b[k] \in Operands /\ b[k + 1] \in Operands
      BY <1>2
    <3>2. n - 1 \in Nat /\ ops \in [1 .. n - 1 -> Operands]
      BY <1>2, <2>2, <3>1 DEF WithoutOperand
    <3>3. \A k \in 1 .. n - 1 : k < pos => ops[k] = b[k]
      BY <1>2, <2>2 DEF WithoutOperand
    <3> HIDE DEF ops
    <3>4. ops \in Seq(Operands)
      BY <3>2, SeqDef
    <3>5. Len(ops) = n - 1
      BY <3>2, <3>4
    <3> QED BY <3>3, <3>4, <3>5
  <2> HIDE DEF ops
  <2>4. Len(ops) <= Room[i]
    BY <1>2, <1>3, <2>2, <2>3
  <2>5. LeavesOthers(b, ops, pos .. n, pos .. n - 1)
    BY <1>2, <2>2, <2>3 DEF LeavesOthers
  <2> QED BY <1>1, <2>1, <2>3, <2>4, <2>5, EditsWhenKept
<1>8. ASSUME NEW pos \in Positions(i), NEW o \in Operands, SwapOperand(i, o, pos)
      PROVE \E c, old, new : EditOf(i, c, old, new)
  <2> DEFINE ops == [b EXCEPT ![pos] = o]
  <2>1. Edit(i, {pos}, [op |-> code[i].op, ops |-> ops, live |-> TRUE], {pos})
    BY <1>8 DEF SwapOperand, WithOperands
  <2>2. pos \in 1 .. n
    BY DEF Positions
  <2>3. /\ ops \in Seq(Operands) /\ Len(ops) = n
        /\ \A k \in 1 .. n : k # pos => ops[k] = b[k]
    BY <1>2, <2>2
  <2> HIDE DEF ops
  <2>4. LeavesOthers(b, ops, {pos}, {pos})
    BY <1>2, <2>2, <2>3 DEF LeavesOthers
  <2>5. Len(ops) <= Room[i]
    BY <1>3, <2>3
  <2> QED BY <1>1, <2>1, <2>3, <2>4, <2>5, EditsWhenKept
<1>9. ASSUME Erase(i) PROVE \E c, old, new : EditOf(i, c, old, new)
  <2>1. Edit(i, 1 .. n, [op |-> code[i].op, ops |-> <<>>, live |-> FALSE], {})
    BY <1>9 DEF Erase, Positions
  <2>2. <<>> \in Seq(Operands) /\ Len(<<>>) = 0 /\ 0 <= Room[i]
    BY <1>3
  <2>3. LeavesOthers(b, <<>>, 1 .. n, {})
    BY <1>2, <2>2 DEF LeavesOthers
  <2> QED BY <1>1, <2>1, <2>2, <2>3, EditsWhenKept
<1> QED BY <1>4, <1>5, <1>6, <1>7, <1>8, <1>9

-----------------------------------------------------------------------------
(* The effect of an edit on the record.                                    *)

\* The record of uses of the edited instruction, pointwise.
LEMMA EditedUses ==
    ASSUME TypeOK, NEW i \in Instructions, NEW c, NEW old, NEW new, EditOf(i, c, old, new),
           NEW r \in Regs, NEW k \in Slots
    PROVE  uses'[i][r][k] =
              (IF \E j \in old : ReadsOf(i, j, r) > 0 THEN 0 ELSE uses[i][r][k])
              + (IF k \in new THEN Reads(c.op, c.ops, k, r) ELSE 0)
<1>1. uses' = [uses EXCEPT ![i] = UsesWith(UsesWithout(i, old), c.op, c.ops, new)]
  BY DEF EditOf, Edit
<1>2. uses'[i] = UsesWith(UsesWithout(i, old), c.op, c.ops, new)
  BY <1>1 DEF TypeOK
<1>3. uses'[i][r][k] = UsesWithout(i, old)[r][k] + (IF k \in new THEN Reads(c.op, c.ops, k, r) ELSE 0)
  BY <1>2 DEF UsesWith
<1>4. UsesWithout(i, old)[r][k] = IF \E j \in old : ReadsOf(i, j, r) > 0 THEN 0 ELSE uses[i][r][k]
  BY DEF UsesWithout, ReadsOf, NoUses
<1> QED BY <1>3, <1>4

\* The record of definitions, pointwise.
LEMMA EditedDef ==
    ASSUME TypeOK, NEW i \in Instructions, NEW c, NEW old, NEW new, EditOf(i, c, old, new),
           NEW r \in Regs
    PROVE  def'[r] = IF \E k \in new : Writes(c.op, c.ops, k, r) THEN i
                     ELSE IF def[r] = i /\ \E k \in old : WritesOf(i, k, r) THEN None
                     ELSE def[r]
BY DEF EditOf, Edit, DefWith, DefWithout, WritesOf

\* The other instructions and their records stay.
LEMMA EditedOthers ==
    ASSUME TypeOK, NEW i \in Instructions, NEW c, NEW old, NEW new, EditOf(i, c, old, new)
    PROVE  /\ code' \in [Instructions -> Codes] /\ code'[i] = c
           /\ \A j \in Instructions : j # i => code'[j] = code[j] /\ uses'[j] = uses[j]
BY DEF EditOf, Edit, TypeOK

\* An edit keeps the types.
LEMMA EditTypes ==
    ASSUME TypeOK, NEW i \in Instructions, NEW c, NEW old, NEW new, EditOf(i, c, old, new)
    PROVE  TypeOK'
<1>1. code' \in [Instructions -> Codes]
  BY EditedOthers
<1>2. uses' \in [Instructions -> [Regs -> [Slots -> Nat]]]
  <2>1. UsesWithout(i, old) \in [Regs -> [Slots -> Nat]]
    BY DEF UsesWithout, NoUses, TypeOK
  <2>2. \A k, r : Reads(c.op, c.ops, k, r) \in Nat
    BY ReadsType
  <2>3. UsesWith(UsesWithout(i, old), c.op, c.ops, new) \in [Regs -> [Slots -> Nat]]
    BY <2>1, <2>2 DEF UsesWith
  <2> QED BY <2>3 DEF EditOf, Edit, TypeOK
<1>3. def' \in [Regs -> Instructions \cup {None}]
  BY DEF EditOf, Edit, DefWith, DefWithout, TypeOK
<1> QED BY <1>1, <1>2, <1>3 DEF TypeOK

\* An edit that fits leaves no stale use.
LEMMA EditKeepsUses ==
    ASSUME TypeOK, NEW i \in Instructions, NEW c, NEW old, NEW new, EditOf(i, c, old, new),
           KeepsFlags(i), NoDanglingUse, NEW r \in Regs, NEW k \in Slots
    PROVE  uses'[i][r][k] <= Reads(c.op, c.ops, k, r)
<1> DEFINE m == Reads(c.op, c.ops, k, r)
           gone == \E j \in old : ReadsOf(i, j, r) > 0
<1>1. uses'[i][r][k] = (IF gone THEN 0 ELSE uses[i][r][k]) + (IF k \in new THEN m ELSE 0)
  BY EditedUses
<1>2. /\ uses[i][r][k] \in Nat /\ ReadsOf(i, k, r) \in Nat /\ m \in Nat
      /\ uses[i][r][k] <= ReadsOf(i, k, r)
  BY ReadsType DEF TypeOK, NoDanglingUse, ReadsOf
<1>3. /\ k \notin old \cup new => ReadsOf(i, k, r) = m
      /\ k \in new \ old => ReadsOf(i, k, r) = 0
  BY DEF EditOf, Fits, ReadsOf
<1>4. k \in old => gone \/ ReadsOf(i, k, r) = 0
  BY <1>2
<1>5. uses'[i][r][k] <= m
  <2> HIDE DEF m, gone
  <2> QED BY <1>1, <1>2, <1>3, <1>4
<1> QED BY <1>5

\* The recorded definitions still write.
LEMMA EditKeepsDef ==
    ASSUME TypeOK, NEW i \in Instructions, NEW c, NEW old, NEW new, EditOf(i, c, old, new),
           KeepsFlags(i), DefIsWriter, NEW r \in Regs, def'[r] = i
    PROVE  \E k \in Slots : Writes(c.op, c.ops, k, r)
<1>1. CASE \E k \in new : Writes(c.op, c.ops, k, r)
  <2>1. new \subseteq Slots
    <3>1. new \subseteq 1 .. Len(c.ops) /\ Len(c.ops) <= Room[i] /\ Len(c.ops) \in Nat
      BY DEF EditOf, Fits, Codes, NoCode
    <3> QED BY <3>1, RoomAssumption DEF Slots
  <2> QED BY <1>1, <2>1
<1>2. CASE ~\E k \in new : Writes(c.op, c.ops, k, r)
  <2>1. def[r] = i /\ ~\E k \in old : WritesOf(i, k, r)
    BY <1>2, EditedDef, NoneAssumption
  <2>2. PICK k \in Slots : WritesOf(i, k, r)
    BY <2>1 DEF DefIsWriter
  <2>3. k \notin old
    BY <2>1, <2>2
  <2>4. k \notin new
    BY <2>2, <2>3 DEF EditOf, Fits, WritesOf
  <2>5. Writes(c.op, c.ops, k, r)
    BY <2>2, <2>3, <2>4 DEF EditOf, Fits, WritesOf
  <2> QED BY <2>5
<1> QED BY <1>1, <1>2

-----------------------------------------------------------------------------
(* The inductive invariant.                                                *)

LEMMA InitInv == Init => IInv
<1> SUFFICES ASSUME Init PROVE IInv
  OBVIOUS
<1>1. TypeOK
  BY DEF Init, TypeOK, Codes, NoUses
<1>2. Bounded
  <2>1. \A i \in Instructions : code[i].ops = <<>>
    BY DEF Init, NoCode
  <2>3. \A i \in Instructions : 0 <= Room[i]
    BY RoomAssumption
  <2>2. Len(<<>>) = 0
    OBVIOUS
  <2> QED BY <2>1, <2>2, <2>3 DEF Bounded
<1>3. NoDanglingUse
  <2>1. \A i \in Instructions, r \in Regs, k \in Slots : uses[i][r][k] = 0
    BY DEF Init, NoUses
  <2>2. \A i \in Instructions, r \in Regs, k \in Slots : ReadsOf(i, k, r) \in Nat
    BY ReadsType DEF ReadsOf
  <2> QED BY <2>1, <2>2 DEF NoDanglingUse
<1>4. DefIsWriter
  BY NoneAssumption DEF Init, DefIsWriter
<1> QED BY <1>1, <1>2, <1>3, <1>4 DEF IInv

\* A step creates an instruction without operands or edits one.
LEMMA NextCases ==
    ASSUME TypeOK, Bounded, Next
    PROVE  \E i \in Instructions :
              \/ \E op \in Opcodes[i] : CreateInstruction(i, op)
              \/ \E c, old, new : EditOf(i, c, old, new)
<1>1. PICK i \in Instructions :
          \/ \E op \in Opcodes[i] : CreateInstruction(i, op)
          \/ \E o \in Operands : AddOperand(i, o) \/ AddOperandFront(i, o)
          \/ ClearOperands(i)
          \/ \E pos \in Positions(i) : ClearOperand(i, pos) \/ \E o \in Operands : SwapOperand(i, o, pos)
          \/ Erase(i)
  BY DEF Next
<1>2. CASE \E op \in Opcodes[i] : CreateInstruction(i, op)
  BY <1>2
<1>3. CASE ~\E op \in Opcodes[i] : CreateInstruction(i, op)
  <2>1. \E c, old, new : EditOf(i, c, old, new)
    BY <1>1, <1>3, StepEdits
  <2> QED BY <2>1
<1> QED BY <1>2, <1>3

\* What every instruction reads and writes stays what it is.
AccessKept ==
    \A j \in Instructions : \A k, r : /\ ReadsOf(j, k, r)' = ReadsOf(j, k, r)
                                      /\ WritesOf(j, k, r)' <=> WritesOf(j, k, r)

\* Creation: the new instruction has no operands and nothing is recorded.
LEMMA CreateKeepsInv ==
    ASSUME IInv, NEW i \in Instructions, NEW op \in Opcodes[i], CreateInstruction(i, op)
    PROVE  /\ IInv'
           /\ AccessKept
<1>1. op \in DOMAIN Metadata
  BY OpcodesAssumption
<1>2. /\ code[i] = NoCode /\ uses' = uses /\ def' = def
      /\ code' = [code EXCEPT ![i] = [op |-> op, ops |-> <<>>, live |-> TRUE]]
  BY DEF CreateInstruction
<1>3. /\ code'[i] = [op |-> op, ops |-> <<>>, live |-> TRUE]
      /\ \A j \in Instructions : j # i => code'[j] = code[j]
  BY <1>2 DEF IInv, TypeOK
<1>4. TypeOK'
  BY <1>1, <1>2 DEF IInv, TypeOK, Codes
<1>5. Bounded'
  BY <1>1, <1>2, <1>3, RoomAssumption, MetadataShape DEF IInv, Bounded, NoCode
<1>6. AccessKept
  <2> SUFFICES ASSUME NEW j \in Instructions, NEW k, NEW r
               PROVE  /\ ReadsOf(j, k, r)' = ReadsOf(j, k, r)
                      /\ WritesOf(j, k, r)' <=> WritesOf(j, k, r)
    BY DEF AccessKept
  <2>1. CASE j = i
    <3>1. code[i].ops = <<>> /\ code'[i].ops = <<>>
      BY <1>2, <1>3 DEF NoCode
    <3>2. k \notin 1 .. Len(<<>>)
      OBVIOUS
    <3>3. /\ Reads(code[i].op, <<>>, k, r) = 0 /\ ~Writes(code[i].op, <<>>, k, r)
          /\ Reads(code'[i].op, <<>>, k, r) = 0 /\ ~Writes(code'[i].op, <<>>, k, r)
      BY <3>2, Beyond
    <3> QED BY <2>1, <3>1, <3>3 DEF ReadsOf, WritesOf
  <2>2. CASE j # i
    BY <1>3, <2>2 DEF ReadsOf, WritesOf
  <2> QED BY <2>1, <2>2
<1>7. \A j \in Instructions : KeepsFlags(j)' => KeepsFlags(j)
  BY <1>2, <1>3 DEF KeepsFlags, NoCode
<1>8. NoDanglingUse'
  BY <1>2, <1>6, <1>7 DEF IInv, NoDanglingUse, AccessKept
<1>9. DefIsWriter'
  BY <1>2, <1>6, <1>7 DEF IInv, DefIsWriter, AccessKept
<1> QED BY <1>4, <1>5, <1>6, <1>8, <1>9 DEF IInv

LEMMA EditKeepsInv ==
    ASSUME IInv, NEW i \in Instructions, NEW c, NEW old, NEW new, EditOf(i, c, old, new)
    PROVE  IInv'
<1>1. TypeOK'
  BY EditTypes DEF IInv
<1>2. /\ code'[i] = c /\ c.op = code[i].op
      /\ \A j \in Instructions : j # i => code'[j] = code[j] /\ uses'[j] = uses[j]
  BY EditedOthers DEF IInv, EditOf
<1>3. Bounded'
  <2>1. code[i].op = "none" => c.ops = <<>>
    <3>1. c \in Codes
      BY DEF EditOf
    <3> QED BY <1>2, <3>1, MetadataShape DEF Codes, NoCode
  <2>2. Len(c.ops) <= Room[i]
    BY DEF EditOf
  <2> QED BY <1>2, <2>1, <2>2 DEF IInv, Bounded
<1>4. NoDanglingUse'
  <2> SUFFICES ASSUME NEW j \in Instructions, KeepsFlags(j)', NEW r \in Regs, NEW k \in Slots
               PROVE  uses'[j][r][k] <= ReadsOf(j, k, r)'
    BY DEF NoDanglingUse
  <2>1. CASE j = i
    <3>1. KeepsFlags(i)
      BY <1>2, <2>1 DEF KeepsFlags
    <3>2. uses'[i][r][k] <= Reads(c.op, c.ops, k, r)
      BY <3>1, EditKeepsUses DEF IInv
    <3> QED BY <1>2, <2>1, <3>2 DEF ReadsOf
  <2>2. CASE j # i
    BY <1>2, <2>2 DEF IInv, NoDanglingUse, KeepsFlags, ReadsOf
  <2> QED BY <2>1, <2>2
<1>5. DefIsWriter'
  <2> SUFFICES ASSUME NEW r \in Regs, NEW j \in Instructions, def'[r] = j, KeepsFlags(j)'
               PROVE  \E k \in Slots : WritesOf(j, k, r)'
    BY DEF DefIsWriter
  <2>1. CASE j = i
    <3>1. KeepsFlags(i)
      BY <1>2, <2>1 DEF KeepsFlags
    <3>2. \E k \in Slots : Writes(c.op, c.ops, k, r)
      BY <2>1, <3>1, EditKeepsDef DEF IInv
    <3> QED BY <1>2, <2>1, <3>2 DEF WritesOf
  <2>2. CASE j # i
    <3>1. def[r] = j
      BY <2>2, EditedDef, NoneAssumption DEF IInv
    <3>2. KeepsFlags(j)
      BY <1>2, <2>2 DEF KeepsFlags
    <3>3. PICK k \in Slots : WritesOf(j, k, r)
      BY <3>1, <3>2 DEF IInv, DefIsWriter
    <3>4. WritesOf(j, k, r)'
      BY <1>2, <2>2, <3>3 DEF WritesOf
    <3> QED BY <3>4
  <2> QED BY <2>1, <2>2
<1> QED BY <1>1, <1>3, <1>4, <1>5 DEF IInv

LEMMA StepInv == IInv /\ [Next]_vars => IInv'
<1> SUFFICES ASSUME IInv, [Next]_vars PROVE IInv'
  OBVIOUS
<1>1. CASE Next
  <2>1. PICK i \in Instructions : \/ \E op \in Opcodes[i] : CreateInstruction(i, op)
                                  \/ \E c, old, new : EditOf(i, c, old, new)
    BY <1>1, NextCases DEF IInv
  <2>2. CASE \E op \in Opcodes[i] : CreateInstruction(i, op)
    BY <2>2, CreateKeepsInv
  <2>3. CASE \E c, old, new : EditOf(i, c, old, new)
    BY <2>3, EditKeepsInv
  <2> QED BY <2>1, <2>2, <2>3
<1>2. CASE UNCHANGED vars
  BY <1>2 DEF vars, IInv, TypeOK, Bounded, NoDanglingUse, DefIsWriter, KeepsFlags, ReadsOf, WritesOf
<1> QED BY <1>1, <1>2

\* One instruction is touched by a step, and how.
LEMMA StepEffect ==
    ASSUME IInv, [Next]_vars
    PROVE  \/ /\ uses' = uses /\ def' = def
              /\ AccessKept
           \/ \E i \in Instructions : \E c, old, new : EditOf(i, c, old, new)
<1>1. CASE Next
  <2>1. PICK i \in Instructions : \/ \E op \in Opcodes[i] : CreateInstruction(i, op)
                                  \/ \E c, old, new : EditOf(i, c, old, new)
    BY <1>1, NextCases DEF IInv
  <2>2. CASE \E op \in Opcodes[i] : CreateInstruction(i, op)
    <3>1. uses' = uses /\ def' = def
      BY <2>2 DEF CreateInstruction
    <3>2. AccessKept
      BY <2>2, CreateKeepsInv
    <3> QED BY <3>1, <3>2
  <2> QED BY <2>1, <2>2
<1>2. CASE UNCHANGED vars
  <2>1. code' = code /\ uses' = uses /\ def' = def
    BY <1>2 DEF vars
  <2>2. AccessKept
    BY <2>1 DEF AccessKept, ReadsOf, WritesOf
  <2> QED BY <2>1, <2>2
<1> QED BY <1>1, <1>2

-----------------------------------------------------------------------------
(* Exactness.                                                              *)

\* An edit keeps an exact record exact if the instruction reads no register
\* twice.
LEMMA EditKeepsExact ==
    ASSUME TypeOK, NEW i \in Instructions, NEW c, NEW old, NEW new, EditOf(i, c, old, new),
           KeepsFlags(i), Exact(i), ReadsOnce(i), old \subseteq Slots,
           NEW r \in Regs, NEW k \in Slots
    PROVE  uses'[i][r][k] = Reads(c.op, c.ops, k, r)
<1> DEFINE m == Reads(c.op, c.ops, k, r)
           gone == \E j \in old : ReadsOf(i, j, r) > 0
<1>1. uses'[i][r][k] = (IF gone THEN 0 ELSE uses[i][r][k]) + (IF k \in new THEN m ELSE 0)
  BY EditedUses
<1>2. /\ uses[i][r][k] \in Nat /\ ReadsOf(i, k, r) \in Nat /\ m \in Nat
      /\ uses[i][r][k] = ReadsOf(i, k, r)
  BY ReadsType DEF TypeOK, Exact, ReadsOf
<1>3. /\ k \notin old \cup new => ReadsOf(i, k, r) = m
      /\ k \in new \ old => ReadsOf(i, k, r) = 0
      /\ k \in old \ new => m = 0
  BY DEF EditOf, Fits, ReadsOf
<1>4. k \in old => gone \/ ReadsOf(i, k, r) = 0
  BY <1>2
<1>5. gone /\ k \notin old => ReadsOf(i, k, r) = 0
  <2> SUFFICES ASSUME NEW j \in old, ReadsOf(i, j, r) > 0, k \notin old, ReadsOf(i, k, r) # 0
               PROVE  FALSE
    OBVIOUS
  <2>1. j \in Slots /\ j # k /\ ReadsOf(i, k, r) > 0
    BY <1>2
  <2> QED BY <2>1 DEF ReadsOnce
<1>6. uses'[i][r][k] = m
  <2> HIDE DEF m, gone
  <2> QED BY <1>1, <1>2, <1>3, <1>4, <1>5
<1> QED BY <1>6

\* Unregistering and registering everything makes the record exact.
LEMMA RebuildMakesExact ==
    ASSUME IInv, NEW i \in Instructions, NEW c, NEW old, NEW new, EditOf(i, c, old, new),
           KeepsFlags(i), old = 1 .. Len(code[i].ops), new = 1 .. Len(c.ops),
           NEW r \in Regs, NEW k \in Slots
    PROVE  uses'[i][r][k] = Reads(c.op, c.ops, k, r)
<1> DEFINE m == Reads(c.op, c.ops, k, r)
           gone == \E j \in old : ReadsOf(i, j, r) > 0
<1>1. uses'[i][r][k] = (IF gone THEN 0 ELSE uses[i][r][k]) + (IF k \in new THEN m ELSE 0)
  BY EditedUses DEF IInv
<1>2. /\ uses[i][r][k] \in Nat /\ ReadsOf(i, k, r) \in Nat /\ m \in Nat
      /\ uses[i][r][k] <= ReadsOf(i, k, r)
  BY ReadsType DEF IInv, TypeOK, NoDanglingUse, ReadsOf
<1>3. k \notin old => ReadsOf(i, k, r) = 0
  BY Beyond DEF ReadsOf
<1>4. k \in old => gone \/ ReadsOf(i, k, r) = 0
  BY <1>2
<1>5. k \notin new => m = 0
  BY Beyond
<1>6. uses'[i][r][k] = m
  <2> HIDE DEF m, gone
  <2> QED BY <1>1, <1>2, <1>3, <1>4, <1>5
<1> QED BY <1>6

\* The slots of an instruction are among the slots.
LEMMA PositionsAreSlots ==
    ASSUME IInv, NEW i \in Instructions
    PROVE  1 .. Len(code[i].ops) \subseteq Slots
<1>1. Len(code[i].ops) <= Room[i] /\ Len(code[i].ops) \in Nat
  BY DEF IInv, TypeOK, Bounded, Codes, NoCode
<1> QED BY <1>1, RoomAssumption DEF Slots

-----------------------------------------------------------------------------
(* Theorems.                                                               *)

\* Types, bounds, no stale use, no stale definition: together they are
\* preserved by every edit of the builder.
THEOREM Invariance == Spec => []IInv
BY InitInv, StepInv, PTL DEF Spec

\* Types.
THEOREM TypeCorrect == Spec => []TypeOK
<1>1. IInv => TypeOK
  BY DEF IInv
<1> QED BY <1>1, Invariance, PTL

\* removeUse and recordUse leave no use behind that the instruction does not
\* make any more.
THEOREM NoStaleUses == Spec => []NoDanglingUse
<1>1. IInv => NoDanglingUse
  BY DEF IInv
<1> QED BY <1>1, Invariance, PTL

\* clearDef and recordDef leave no definition behind that its instruction does
\* not make any more.
THEOREM NoStaleDefinitions == Spec => []DefIsWriter
<1>1. IInv => DefIsWriter
  BY DEF IInv
<1> QED BY <1>1, Invariance, PTL

\* The record of an instruction stays exact as long as no register is read
\* twice by it.
THEOREM ExactnessKept == Spec => UsesStayExact
<1>1. ASSUME IInv, [Next]_vars, NEW j \in Instructions, KeepsFlags(j), Exact(j), ReadsOnce(j)
      PROVE  Exact(j)'
  <2> SUFFICES ASSUME NEW r \in Regs, NEW k \in Slots
               PROVE  uses'[j][r][k] = ReadsOf(j, k, r)'
    BY DEF Exact
  <2>1. CASE /\ uses' = uses
             /\ AccessKept
    BY <1>1, <2>1 DEF Exact, AccessKept
  <2>2. CASE \E i \in Instructions : \E c, old, new : EditOf(i, c, old, new)
    <3> PICK i \in Instructions : \E c, old, new : EditOf(i, c, old, new)
      BY <2>2
    <3>1. PICK c, old, new : EditOf(i, c, old, new)
      OBVIOUS
    <3>2. /\ code'[i] = c
          /\ \A n \in Instructions : n # i => code'[n] = code[n] /\ uses'[n] = uses[n]
      BY <1>1, <3>1, EditedOthers DEF IInv
    <3>3. CASE j = i
      <4>1. old \subseteq Slots
        BY <1>1, <3>1, <3>3, PositionsAreSlots DEF EditOf, Fits
      <4>2. uses'[i][r][k] = Reads(c.op, c.ops, k, r)
        BY <1>1, <3>1, <3>3, <4>1, EditKeepsExact DEF IInv
      <4> QED BY <3>2, <3>3, <4>2 DEF ReadsOf
    <3>4. CASE j # i
      BY <1>1, <3>2, <3>4 DEF Exact, ReadsOf
    <3> QED BY <3>3, <3>4
  <2>3. \/ /\ uses' = uses
           /\ AccessKept
        \/ \E i \in Instructions : \E c, old, new : EditOf(i, c, old, new)
    BY <1>1, StepEffect
  <2> QED BY <2>1, <2>2, <2>3
<1>2. IInv /\ [Next]_vars =>
        [\A i \in Instructions : KeepsFlags(i) /\ Exact(i) /\ ReadsOnce(i) => Exact(i)']_vars
  BY <1>1
<1> QED BY <1>2, Invariance, PTL DEF Spec, UsesStayExact

\* Emptying an instruction, and giving it a new first operand, unregister all
\* its operands: what earlier edits have lost is found again.
THEOREM RebuildRestores == Spec => RebuildIsExact
<1>1. ASSUME IInv, NEW i \in Instructions, KeepsFlags(i), NEW ops \in Seq(Operands),
             IsLive(i), Len(ops) <= Room[i],
             Edit(i, Positions(i), [op |-> code[i].op, ops |-> ops, live |-> TRUE], 1 .. Len(ops)),
             1 .. Len(code[i].ops) \subseteq 1 .. Len(ops) \/ ops = <<>>
      PROVE  Exact(i)'
  <2> DEFINE c == [op |-> code[i].op, ops |-> ops, live |-> TRUE]
  <2>1. LeavesOthers(code[i].ops, ops, Positions(i), 1 .. Len(ops))
    BY DEF LeavesOthers, Positions
  <2>2. EditOf(i, c, Positions(i), 1 .. Len(ops))
    BY <1>1, <2>1, EditOfWhenKept DEF IInv
  <2>3. c.op = code[i].op /\ c.ops = ops
    OBVIOUS
  <2> HIDE DEF c
  <2>4. code'[i] = c
    BY <1>1, <2>2, EditedOthers DEF IInv
  <2> SUFFICES ASSUME NEW r \in Regs, NEW k \in Slots
               PROVE  uses'[i][r][k] = ReadsOf(i, k, r)'
    BY DEF Exact
  <2>5. uses'[i][r][k] = Reads(c.op, c.ops, k, r)
    BY <1>1, <2>2, <2>3, RebuildMakesExact DEF Positions
  <2> QED BY <2>4, <2>5 DEF ReadsOf
<1>2. ASSUME IInv, NEW i \in Instructions, KeepsFlags(i), ClearOperands(i)
      PROVE  Exact(i)'
  <2>1. IsLive(i) /\ Edit(i, Positions(i), [op |-> code[i].op, ops |-> <<>>, live |-> TRUE], {})
    BY <1>2 DEF ClearOperands, WithOperands
  <2>2. <<>> \in Seq(Operands) /\ Len(<<>>) <= Room[i] /\ {} = 1 .. Len(<<>>)
    BY RoomAssumption
  <2> QED BY <1>1, <1>2, <2>1, <2>2
<1>3. ASSUME IInv, NEW i \in Instructions, KeepsFlags(i), NEW o \in Operands, AddOperandFront(i, o)
      PROVE  Exact(i)'
  <2> DEFINE ops == <<o>> \o code[i].ops
  <2>1. /\ IsLive(i) /\ Len(code[i].ops) < Room[i]
        /\ Edit(i, Positions(i), [op |-> code[i].op, ops |-> ops, live |-> TRUE], 1 .. Len(code[i].ops) + 1)
    BY <1>3 DEF AddOperandFront, WithOperands, MayGrow
  <2>2. code[i].ops \in Seq(Operands) /\ Len(code[i].ops) \in Nat
    BY <1>3, <2>1, LiveCode DEF IInv
  <2>3. ops \in Seq(Operands) /\ Len(ops) = Len(code[i].ops) + 1
    BY <2>2
  <2> HIDE DEF ops
  <2>4. Len(ops) <= Room[i]
    BY <2>1, <2>2, <2>3, RoomAssumption
  <2>5. 1 .. Len(code[i].ops) \subseteq 1 .. Len(ops)
    BY <2>2, <2>3
  <2> QED BY <1>1, <1>3, <2>1, <2>3, <2>4, <2>5
<1>4. IInv /\ [Next]_vars =>
        [\A i \in Instructions :
            KeepsFlags(i) /\ (ClearOperands(i) \/ \E o \in Operands : AddOperandFront(i, o))
            => Exact(i)']_vars
  BY <1>2, <1>3
<1> QED BY <1>4, Invariance, PTL DEF Spec, RebuildIsExact

\* As long as a register is written at one place, its recorded definition is
\* that place's instruction.
THEOREM DefinitionsKnown == Spec => DefStaysKnown
<1>1. ASSUME IInv, [Next]_vars, NEW r \in Regs, \A i \in Instructions : KeepsFlags(i),
             WrittenOnce(r), WrittenOnce(r)', DefKnown(r),
             NEW j \in Instructions, NEW k \in Slots, WritesOf(j, k, r)'
      PROVE  def'[r] = j
  <2>1. ASSUME NEW i \in Instructions, NEW n \in Slots, WritesOf(i, n, r)
        PROVE  def[r] = i
    <3>1. <<i, n>> \in Writers(r)
      BY <2>1 DEF Writers
    <3>2. def[r] = <<i, n>>[1]
      BY <1>1, <3>1 DEF DefKnown
    <3> QED BY <3>2
  <2>2. ASSUME NEW i1 \in Instructions, NEW i2 \in Instructions, NEW n1 \in Slots, NEW n2 \in Slots,
               WritesOf(i1, n1, r), WritesOf(i2, n2, r)
        PROVE  i1 = i2 /\ n1 = n2
    <3>1. <<i1, n1>> \in Writers(r) /\ <<i2, n2>> \in Writers(r)
      BY <2>2 DEF Writers
    <3>2. <<i1, n1>> = <<i2, n2>>
      BY <1>1, <3>1 DEF WrittenOnce
    <3> QED BY <3>2
  <2>3. ASSUME NEW i \in Instructions, NEW n \in Slots, WritesOf(i, n, r)'
        PROVE  i = j /\ n = k
    <3>1. <<i, n>> \in Writers(r)' /\ <<j, k>> \in Writers(r)'
      BY <1>1, <2>3 DEF Writers
    <3>2. <<i, n>> = <<j, k>>
      BY <1>1, <3>1 DEF WrittenOnce
    <3> QED BY <3>2
  <2>4. CASE /\ def' = def
             /\ AccessKept
    BY <1>1, <2>1, <2>4 DEF AccessKept
  <2>5. CASE \E i \in Instructions : \E c, old, new : EditOf(i, c, old, new)
    <3> PICK i \in Instructions : \E c, old, new : EditOf(i, c, old, new)
      BY <2>5
    <3>1. PICK c, old, new : EditOf(i, c, old, new)
      OBVIOUS
    <3>2. /\ code'[i] = c
          /\ \A n \in Instructions : n # i => code'[n] = code[n]
      BY <1>1, <3>1, EditedOthers DEF IInv
    <3>3. Fits(code[i], c, old, new)
      BY <1>1, <3>1 DEF EditOf
    <3>4. old \subseteq Slots /\ new \subseteq Slots
      <4>1. old \subseteq Slots
        BY <1>1, <3>3, PositionsAreSlots DEF Fits
      <4>2. Len(c.ops) \in Nat /\ Len(c.ops) <= Room[i]
        BY <3>1 DEF EditOf, Codes, NoCode
      <4>3. new \subseteq Slots
        BY <3>3, <4>2, RoomAssumption DEF Fits, Slots
      <4> QED BY <4>1, <4>3
    <3>5. def'[r] = IF \E n \in new : Writes(c.op, c.ops, n, r) THEN i
                    ELSE IF def[r] = i /\ \E n \in old : WritesOf(i, n, r) THEN None
                    ELSE def[r]
      BY <1>1, <3>1, EditedDef DEF IInv
    <3>6. CASE j = i
      <4>1. Writes(c.op, c.ops, k, r)
        BY <1>1, <3>2, <3>6 DEF WritesOf
      <4>2. CASE k \in new
        BY <3>5, <3>6, <4>1, <4>2
      <4>3. CASE k \notin new
        <5>1. k \notin old /\ WritesOf(i, k, r)
          BY <3>3, <4>1, <4>3 DEF Fits, WritesOf
        <5>2. def[r] = i
          BY <2>1, <5>1
        <5>3. ~\E n \in old : WritesOf(i, n, r)
          BY <2>2, <3>4, <5>1
        <5> QED BY <3>5, <3>6, <5>2, <5>3
      <4> QED BY <4>2, <4>3
    <3>7. CASE j # i
      <4>1. WritesOf(j, k, r)
        BY <1>1, <3>2, <3>7 DEF WritesOf
      <4>2. def[r] = j
        BY <2>1, <4>1
      <4>3. ~\E n \in new : Writes(c.op, c.ops, n, r)
        <5> SUFFICES ASSUME NEW n \in new, Writes(c.op, c.ops, n, r) PROVE FALSE
          OBVIOUS
        <5>1. WritesOf(i, n, r)'
          BY <3>2 DEF WritesOf
        <5> QED BY <2>3, <3>4, <3>7, <5>1
      <4> QED BY <3>5, <3>7, <4>2, <4>3
    <3> QED BY <3>6, <3>7
  <2>6. \/ /\ def' = def
           /\ AccessKept
        \/ \E i \in Instructions : \E c, old, new : EditOf(i, c, old, new)
    BY <1>1, StepEffect
  <2> QED BY <2>4, <2>5, <2>6
<1>2. ASSUME IInv, [Next]_vars, NEW r \in Regs, \A i \in Instructions : KeepsFlags(i),
             WrittenOnce(r), WrittenOnce(r)', DefKnown(r)
      PROVE  DefKnown(r)'
  <2> SUFFICES ASSUME NEW p \in Writers(r)' PROVE def'[r] = p[1]
    BY DEF DefKnown
  <2>1. p[1] \in Instructions /\ p[2] \in Slots /\ WritesOf(p[1], p[2], r)'
    BY DEF Writers
  <2> QED BY <1>1, <1>2, <2>1
<1>3. IInv /\ [Next]_vars =>
        [\A r \in Regs :
            /\ \A i \in Instructions : KeepsFlags(i)
            /\ WrittenOnce(r) /\ WrittenOnce(r)' /\ DefKnown(r)
            => DefKnown(r)']_vars
  BY <1>2
<1> QED BY <1>3, Invariance, PTL DEF Spec, DefStaysKnown
-----------------------------------------------------------------------------
(* The peephole pass, the first client of the builder: it takes no edge     *)
(* away and ends with nothing left to simplify.                            *)

\* Codes have an opcode; instructions stand in one place each.
Coded ==
    /\ DOMAIN code = Instructions
    /\ \A i \in Instructions : "op" \in DOMAIN code[i]
Placed ==
    /\ blocks \in Seq(Seq(Instructions))
    /\ \A b, c \in DOMAIN blocks : \A k \in DOMAIN blocks[b], j \in DOMAIN blocks[c] :
          blocks[b][k] = blocks[c][j] => b = c /\ k = j
    /\ \A b \in DOMAIN blocks : \A k \in DOMAIN blocks[b] :
          code[blocks[b][k]].op = "JMP" => DOMAIN code[blocks[b][k]].ops = {1}

\* Where the pass is: a block it scans is pruned, and what it rewrites is arithmetic.
CursorInv ==
    /\ block \in DOMAIN blocks /\ at \in Nat \ {0}
    /\ phase \in {"prune", "scan", "clear", "opcode", "done"}
    /\ phase # "prune" => DeadPlaces(block) = {}
    /\ phase \in {"clear", "opcode"} => at \in DOMAIN blocks[block] /\ code[Current].op \in DOMAIN Identity
    /\ phase = "done" => block = Len(blocks) /\ at > Len(blocks[block]) /\ (~changed \/ iteration > 1)

\* The edges are those of the function as it was given.
EdgesInv == DOMAIN blocks = DOMAIN initial.blocks /\ SuccessorsKept

\* What the scan of this round has been at.
Scanned(b, k) == b < block \/ (b = block /\ phase # "prune" /\ k < at)
Tidy(b, k) == Sources(blocks[b][k]) = {} /\ ~RedundantJump(b, k)

\* The first round leaves only moves to be erased, the second none of them;
\* a round that has changed nothing so far has left nothing behind.
RoundInv ==
    /\ iteration \in 1 .. 3 /\ changed \in BOOLEAN
    /\ iteration = 3 => ~changed
    /\ iteration > 1 => phase \notin {"clear", "opcode"}
    /\ \A b \in DOMAIN blocks :
          /\ b < block \/ iteration > 1 => DeadPlaces(b) = {}
          /\ \A k \in DOMAIN blocks[b] :
                /\ Scanned(b, k) \/ iteration > 1 => Tidy(b, k)
                /\ iteration = 3 \/ (Scanned(b, k) /\ (iteration > 1 \/ ~changed)) => ~RedundantMove(b, k)

PeepholeInv == Coded /\ Placed /\ CursorInv /\ EdgesInv /\ RoundInv

\* Some numbers have a least one.
LEMMA LeastOf ==
    ASSUME NEW T \in SUBSET Nat, T # {}
    PROVE  Min(T) \in T /\ \A m \in T : Min(T) <= m
<1> DEFINE R == {p \in Nat \X Nat : p[1] < p[2]}
<1>1. IsWellFoundedOn(R, Nat)
  BY NatLessThanWellFounded DEF OpToRel
<1>2. PICK n \in T : \A m \in T : ~ (<<m, n>> \in R)
  <2> HIDE DEF R
  <2> QED BY <1>1, WFMin
<1>3. ASSUME NEW m \in T PROVE n <= m
  <2>1. m \in Nat /\ n \in Nat /\ (m < n => <<m, n>> \in R)
    OBVIOUS
  <2> QED BY <1>2, <2>1
<1> QED BY <1>3 DEF Min

\* What stands at place j once the element at place k has been removed.
Shift(k, j) == IF j < k THEN j ELSE j + 1

LEMMA RemovedIs ==
    ASSUME NEW S, NEW s \in Seq(S), NEW k \in DOMAIN s
    PROVE  /\ RemoveAt(s, k) \in Seq(S)
           /\ DOMAIN RemoveAt(s, k) = 1 .. Len(s) - 1
           /\ \A j \in 1 .. Len(s) - 1 : RemoveAt(s, k)[j] = s[Shift(k, j)] /\ Shift(k, j) \in DOMAIN s
<1>1. PICK n \in Nat : n = Len(s) /\ DOMAIN s = 1 .. n
  OBVIOUS
<1>2. PICK front : front = SubSeq(s, 1, k - 1)
  OBVIOUS
<1>3. PICK back : back = SubSeq(s, k + 1, n)
  OBVIOUS
<1>4. front \in Seq(S) /\ Len(front) = k - 1 /\ \A j \in 1 .. k - 1 : front[j] = s[j]
  BY <1>1, <1>2
<1>5. back \in Seq(S) /\ Len(back) = n - k /\ \A j \in 1 .. n - k : back[j] = s[k + j]
  BY <1>1, <1>3
<1>6. /\ front \o back \in Seq(S) /\ Len(front \o back) = n - 1
      /\ \A j \in 1 .. n - 1 : (front \o back)[j] = IF j <= k - 1 THEN front[j] ELSE back[j - (k - 1)]
  <2>1. front \o back \in Seq(S) /\ Len(front \o back) = Len(front) + Len(back)
    BY <1>4, <1>5, ConcatProperties
  <2>2. Len(front) + Len(back) = n - 1
    <3>1. k \in 1 .. n /\ Len(front) = k - 1 /\ Len(back) = n - k
      BY <1>1, <1>4, <1>5
    <3> QED BY <3>1
  <2>3. \A j \in 1 .. Len(front) + Len(back) :
           (front \o back)[j] = IF j <= Len(front) THEN front[j] ELSE back[j - Len(front)]
    <3>1. front \in Seq(S) /\ back \in Seq(S)
      BY <1>4, <1>5
    <3> QED BY <3>1, ConcatProperties
  <2> QED BY <1>4, <2>1, <2>2, <2>3
<1>7. RemoveAt(s, k) = front \o back
  BY <1>1, <1>2, <1>3 DEF RemoveAt
<1>8. ASSUME NEW j \in 1 .. n - 1 PROVE (front \o back)[j] = s[Shift(k, j)] /\ Shift(k, j) \in 1 .. n
  <2>1. CASE j < k
    <3>1. j \in 1 .. k - 1 /\ j <= k - 1
      BY <1>1, <2>1
    <3> QED BY <1>1, <1>4, <1>6, <2>1, <3>1 DEF Shift
  <2>2. CASE ~(j < k)
    <3>1. j - (k - 1) \in 1 .. n - k /\ k + (j - (k - 1)) = j + 1 /\ ~(j <= k - 1) /\ j + 1 \in 1 .. n
      BY <1>1, <2>2
    <3>2. back[j - (k - 1)] = s[j + 1]
      BY <1>5, <3>1
    <3> QED BY <1>6, <2>2, <3>1, <3>2 DEF Shift
  <2> QED BY <2>1, <2>2
<1>9. DOMAIN (front \o back) = 1 .. n - 1
  BY <1>6
<1> QED BY <1>1, <1>6, <1>7, <1>8, <1>9

\* An edit gives one instruction its new code.
LEMMA EditWrites ==
    ASSUME Coded, NEW i \in Instructions, NEW old, NEW new, NEW o, NEW x, NEW l,
           Edit(i, old, [op |-> o, ops |-> x, live |-> l], new)
    PROVE  /\ Coded' /\ code'[i].op = o /\ code'[i].ops = x
           /\ \A j \in Instructions : j # i => code'[j] = code[j]
<1>1. code' = [code EXCEPT ![i] = [op |-> o, ops |-> x, live |-> l]]
  BY DEF Edit
<1>2. DOMAIN code = Instructions /\ \A j \in Instructions : "op" \in DOMAIN code[j]
  BY DEF Coded
<1>3. code'[i] = [op |-> o, ops |-> x, live |-> l] /\ \A j \in Instructions : j # i => code'[j] = code[j]
  BY <1>1, <1>2
<1> QED BY <1>1, <1>2, <1>3 DEF Coded

\* Erasing takes one instruction out of its block and leaves the others as they are.
LEMMA EraseTakes ==
    ASSUME Coded, Placed, block \in DOMAIN blocks, NEW k \in DOMAIN blocks[block], EraseAt(k)
    PROVE  /\ Coded' /\ Placed' /\ DOMAIN blocks' = DOMAIN blocks
           /\ \A b \in DOMAIN blocks : b # block => blocks'[b] = blocks[b]
           /\ DOMAIN blocks'[block] = 1 .. Len(blocks[block]) - 1
           /\ \A j \in DOMAIN blocks'[block] :
                 Shift(k, j) \in DOMAIN blocks[block] /\ blocks'[block][j] = blocks[block][Shift(k, j)]
           /\ \A b \in DOMAIN blocks : \A j \in DOMAIN blocks'[b] : code'[blocks'[b][j]] = code[blocks'[b][j]]
<1>1. PICK c : c = block
  OBVIOUS
<1>2. PICK i : i = blocks[c][k]
  OBVIOUS
<1>3. blocks \in Seq(Seq(Instructions)) /\ c \in DOMAIN blocks /\ blocks[c] \in Seq(Instructions) /\ i \in Instructions
  BY <1>1, <1>2 DEF Placed
<1>4. Coded' /\ \A j \in Instructions : j # i => code'[j] = code[j]
  <2>1. Erase(i)
    BY <1>1, <1>2 DEF EraseAt
  <2> QED BY <1>3, <2>1, EditWrites DEF Erase
<1>5. blocks' = [blocks EXCEPT ![c] = RemoveAt(blocks[c], k)]
  BY <1>1 DEF EraseAt
<1>6. /\ RemoveAt(blocks[c], k) \in Seq(Instructions)
      /\ DOMAIN RemoveAt(blocks[c], k) = 1 .. Len(blocks[c]) - 1
      /\ \A j \in 1 .. Len(blocks[c]) - 1 :
            RemoveAt(blocks[c], k)[j] = blocks[c][Shift(k, j)] /\ Shift(k, j) \in DOMAIN blocks[c]
  BY <1>1, <1>3, RemovedIs
<1>7. /\ blocks' \in Seq(Seq(Instructions)) /\ DOMAIN blocks' = DOMAIN blocks
      /\ blocks'[c] = RemoveAt(blocks[c], k) /\ \A b \in DOMAIN blocks : b # c => blocks'[b] = blocks[b]
  BY <1>3, <1>5, <1>6
<1> DEFINE From(b, j) == IF b = c THEN Shift(k, j) ELSE j
<1>8. ASSUME NEW b \in DOMAIN blocks, NEW j \in DOMAIN blocks'[b]
      PROVE  /\ From(b, j) \in DOMAIN blocks[b] /\ blocks'[b][j] = blocks[b][From(b, j)]
             /\ b = c => From(b, j) # k
  <2>1. CASE b = c
    <3>1. j \in 1 .. Len(blocks[c]) - 1
      BY <1>6, <1>7, <1>8, <2>1
    <3>2. Shift(k, j) # k
      BY <1>1, <1>3, <3>1 DEF Shift
    <3> QED BY <1>6, <1>7, <2>1, <3>1, <3>2
  <2>2. CASE b # c
    BY <1>7, <1>8, <2>2
  <2> QED BY <2>1, <2>2
<1> HIDE DEF From
<1>9. ASSUME NEW b \in DOMAIN blocks, NEW j \in DOMAIN blocks'[b] PROVE code'[blocks'[b][j]] = code[blocks'[b][j]]
  <2>1. From(b, j) \in DOMAIN blocks[b] /\ blocks'[b][j] = blocks[b][From(b, j)] /\ (b = c => From(b, j) # k)
    BY <1>8, <1>9
  <2>2. blocks[b][From(b, j)] # i
    BY <1>1, <1>2, <2>1 DEF Placed
  <2>3. blocks[b][From(b, j)] \in Instructions
    BY <1>3, <2>1
  <2> QED BY <1>4, <2>1, <2>2, <2>3
<1>10. Placed'
  <2>1. ASSUME NEW a \in DOMAIN blocks, NEW b \in DOMAIN blocks, NEW m \in DOMAIN blocks'[a], NEW j \in DOMAIN blocks'[b],
               blocks'[a][m] = blocks'[b][j]
        PROVE  a = b /\ m = j
    <3>1. From(a, m) \in DOMAIN blocks[a] /\ blocks'[a][m] = blocks[a][From(a, m)]
      BY <1>8, <2>1
    <3>2. From(b, j) \in DOMAIN blocks[b] /\ blocks'[b][j] = blocks[b][From(b, j)]
      BY <1>8, <2>1
    <3>3. a = b /\ From(a, m) = From(b, j)
      <4>1. blocks[a][From(a, m)] = blocks[b][From(b, j)]
        BY <2>1, <3>1, <3>2
      <4> QED BY <3>1, <3>2, <4>1 DEF Placed
    <3>4. CASE a = c
      <4>1. m \in 1 .. Len(blocks[c]) - 1 /\ j \in 1 .. Len(blocks[c]) - 1 /\ Len(blocks[c]) \in Nat /\ k \in Nat
        BY <1>1, <1>3, <1>6, <1>7, <2>1, <3>3, <3>4
      <4>2. Shift(k, m) = Shift(k, j)
        BY <3>3, <3>4 DEF From
      <4> QED BY <3>3, <4>1, <4>2 DEF Shift
    <3>5. CASE a # c
      BY <3>3, <3>5 DEF From
    <3> QED BY <3>4, <3>5
  <2>2. ASSUME NEW b \in DOMAIN blocks, NEW j \in DOMAIN blocks'[b], code'[blocks'[b][j]].op = "JMP"
        PROVE  DOMAIN code'[blocks'[b][j]].ops = {1}
    <3>1. From(b, j) \in DOMAIN blocks[b] /\ blocks'[b][j] = blocks[b][From(b, j)]
      BY <1>8, <2>2
    <3>2. code'[blocks'[b][j]] = code[blocks[b][From(b, j)]]
      BY <1>9, <2>2, <3>1
    <3> QED BY <2>2, <3>1, <3>2 DEF Placed
  <2> QED BY <1>7, <2>1, <2>2 DEF Placed
<1> QED BY <1>1, <1>4, <1>6, <1>7, <1>9, <1>10

-----------------------------------------------------------------------------
(* The edges.                                                              *)

\* The terminators of block b, the first of which says where control goes.
EndsOf(f, b) == {k \in DOMAIN f.blocks[b] : f.code[f.blocks[b][k]].op \in Terminators}
FirstEnd(f, b, k) == k \in EndsOf(f, b) /\ \A j \in EndsOf(f, b) : k <= j
Targets(f, i) == {t \in DOMAIN f.blocks : \E k \in DOMAIN f.code[i].ops : f.code[i].ops[k] = Block(t)}

\* What Successors says, by the first terminator if there is one.
LEMMA SuccessorsAre ==
    ASSUME NEW f, NEW b, EndsOf(f, b) \subseteq Nat
    PROVE  /\ EndsOf(f, b) = {} => Successors(f, b) = {b + 1} \cap DOMAIN f.blocks
           /\ EndsOf(f, b) # {} => FirstEnd(f, b, Min(EndsOf(f, b)))
           /\ \A k : FirstEnd(f, b, k) => Successors(f, b) = Targets(f, f.blocks[b][k])
<1>1. EndsOf(f, b) # {} => FirstEnd(f, b, Min(EndsOf(f, b)))
  BY LeastOf DEF FirstEnd
<1>2. Successors(f, b) = IF EndsOf(f, b) = {} THEN {b + 1} \cap DOMAIN f.blocks
                         ELSE Targets(f, f.blocks[b][Min(EndsOf(f, b))])
  BY DEF Successors, EndsOf, Targets
<1>3. ASSUME NEW k, FirstEnd(f, b, k) PROVE EndsOf(f, b) # {} /\ k = Min(EndsOf(f, b))
  <2>1. PICK m : m = Min(EndsOf(f, b))
    OBVIOUS
  <2>2. m \in Nat /\ k \in Nat /\ m <= k /\ k <= m
    BY <1>1, <1>3, <2>1 DEF FirstEnd
  <2> QED BY <1>3, <2>1, <2>2 DEF FirstEnd
<1> QED BY <1>1, <1>2, <1>3

\* Control goes the same ways when the first terminators are the same.
LEMMA EdgesStay ==
    ASSUME NEW f, NEW g, NEW b, DOMAIN f.blocks = DOMAIN g.blocks,
           EndsOf(f, b) \subseteq Nat, EndsOf(g, b) \subseteq Nat,
           EndsOf(f, b) = {} => EndsOf(g, b) = {},
           \A k : FirstEnd(f, b, k) =>
               \E j : FirstEnd(g, b, j) /\ g.code[g.blocks[b][j]].ops = f.code[f.blocks[b][k]].ops
    PROVE  Successors(g, b) = Successors(f, b)
<1>1. CASE EndsOf(f, b) = {}
  <2>1. Successors(f, b) = {b + 1} \cap DOMAIN f.blocks
    BY <1>1, SuccessorsAre
  <2>2. Successors(g, b) = {b + 1} \cap DOMAIN g.blocks
    BY <1>1, SuccessorsAre
  <2> QED BY <2>1, <2>2
<1>2. CASE EndsOf(f, b) # {}
  <2>1. PICK k : FirstEnd(f, b, k)
    BY <1>2, SuccessorsAre
  <2>2. PICK j : FirstEnd(g, b, j) /\ g.code[g.blocks[b][j]].ops = f.code[f.blocks[b][k]].ops
    BY <2>1
  <2>3. Targets(g, g.blocks[b][j]) = Targets(f, f.blocks[b][k])
    BY <2>2 DEF Targets
  <2> QED BY <2>1, <2>2, <2>3, SuccessorsAre
<1> QED BY <1>1, <1>2

\* A block whose terminators keep their places and their code.
LEMMA SameEnds ==
    ASSUME NEW f, NEW g, NEW b, DOMAIN f.blocks = DOMAIN g.blocks,
           NEW n \in Nat, DOMAIN f.blocks[b] = 1 .. n, g.blocks[b] = f.blocks[b],
           \A k \in 1 .. n :
              \/ g.code[f.blocks[b][k]] = f.code[f.blocks[b][k]]
              \/ g.code[f.blocks[b][k]].op \notin Terminators /\ f.code[f.blocks[b][k]].op \notin Terminators
    PROVE  Successors(g, b) = Successors(f, b)
<1>1. EndsOf(f, b) \subseteq Nat /\ EndsOf(g, b) = EndsOf(f, b)
  BY DEF EndsOf
<1>2. ASSUME NEW k, FirstEnd(f, b, k)
      PROVE  FirstEnd(g, b, k) /\ g.code[g.blocks[b][k]].ops = f.code[f.blocks[b][k]].ops
  BY <1>1, <1>2 DEF FirstEnd, EndsOf
<1> QED BY <1>1, <1>2, EdgesStay

\* A block without one of its instructions, where it is no terminator or one behind another.
LEMMA FewerEnds ==
    ASSUME NEW f, NEW g, NEW b, DOMAIN f.blocks = DOMAIN g.blocks,
           NEW n \in Nat, DOMAIN f.blocks[b] = 1 .. n, DOMAIN g.blocks[b] = 1 .. n - 1, NEW k \in 1 .. n,
           \A j \in 1 .. n - 1 : /\ g.blocks[b][j] = f.blocks[b][Shift(k, j)]
                                 /\ g.code[g.blocks[b][j]] = f.code[g.blocks[b][j]],
           f.code[f.blocks[b][k]].op \in Terminators => \E j \in EndsOf(f, b) : j < k
    PROVE  Successors(g, b) = Successors(f, b)
<1>1. ASSUME NEW j \in 1 .. n - 1 PROVE j \in EndsOf(g, b) <=> Shift(k, j) \in EndsOf(f, b)
  <2>1. Shift(k, j) \in 1 .. n
    BY DEF Shift
  <2>2. g.code[g.blocks[b][j]] = f.code[f.blocks[b][Shift(k, j)]]
    OBVIOUS
  <2> QED BY <2>1, <2>2 DEF EndsOf
<1>2. EndsOf(f, b) \subseteq 1 .. n /\ EndsOf(g, b) \subseteq 1 .. n - 1
  BY DEF EndsOf
<1>3. EndsOf(f, b) = {} => EndsOf(g, b) = {}
  BY <1>1, <1>2
<1>4. ASSUME NEW m, FirstEnd(f, b, m)
      PROVE  \E j : FirstEnd(g, b, j) /\ g.code[g.blocks[b][j]].ops = f.code[f.blocks[b][m]].ops
  <2>1. m \in 1 .. n /\ m \in EndsOf(f, b) /\ \A j \in EndsOf(f, b) : m <= j
    BY <1>2, <1>4 DEF FirstEnd
  <2>2. m # k
    <3> SUFFICES ASSUME m = k PROVE FALSE
      OBVIOUS
    <3>1. PICK j \in EndsOf(f, b) : j < k
      BY <2>1 DEF EndsOf
    <3> QED BY <1>2, <2>1, <3>1
  <2>3. PICK j : j = IF m < k THEN m ELSE m - 1
    OBVIOUS
  <2>4. j \in 1 .. n - 1 /\ Shift(k, j) = m
    BY <2>1, <2>2, <2>3 DEF Shift
  <2>5. j \in EndsOf(g, b)
    BY <1>1, <2>1, <2>4
  <2>6. ASSUME NEW i \in EndsOf(g, b) PROVE j <= i
    <3>1. i \in 1 .. n - 1 /\ Shift(k, i) \in EndsOf(f, b)
      BY <1>1, <1>2, <2>6
    <3>2. m <= Shift(k, i)
      BY <2>1, <3>1
    <3> QED BY <2>1, <2>2, <2>3, <2>4, <3>1, <3>2 DEF Shift
  <2>7. g.code[g.blocks[b][j]] = f.code[f.blocks[b][m]]
    BY <2>4
  <2> QED BY <2>5, <2>6, <2>7 DEF FirstEnd
<1>5. EndsOf(f, b) \subseteq Nat /\ EndsOf(g, b) \subseteq Nat
  BY <1>2
<1> QED BY <1>3, <1>4, <1>5, EdgesStay

-----------------------------------------------------------------------------
(* What there is to simplify.                                              *)

\* It depends on the code of the instructions only, and on the block of a jump.
LEMMA SourcesFollow ==
    ASSUME NEW i, NEW j, code'[i] = code[j]
    PROVE  Sources(i)' = Sources(j)
<1>1. PICK c : c = code[j]
  OBVIOUS
<1> QED BY <1>1 DEF Sources

\* An instruction that moves up in its block, with its code, is as tidy as before.
LEMMA TidyFollows ==
    ASSUME Len(blocks') = Len(blocks), NEW b, NEW j, NEW m, code'[blocks'[b][j]] = code[blocks[b][m]]
    PROVE  Tidy(b, j)' <=> Tidy(b, m)
<1>1. PICK i : i = blocks'[b][j]
  OBVIOUS
<1>2. Sources(i)' = Sources(blocks[b][m])
  BY <1>1, SourcesFollow
<1>3. (Sources(blocks[b][j]) = {})' <=> Sources(blocks[b][m]) = {}
  BY <1>1, <1>2
<1>4. RedundantJump(b, j)' <=> RedundantJump(b, m)
  BY DEF RedundantJump
<1> QED BY <1>3, <1>4 DEF Tidy

\* A move is redundant by its code and that of the instruction before.
LEMMA MoveFollows ==
    ASSUME NEW b, NEW j, NEW m, j > 1 <=> m > 1, code'[blocks'[b][j]] = code[blocks[b][m]],
           j > 1 => code'[blocks'[b][j - 1]] = code[blocks[b][m - 1]]
    PROVE  RedundantMove(b, j)' <=> RedundantMove(b, m)
  BY DEF RedundantMove

\* What is dead in a block is told by which of its instructions are terminators.
LEMMA DeadFollow ==
    ASSUME NEW b, NEW n \in Nat, DOMAIN blocks[b] = 1 .. n, blocks'[b] = blocks[b],
           \A k \in 1 .. n : \/ code'[blocks[b][k]] = code[blocks[b][k]]
                             \/ code'[blocks[b][k]].op \notin Terminators /\ code[blocks[b][k]].op \notin Terminators
    PROVE  DeadPlaces(b)' = DeadPlaces(b)
<1>1. ASSUME NEW k \in 1 .. n
      PROVE  code'[blocks[b][k]].op \in Terminators <=> code[blocks[b][k]].op \in Terminators
  OBVIOUS
<1>2. ASSUME NEW k \in 1 .. n
      PROVE  (\E j \in 1 .. k - 1 : code'[blocks[b][j]].op \in Terminators)
                <=> (\E j \in 1 .. k - 1 : code[blocks[b][j]].op \in Terminators)
  <2>1. \A j \in 1 .. k - 1 : j \in 1 .. n
    OBVIOUS
  <2> QED BY <1>1, <2>1
<1> QED BY <1>2 DEF DeadPlaces

-----------------------------------------------------------------------------
(* Steps that write nothing.                                               *)

\* Blocks are sequences of instructions.
LEMMA SizesOf ==
    ASSUME Placed, NEW b \in DOMAIN blocks
    PROVE  /\ blocks[b] \in Seq(Instructions) /\ DOMAIN blocks[b] = 1 .. Len(blocks[b]) /\ Len(blocks[b]) \in Nat
           /\ DOMAIN blocks = 1 .. Len(blocks) /\ Len(blocks) \in Nat
           /\ \A k \in DOMAIN blocks[b] : blocks[b][k] \in Instructions
<1>1. blocks \in Seq(Seq(Instructions))
  BY DEF Placed
<1>2. blocks[b] \in Seq(Instructions)
  BY <1>1
<1> QED BY <1>1, <1>2

\* If every block leads where it led, the edges are still those of the beginning.
LEMMA EdgesFollow ==
    ASSUME EdgesInv, DOMAIN blocks' = DOMAIN blocks, initial' = initial,
           NEW f, f = Function, NEW g, g = Function',
           \A b \in DOMAIN blocks : Successors(g, b) = Successors(f, b)
    PROVE  EdgesInv'
<1>1. PICK h : h = initial
  OBVIOUS
<1>2. \A b \in DOMAIN blocks : Successors(f, b) = Successors(h, b)
  BY <1>1 DEF EdgesInv, SuccessorsKept
<1>3. SuccessorsKept'
  <2> SUFFICES ASSUME NEW b \in DOMAIN blocks' PROVE Successors(Function, b)' = Successors(initial, b)'
    BY DEF SuccessorsKept
  <2>1. Successors(Function, b)' = Successors(g, b)
    <3>1. Successors(Function, b)' = Successors(Function', b)
      BY DEF Successors
    <3> QED BY <3>1
  <2>2. Successors(initial, b)' = Successors(h, b)
    <3>1. Successors(initial, b)' = Successors(initial', b)
      BY DEF Successors
    <3> QED BY <1>1, <3>1
  <2> QED BY <1>2, <2>1, <2>2
<1> QED BY <1>3 DEF EdgesInv

\* Code that is not touched has the same edges, and the same is left to simplify.
LEMMA NothingWritten ==
    ASSUME Coded, Placed, EdgesInv, code' = code, blocks' = blocks, initial' = initial
    PROVE  /\ Coded' /\ Placed' /\ EdgesInv'
           /\ \A b : DeadPlaces(b)' = DeadPlaces(b)
           /\ \A b, k : (Tidy(b, k)' <=> Tidy(b, k)) /\ (RedundantMove(b, k)' <=> RedundantMove(b, k))
<1>1. Coded' /\ Placed'
  BY DEF Coded, Placed
<1>2. EdgesInv'
  <2>1. PICK f : f = Function
    OBVIOUS
  <2>2. f = Function'
    BY <2>1 DEF Function
  <2> QED BY <2>1, <2>2, EdgesFollow
<1>3. \A b : DeadPlaces(b)' = DeadPlaces(b)
  BY DEF DeadPlaces
<1>4. ASSUME NEW b, NEW k PROVE (Tidy(b, k)' <=> Tidy(b, k)) /\ (RedundantMove(b, k)' <=> RedundantMove(b, k))
  <2>1. Tidy(b, k)' <=> Tidy(b, k)
    BY TidyFollows
  <2> QED BY <2>1 DEF RedundantMove
<1> QED BY <1>1, <1>2, <1>3, <1>4

\* The walk over the blocks adds places to those scanned.
LEMMA WalkKeepsInv ==
    ASSUME PeepholeInv, StartScan \/ Keep \/ NextBlock \/ NextIteration \/ Finish
    PROVE  PeepholeInv'
<1>1. Coded /\ Placed /\ CursorInv /\ EdgesInv /\ RoundInv
  BY DEF PeepholeInv
<1>2. code' = code /\ blocks' = blocks /\ initial' = initial
  BY DEF StartScan, Keep, NextBlock, NextIteration, Finish, vars
<1>3. /\ Coded' /\ Placed' /\ EdgesInv'
      /\ \A b : DeadPlaces(b)' = DeadPlaces(b)
      /\ \A b, k : (Tidy(b, k)' <=> Tidy(b, k)) /\ (RedundantMove(b, k)' <=> RedundantMove(b, k))
  BY <1>1, <1>2, NothingWritten
<1>4. block \in DOMAIN blocks /\ at \in Nat \ {0} /\ DOMAIN blocks = 1 .. Len(blocks) /\ Len(blocks) \in Nat
  BY <1>1, SizesOf DEF CursorInv
<1>5. \A b \in DOMAIN blocks : DOMAIN blocks[b] = 1 .. Len(blocks[b]) /\ Len(blocks[b]) \in Nat
  BY <1>1, SizesOf
\* It is enough to say what the step adds.
<1>6. ASSUME CursorInv', iteration' \in 1 .. 3, changed' \in BOOLEAN, iteration' = 3 => ~changed',
             iteration' > 1 => phase' \notin {"clear", "opcode"},
             \A b \in DOMAIN blocks :
                /\ b < block' \/ iteration' > 1 => DeadPlaces(b) = {}
                /\ \A k \in 1 .. Len(blocks[b]) :
                      /\ Scanned(b, k)' \/ iteration' > 1 => Tidy(b, k)
                      /\ iteration' = 3 \/ (Scanned(b, k)' /\ (iteration' > 1 \/ ~changed')) => ~RedundantMove(b, k)
      PROVE  PeepholeInv'
  <2>1. RoundInv'
    BY <1>2, <1>3, <1>5, <1>6 DEF RoundInv
  <2> QED BY <1>3, <1>6, <2>1 DEF PeepholeInv
<1>7. /\ iteration \in 1 .. 3 /\ changed \in BOOLEAN /\ (iteration = 3 => ~changed)
      /\ \A b \in DOMAIN blocks :
            /\ b < block \/ iteration > 1 => DeadPlaces(b) = {}
            /\ \A k \in 1 .. Len(blocks[b]) :
                  /\ Scanned(b, k) \/ iteration > 1 => Tidy(b, k)
                  /\ iteration = 3 \/ (Scanned(b, k) /\ (iteration > 1 \/ ~changed)) => ~RedundantMove(b, k)
  BY <1>1, <1>5 DEF RoundInv
<1>8. CASE StartScan
  <2>1. /\ phase = "prune" /\ phase' = "scan" /\ at' = 1 /\ DeadPlaces(block) = {}
        /\ block' = block /\ changed' = changed /\ iteration' = iteration
    BY <1>8 DEF StartScan
  <2>2. CursorInv'
    BY <1>1, <1>2, <1>3, <2>1 DEF CursorInv
  <2>3. \A b \in DOMAIN blocks : \A k \in 1 .. Len(blocks[b]) : Scanned(b, k)' <=> Scanned(b, k)
    BY <1>5, <2>1 DEF Scanned
  <2> QED BY <1>6, <1>7, <2>1, <2>2, <2>3
<1>9. CASE Keep
  <2>1. /\ phase = "scan" /\ at \in 1 .. Len(blocks[block]) /\ at' = at + 1
        /\ block' = block /\ phase' = phase /\ changed' = changed /\ iteration' = iteration
    BY <1>4, <1>9 DEF Keep, Scanning
  <2>2. CursorInv'
    BY <1>1, <1>2, <1>3, <2>1 DEF CursorInv
  <2>3. Tidy(block, at) /\ ~RedundantMove(block, at)
    BY <1>9 DEF Keep, Tidy, Current
  <2>4. ASSUME NEW b \in DOMAIN blocks, NEW k \in 1 .. Len(blocks[b]), Scanned(b, k)'
        PROVE  Scanned(b, k) \/ (b = block /\ k = at)
    BY <1>4, <1>5, <2>1, <2>4 DEF Scanned
  <2> QED BY <1>6, <1>7, <2>1, <2>2, <2>3, <2>4
<1>10. CASE NextBlock
  <2>1. /\ phase = "scan" /\ at > Len(blocks[block]) /\ block < Len(blocks) /\ block' = block + 1
        /\ phase' = "prune" /\ at' = at /\ changed' = changed /\ iteration' = iteration
    BY <1>10 DEF NextBlock
  <2>2. CursorInv'
    BY <1>1, <1>2, <1>4, <2>1 DEF CursorInv
  <2>3. DeadPlaces(block) = {}
    BY <1>1, <2>1 DEF CursorInv
  <2>4. ASSUME NEW b \in DOMAIN blocks, NEW k \in 1 .. Len(blocks[b]), Scanned(b, k)' PROVE Scanned(b, k)
    BY <1>4, <1>5, <2>1, <2>4 DEF Scanned
  <2>5. \A b \in DOMAIN blocks : b < block' => b < block \/ b = block
    BY <1>4, <2>1
  <2> QED BY <1>6, <1>7, <2>1, <2>2, <2>3, <2>4, <2>5
<1>11. CASE NextIteration
  <2>1. /\ phase = "scan" /\ at > Len(blocks[block]) /\ block = Len(blocks) /\ block' = 1 /\ phase' = "prune"
        /\ changed /\ changed' = FALSE /\ at' = at /\ iteration' = iteration + 1
    BY <1>11 DEF NextIteration
  <2>2. CursorInv'
    BY <1>1, <1>2, <1>4, <2>1 DEF CursorInv
  <2>3. \A b \in DOMAIN blocks : DeadPlaces(b) = {}
    <3>1. DeadPlaces(block) = {}
      BY <1>1, <2>1 DEF CursorInv
    <3>2. \A b \in DOMAIN blocks : b < block \/ b = block
      BY <1>4, <2>1
    <3> QED BY <1>7, <3>1, <3>2
  <2>4. ASSUME NEW b \in DOMAIN blocks, NEW k \in 1 .. Len(blocks[b]) PROVE Scanned(b, k) /\ ~Scanned(b, k)'
    BY <1>4, <1>5, <2>1 DEF Scanned
  <2>5. iteration' \in 2 .. 3 /\ (iteration' = 3 => iteration > 1)
    BY <1>7, <2>1
  <2>6. ASSUME NEW b \in DOMAIN blocks, NEW k \in 1 .. Len(blocks[b])
        PROVE  Tidy(b, k) /\ (iteration' = 3 => ~RedundantMove(b, k))
    BY <1>7, <2>4, <2>5, <2>6
  <2>7. iteration' \in 1 .. 3 /\ changed' \in BOOLEAN /\ (iteration' = 3 => ~changed') /\ phase' \notin {"clear", "opcode"}
    <3>1. changed' \in BOOLEAN /\ ~changed'
      BY <2>1, Zenon
    <3>2. iteration' \in 1 .. 3
      BY <2>5
    <3>3. phase' \notin {"clear", "opcode"}
      BY <2>1
    <3> QED BY <3>1, <3>2, <3>3
  <2> HIDE <1>7, <1>11
  <2>8. ASSUME NEW b \in DOMAIN blocks
        PROVE  /\ b < block' \/ iteration' > 1 => DeadPlaces(b) = {}
               /\ \A k \in 1 .. Len(blocks[b]) :
                     /\ Scanned(b, k)' \/ iteration' > 1 => Tidy(b, k)
                     /\ iteration' = 3 \/ (Scanned(b, k)' /\ (iteration' > 1 \/ ~changed')) => ~RedundantMove(b, k)
    BY <2>3, <2>4, <2>6, <2>8
  <2> QED BY <1>6, <2>2, <2>7, <2>8
<1>12. CASE Finish
  <2>1. /\ phase = "scan" /\ at > Len(blocks[block]) /\ block = Len(blocks) /\ phase' = "done"
        /\ block' = block /\ at' = at /\ changed' = changed /\ iteration' = iteration
    BY <1>12 DEF Finish
  <2>2. CursorInv'
    <3>1. ~changed \/ iteration > 1
      BY <1>12, BoundsAssumption DEF Finish
    <3>2. ~changed' \/ iteration' > 1
      BY <2>1, <3>1
    <3> QED BY <1>1, <1>2, <1>3, <2>1, <3>2 DEF CursorInv
  <2>3. \A b \in DOMAIN blocks : \A k \in 1 .. Len(blocks[b]) : Scanned(b, k)' <=> Scanned(b, k)
    BY <2>1 DEF Scanned
  <2> QED BY <1>6, <1>7, <2>1, <2>2, <2>3
<1> QED BY <1>8, <1>9, <1>10, <1>11, <1>12

-----------------------------------------------------------------------------
(* A rewrite.                                                              *)

\* What is rewritten is no terminator, nor is what it becomes.
LEMMA NoTerminator ==
    /\ \A op \in DOMAIN Identity \cup {"MOV"} : op \notin Terminators
    /\ "MOV" \notin DOMAIN Identity
  BY DEF Identity, Terminators

\* Whatever an arithmetic instruction becomes, edges and all other instructions
\* are as they were.
LEMMA RewriteIsLocal ==
    ASSUME PeepholeInv, blocks' = blocks, initial' = initial, NEW i, i = Current,
           at \in DOMAIN blocks[block], code[i].op \in DOMAIN Identity, code'[i].op \in DOMAIN Identity \cup {"MOV"},
           \A j \in Instructions : j # i => code'[j] = code[j]
    PROVE  /\ Placed' /\ EdgesInv'
           /\ \A b \in DOMAIN blocks : DeadPlaces(b)' = DeadPlaces(b)
           /\ \A b \in DOMAIN blocks : \A k \in 1 .. Len(blocks[b]) :
                 /\ ~(b = block /\ k = at) => (Tidy(b, k)' <=> Tidy(b, k))
                 /\ b < block \/ (b = block /\ k < at) => (RedundantMove(b, k)' <=> RedundantMove(b, k))
<1>1. Placed /\ EdgesInv /\ block \in DOMAIN blocks /\ at \in Nat \ {0}
  BY DEF PeepholeInv, CursorInv
<1>2. \A b \in DOMAIN blocks :
         /\ DOMAIN blocks[b] = 1 .. Len(blocks[b]) /\ Len(blocks[b]) \in Nat
         /\ \A k \in DOMAIN blocks[b] : blocks[b][k] \in Instructions
  BY <1>1, SizesOf
<1>3. DOMAIN blocks = 1 .. Len(blocks) /\ Len(blocks) \in Nat
  BY <1>1, SizesOf
<1>4. code[i].op \notin Terminators /\ code'[i].op \notin Terminators
  BY NoTerminator
<1>5. ASSUME NEW b \in DOMAIN blocks, NEW k \in DOMAIN blocks[b], ~(b = block /\ k = at)
      PROVE  code'[blocks[b][k]] = code[blocks[b][k]]
  BY <1>1, <1>2, <1>5 DEF Placed, Current
<1>6. ASSUME NEW b \in DOMAIN blocks, NEW k \in DOMAIN blocks[b]
      PROVE  \/ code'[blocks[b][k]] = code[blocks[b][k]]
             \/ code'[blocks[b][k]].op \notin Terminators /\ code[blocks[b][k]].op \notin Terminators
  BY <1>4, <1>5 DEF Current
<1>7. Placed'
  <2>1. ASSUME NEW b \in DOMAIN blocks, NEW k \in DOMAIN blocks[b], code'[blocks[b][k]].op = "JMP"
        PROVE  DOMAIN code'[blocks[b][k]].ops = {1}
    <3>1. "JMP" \in Terminators
      BY DEF Terminators
    <3>2. code'[blocks[b][k]] = code[blocks[b][k]]
      BY <1>6, <2>1, <3>1
    <3> QED BY <1>1, <2>1, <3>2 DEF Placed
  <2> QED BY <1>1, <2>1 DEF Placed
<1>8. EdgesInv'
  <2>1. PICK f : f = Function
    OBVIOUS
  <2>2. PICK g : g = Function'
    OBVIOUS
  <2>3. /\ DOMAIN f.blocks = DOMAIN blocks /\ DOMAIN g.blocks = DOMAIN blocks
        /\ \A b : g.blocks[b] = blocks[b] /\ f.blocks[b] = blocks[b]
        /\ \A j : f.code[j] = code[j] /\ g.code[j] = code'[j]
    BY <2>1, <2>2 DEF Function
  <2>4. ASSUME NEW b \in DOMAIN blocks PROVE Successors(g, b) = Successors(f, b)
    <3>1. \A k \in 1 .. Len(blocks[b]) :
              \/ g.code[f.blocks[b][k]] = f.code[f.blocks[b][k]]
              \/ g.code[f.blocks[b][k]].op \notin Terminators /\ f.code[f.blocks[b][k]].op \notin Terminators
      BY <1>2, <1>6, <2>3
    <3>2. DOMAIN f.blocks[b] = 1 .. Len(blocks[b]) /\ g.blocks[b] = f.blocks[b] /\ Len(blocks[b]) \in Nat
          /\ DOMAIN f.blocks = DOMAIN g.blocks
      BY <1>2, <2>3
    <3> QED BY <3>1, <3>2, SameEnds
  <2> QED BY <1>1, <2>1, <2>2, <2>4, EdgesFollow
<1>9. ASSUME NEW b \in DOMAIN blocks PROVE DeadPlaces(b)' = DeadPlaces(b)
  BY <1>2, <1>6, DeadFollow
<1>10. ASSUME NEW b \in DOMAIN blocks, NEW k \in 1 .. Len(blocks[b]), ~(b = block /\ k = at)
       PROVE  Tidy(b, k)' <=> Tidy(b, k)
  <2>1. code'[blocks'[b][k]] = code[blocks[b][k]] /\ Len(blocks') = Len(blocks)
    BY <1>2, <1>5, <1>10
  <2> QED BY <2>1, TidyFollows
<1>11. ASSUME NEW b \in DOMAIN blocks, NEW k \in 1 .. Len(blocks[b]), b < block \/ (b = block /\ k < at)
       PROVE  RedundantMove(b, k)' <=> RedundantMove(b, k)
  <2>1. code'[blocks'[b][k]] = code[blocks[b][k]]
    BY <1>1, <1>2, <1>3, <1>5, <1>11
  <2>2. k > 1 => code'[blocks'[b][k - 1]] = code[blocks[b][k - 1]]
    <3> SUFFICES ASSUME k > 1 PROVE code'[blocks[b][k - 1]] = code[blocks[b][k - 1]]
      OBVIOUS
    <3>1. k - 1 \in DOMAIN blocks[b] /\ ~(b = block /\ k - 1 = at)
      BY <1>1, <1>2, <1>3, <1>11
    <3> QED BY <1>5, <3>1
  <2> QED BY <2>1, <2>2, MoveFollows
<1> QED BY <1>7, <1>8, <1>9, <1>10, <1>11

\* Only the first round rewrites, and what becomes of an instruction is tidy.
LEMMA RewritingKeepsInv ==
    ASSUME PeepholeInv, Rewrite \/ ClearSecond \/ SetOpcode
    PROVE  PeepholeInv'
<1>1. Coded /\ Placed /\ CursorInv /\ EdgesInv /\ RoundInv
  BY DEF PeepholeInv
<1>2. PICK i : i = Current
  OBVIOUS
<1>3. blocks' = blocks /\ initial' = initial /\ block' = block /\ iteration' = iteration
  BY DEF Rewrite, ClearSecond, SetOpcode
<1>4. block \in DOMAIN blocks /\ at \in Nat \ {0} /\ DOMAIN blocks = 1 .. Len(blocks) /\ Len(blocks) \in Nat
  BY <1>1, SizesOf DEF CursorInv
<1>5. \A b \in DOMAIN blocks : DOMAIN blocks[b] = 1 .. Len(blocks[b]) /\ Len(blocks[b]) \in Nat
  BY <1>1, SizesOf
<1>6. iteration = 1 /\ at \in 1 .. Len(blocks[block]) /\ i \in Instructions /\ code[i].op \in DOMAIN Identity
      /\ phase \in {"scan", "clear", "opcode"}
  <2>1. CASE Rewrite
    <3>1. phase = "scan" /\ at \in 1 .. Len(blocks[block]) /\ Sources(i) # {}
      BY <1>2, <1>4, <2>1 DEF Rewrite, Scanning
    <3>2. code[i].op \in DOMAIN Identity
      BY <3>1 DEF Sources
    <3>3. ~Tidy(block, at)
      BY <1>2, <3>1 DEF Tidy, Current
    <3>4. iteration = 1
      BY <1>1, <1>4, <1>5, <3>1, <3>3 DEF RoundInv
    <3> QED BY <1>1, <1>2, <1>4, <1>5, <3>1, <3>2, <3>4, SizesOf DEF Current
  <2>2. CASE ClearSecond \/ SetOpcode
    <3>1. phase \in {"clear", "opcode"}
      BY <2>2 DEF ClearSecond, SetOpcode
    <3>2. at \in DOMAIN blocks[block] /\ code[i].op \in DOMAIN Identity
      BY <1>1, <1>2, <3>1 DEF CursorInv
    <3>3. iteration = 1
      BY <1>1, <3>1 DEF RoundInv
    <3> QED BY <1>1, <1>2, <1>4, <1>5, <3>1, <3>2, <3>3, SizesOf DEF Current
  <2> QED BY <2>1, <2>2
<1>7. Coded' /\ code'[i].op \in DOMAIN Identity \cup {"MOV"} /\ \A j \in Instructions : j # i => code'[j] = code[j]
  <2>1. CASE Rewrite
    <3>1. PICK o : SwapOperand(i, o, 2)
      BY <1>2, <2>1 DEF Rewrite
    <3>2. Edit(i, {2}, [op |-> code[i].op, ops |-> [code[i].ops EXCEPT ![2] = o], live |-> TRUE], {2})
      BY <3>1 DEF SwapOperand, WithOperands
    <3> QED BY <1>1, <1>6, <3>2, EditWrites
  <2>2. CASE ClearSecond
    <3>1. Edit(i, 3 .. Len(code[i].ops), [op |-> code[i].op, ops |-> WithoutOperand(i, 3), live |-> TRUE],
               3 .. Len(code[i].ops) - 1)
      BY <1>2, <2>2 DEF ClearSecond, ClearOperand, WithOperands
    <3> QED BY <1>1, <1>6, <3>1, EditWrites
  <2>3. CASE SetOpcode
    <3>1. code' = [code EXCEPT ![i] = [code[i] EXCEPT !.op = "MOV"]]
      BY <1>2, <2>3 DEF SetOpcode
    <3>2. DOMAIN code = Instructions /\ \A j \in Instructions : "op" \in DOMAIN code[j]
      BY <1>1 DEF Coded
    <3>3. code'[i] = [code[i] EXCEPT !.op = "MOV"] /\ DOMAIN code' = Instructions
          /\ \A j \in Instructions : j # i => code'[j] = code[j]
      BY <1>6, <3>1, <3>2
    <3>4. code'[i].op = "MOV" /\ "op" \in DOMAIN code'[i]
      BY <1>6, <3>2, <3>3
    <3>5. \A j \in Instructions : "op" \in DOMAIN code'[j]
      BY <3>2, <3>3, <3>4
    <3> QED BY <3>3, <3>4, <3>5 DEF Coded
  <2> QED BY <2>1, <2>2, <2>3
<1>8. /\ Placed' /\ EdgesInv'
      /\ \A b \in DOMAIN blocks : DeadPlaces(b)' = DeadPlaces(b)
      /\ \A b \in DOMAIN blocks : \A k \in 1 .. Len(blocks[b]) :
            /\ ~(b = block /\ k = at) => (Tidy(b, k)' <=> Tidy(b, k))
            /\ b < block \/ (b = block /\ k < at) => (RedundantMove(b, k)' <=> RedundantMove(b, k))
  BY <1>2, <1>3, <1>4, <1>5, <1>6, <1>7, RewriteIsLocal
<1>9. /\ changed \in BOOLEAN
      /\ \A b \in DOMAIN blocks :
            /\ b < block => DeadPlaces(b) = {}
            /\ \A k \in 1 .. Len(blocks[b]) :
                  Scanned(b, k) => Tidy(b, k) /\ (~changed => ~RedundantMove(b, k))
  BY <1>1, <1>5 DEF RoundInv
<1>10. DeadPlaces(block) = {}
  BY <1>1, <1>6 DEF CursorInv
<1>11. CASE Rewrite \/ ClearSecond
  <2>1. phase' \in {"clear", "opcode"} /\ at' = at /\ changed' = changed
    BY <1>11 DEF Rewrite, ClearSecond
  <2>2. code'[i].op \in DOMAIN Identity
    <3>1. CASE Rewrite
      <4>1. PICK o : SwapOperand(i, o, 2)
        BY <1>2, <3>1 DEF Rewrite
      <4>2. Edit(i, {2}, [op |-> code[i].op, ops |-> [code[i].ops EXCEPT ![2] = o], live |-> TRUE], {2})
        BY <4>1 DEF SwapOperand, WithOperands
      <4> QED BY <1>1, <1>6, <4>2, EditWrites
    <3>2. CASE ClearSecond
      <4>1. Edit(i, 3 .. Len(code[i].ops), [op |-> code[i].op, ops |-> WithoutOperand(i, 3), live |-> TRUE],
                 3 .. Len(code[i].ops) - 1)
        BY <1>2, <3>2 DEF ClearSecond, ClearOperand, WithOperands
      <4> QED BY <1>1, <1>6, <4>1, EditWrites
    <3> QED BY <1>11, <3>1, <3>2
  <2>3. CursorInv'
    <3>1. Current' = i
      BY <1>2, <1>3, <2>1 DEF Current
    <3>2. DeadPlaces(block)' = {}
      BY <1>3, <1>4, <1>8, <1>10
    <3> QED BY <1>3, <1>4, <1>5, <1>6, <2>1, <2>2, <3>1, <3>2 DEF CursorInv
  <2>4. ASSUME NEW b \in DOMAIN blocks, NEW k \in 1 .. Len(blocks[b]), Scanned(b, k)'
        PROVE  Scanned(b, k) /\ ~(b = block /\ k = at) /\ (b < block \/ (b = block /\ k < at))
    BY <1>3, <1>4, <1>5, <1>6, <2>1, <2>4 DEF Scanned
  <2>5. RoundInv'
    <3>1. iteration' \in 1 .. 3 /\ changed' \in BOOLEAN /\ iteration' = 1
      BY <1>3, <1>6, <1>9, <2>1
    <3>2. ASSUME NEW b \in DOMAIN blocks, NEW k \in 1 .. Len(blocks[b]), Scanned(b, k)'
          PROVE  Tidy(b, k)' /\ (~changed' => ~RedundantMove(b, k)')
      BY <1>8, <1>9, <2>1, <2>4, <3>2
    <3>3. ASSUME NEW b \in DOMAIN blocks, b < block' PROVE DeadPlaces(b)' = {}
      BY <1>3, <1>8, <1>9, <3>3
    <3> QED BY <1>3, <1>5, <3>1, <3>2, <3>3 DEF RoundInv
  <2> QED BY <1>7, <1>8, <2>3, <2>5 DEF PeepholeInv
<1>12. CASE SetOpcode
  <2>1. phase' = "scan" /\ at' = at + 1 /\ changed' = TRUE
    BY <1>12 DEF SetOpcode
  <2>2. code'[i].op = "MOV"
    <3>1. code' = [code EXCEPT ![i] = [code[i] EXCEPT !.op = "MOV"]]
      BY <1>2, <1>12 DEF SetOpcode
    <3>2. DOMAIN code = Instructions /\ "op" \in DOMAIN code[i]
      BY <1>1, <1>6 DEF Coded
    <3> QED BY <1>6, <3>1, <3>2
  <2>3. CursorInv'
    <3>1. DeadPlaces(block)' = {}
      BY <1>3, <1>4, <1>8, <1>10
    <3> QED BY <1>3, <1>4, <2>1, <3>1 DEF CursorInv
  <2>4. ASSUME NEW b \in DOMAIN blocks, NEW k \in 1 .. Len(blocks[b]), Scanned(b, k)'
        PROVE  Scanned(b, k) \/ (b = block /\ k = at)
    BY <1>3, <1>4, <1>5, <1>6, <2>1, <2>4 DEF Scanned
  <2>5. ASSUME NEW b, b = block, NEW k, k = at PROVE Tidy(b, k)'
    <3>1. blocks'[b][k] = i
      BY <1>2, <1>3, <2>5 DEF Current
    <3>2. Sources(blocks[b][k])' = {}
      BY <2>2, <3>1, NoTerminator DEF Sources
    <3>3. ~RedundantJump(b, k)'
      BY <2>2, <3>1 DEF RedundantJump
    <3> QED BY <3>2, <3>3 DEF Tidy
  <2>6. RoundInv'
    <3>1. iteration' \in 1 .. 3 /\ iteration' = 1
      BY <1>3, <1>6
    <3>2. changed' \in BOOLEAN /\ changed'
      BY <2>1, Zenon
    <3>3. ASSUME NEW b \in DOMAIN blocks, NEW k \in 1 .. Len(blocks[b]), Scanned(b, k)' PROVE Tidy(b, k)'
      BY <1>8, <1>9, <2>4, <2>5, <3>3
    <3>4. ASSUME NEW b \in DOMAIN blocks, b < block' PROVE DeadPlaces(b)' = {}
      BY <1>3, <1>8, <1>9, <3>4
    <3> QED BY <1>3, <1>5, <2>1, <3>1, <3>2, <3>3, <3>4 DEF RoundInv
  <2> QED BY <1>7, <1>8, <2>3, <2>6 DEF PeepholeInv
<1> QED BY <1>11, <1>12

-----------------------------------------------------------------------------
(* An erasure.                                                             *)

\* Other blocks are as they were, and in this one what is left.
LEMMA EraseIsLocal ==
    ASSUME PeepholeInv, initial' = initial, NEW k \in DOMAIN blocks[block], EraseAt(k)
    PROVE  /\ Coded' /\ Placed' /\ DOMAIN blocks' = DOMAIN blocks
           /\ \A b \in DOMAIN blocks : b # block =>
                 /\ DeadPlaces(b)' = DeadPlaces(b) /\ DOMAIN blocks'[b] = DOMAIN blocks[b]
                 /\ \A j \in DOMAIN blocks[b] :
                       (Tidy(b, j)' <=> Tidy(b, j)) /\ (RedundantMove(b, j)' <=> RedundantMove(b, j))
           /\ \A b : b = block =>
                 /\ DOMAIN blocks'[b] = 1 .. Len(blocks[b]) - 1
                 /\ DeadPlaces(b) = {} => DeadPlaces(b)' = {}
                 /\ \A j \in DOMAIN blocks'[b] :
                       /\ Shift(k, j) \in DOMAIN blocks[b] /\ (Tidy(b, j)' <=> Tidy(b, Shift(k, j)))
                       /\ j < k => (RedundantMove(b, j)' <=> RedundantMove(b, j))
<1>1. Coded /\ Placed /\ block \in DOMAIN blocks
  BY DEF PeepholeInv, CursorInv
<1>2. \A b \in DOMAIN blocks :
         /\ DOMAIN blocks[b] = 1 .. Len(blocks[b]) /\ Len(blocks[b]) \in Nat
         /\ \A j \in DOMAIN blocks[b] : blocks[b][j] \in Instructions
  BY <1>1, SizesOf
<1>3. DOMAIN blocks = 1 .. Len(blocks) /\ Len(blocks) \in Nat
  BY <1>1, SizesOf
<1>4. /\ Coded' /\ Placed' /\ DOMAIN blocks' = DOMAIN blocks
      /\ \A b \in DOMAIN blocks : b # block => blocks'[b] = blocks[b]
      /\ DOMAIN blocks'[block] = 1 .. Len(blocks[block]) - 1
      /\ \A j \in DOMAIN blocks'[block] :
            Shift(k, j) \in DOMAIN blocks[block] /\ blocks'[block][j] = blocks[block][Shift(k, j)]
      /\ \A b \in DOMAIN blocks : \A j \in DOMAIN blocks'[b] : code'[blocks'[b][j]] = code[blocks'[b][j]]
  BY <1>1, EraseTakes
<1>5. Len(blocks') = Len(blocks)
  BY <1>3, <1>4 DEF Placed
<1>6. ASSUME NEW b \in DOMAIN blocks, b # block
      PROVE  /\ DeadPlaces(b)' = DeadPlaces(b) /\ DOMAIN blocks'[b] = DOMAIN blocks[b]
             /\ \A j \in DOMAIN blocks[b] :
                   (Tidy(b, j)' <=> Tidy(b, j)) /\ (RedundantMove(b, j)' <=> RedundantMove(b, j))
  <2>1. blocks'[b] = blocks[b]
    BY <1>4, <1>6
  <2>2. \A j \in DOMAIN blocks[b] : code'[blocks'[b][j]] = code[blocks[b][j]]
    BY <1>4, <2>1
  <2>3. DeadPlaces(b)' = DeadPlaces(b)
    BY <1>2, <2>1, <2>2, DeadFollow
  <2>4. ASSUME NEW j \in DOMAIN blocks[b]
        PROVE  (Tidy(b, j)' <=> Tidy(b, j)) /\ (RedundantMove(b, j)' <=> RedundantMove(b, j))
    <3>1. Tidy(b, j)' <=> Tidy(b, j)
      BY <1>5, <2>2, TidyFollows
    <3>2. j > 1 => code'[blocks'[b][j - 1]] = code[blocks[b][j - 1]]
      <4>1. j \in Nat /\ (j > 1 => j - 1 \in DOMAIN blocks[b])
        BY <1>2
      <4> QED BY <2>2, <4>1
    <3>3. RedundantMove(b, j)' <=> RedundantMove(b, j)
      BY <2>2, <3>2, MoveFollows
    <3> QED BY <3>1, <3>3
  <2> QED BY <2>1, <2>3, <2>4
<1>7. ASSUME NEW b, b = block
      PROVE  /\ DOMAIN blocks'[b] = 1 .. Len(blocks[b]) - 1
             /\ DeadPlaces(b) = {} => DeadPlaces(b)' = {}
             /\ \A j \in DOMAIN blocks'[b] :
                   /\ Shift(k, j) \in DOMAIN blocks[b] /\ (Tidy(b, j)' <=> Tidy(b, Shift(k, j)))
                   /\ j < k => (RedundantMove(b, j)' <=> RedundantMove(b, j))
  <2>1. PICK n \in Nat : n = Len(blocks[b]) /\ DOMAIN blocks[b] = 1 .. n /\ k \in 1 .. n
    BY <1>1, <1>2, <1>7
  <2>2. DOMAIN blocks'[b] = 1 .. n - 1
    BY <1>4, <1>7, <2>1
  <2>3. \A j \in 1 .. n - 1 : Shift(k, j) \in 1 .. n /\ code'[blocks'[b][j]] = code[blocks[b][Shift(k, j)]]
    BY <1>1, <1>4, <1>7, <2>1, <2>2
  <2>4. ASSUME DeadPlaces(b) = {}, NEW j \in 1 .. n - 1, NEW m \in 1 .. j - 1
        PROVE  code'[blocks'[b][m]].op \notin Terminators
    <3>1. m \in 1 .. n - 1 /\ Shift(k, m) \in 1 .. Shift(k, j) - 1 /\ Shift(k, j) \in DOMAIN blocks[b]
      BY <2>1, <2>4 DEF Shift
    <3>2. code[blocks[b][Shift(k, m)]].op \notin Terminators
      BY <2>4, <3>1 DEF DeadPlaces
    <3> QED BY <2>3, <3>1, <3>2
  <2>5. DeadPlaces(b) = {} => DeadPlaces(b)' = {}
    BY <2>2, <2>4 DEF DeadPlaces
  <2>6. ASSUME NEW j \in 1 .. n - 1 PROVE Tidy(b, j)' <=> Tidy(b, Shift(k, j))
    BY <1>5, <2>3, TidyFollows
  <2>7. ASSUME NEW j \in 1 .. n - 1, j < k PROVE RedundantMove(b, j)' <=> RedundantMove(b, j)
    <3>1. code'[blocks'[b][j]] = code[blocks[b][j]]
      BY <2>3, <2>7 DEF Shift
    <3>2. j > 1 => code'[blocks'[b][j - 1]] = code[blocks[b][j - 1]]
      <4> SUFFICES ASSUME j > 1 PROVE code'[blocks'[b][j - 1]] = code[blocks[b][j - 1]]
        OBVIOUS
      <4>1. j - 1 \in 1 .. n - 1 /\ Shift(k, j - 1) = j - 1
        BY <2>1, <2>7 DEF Shift
      <4> QED BY <2>3, <4>1
    <3> QED BY <3>1, <3>2, MoveFollows
  <2> QED BY <2>1, <2>2, <2>3, <2>5, <2>6, <2>7
<1> QED BY <1>4, <1>6, <1>7

\* The edges stay if the block goes where it went.
LEMMA EraseKeepsEdges ==
    ASSUME PeepholeInv, initial' = initial, NEW k \in DOMAIN blocks[block], EraseAt(k),
           NEW f, f = Function, NEW g, g = Function', Successors(g, block) = Successors(f, block)
    PROVE  EdgesInv'
<1>1. Coded /\ Placed /\ EdgesInv /\ block \in DOMAIN blocks
  BY DEF PeepholeInv, CursorInv
<1>2. /\ DOMAIN blocks' = DOMAIN blocks
      /\ \A b \in DOMAIN blocks : b # block => blocks'[b] = blocks[b]
      /\ \A b \in DOMAIN blocks : \A j \in DOMAIN blocks'[b] : code'[blocks'[b][j]] = code[blocks'[b][j]]
  BY <1>1, EraseTakes
<1>3. /\ DOMAIN f.blocks = DOMAIN blocks /\ DOMAIN g.blocks = DOMAIN blocks
      /\ \A b : g.blocks[b] = blocks'[b] /\ f.blocks[b] = blocks[b]
      /\ \A j : f.code[j] = code[j] /\ g.code[j] = code'[j]
  BY <1>2 DEF Function
<1>4. ASSUME NEW b \in DOMAIN blocks, b # block PROVE Successors(g, b) = Successors(f, b)
  <2>1. g.blocks[b] = f.blocks[b] /\ DOMAIN f.blocks[b] = 1 .. Len(blocks[b]) /\ Len(blocks[b]) \in Nat
    BY <1>1, <1>2, <1>3, <1>4, SizesOf
  <2>2. \A j \in 1 .. Len(blocks[b]) : g.code[f.blocks[b][j]] = f.code[f.blocks[b][j]]
    BY <1>2, <1>3, <1>4, <2>1
  <2>3. DOMAIN f.blocks = DOMAIN g.blocks
    BY <1>3
  <2> QED BY <2>1, <2>2, <2>3, SameEnds
<1> QED BY <1>1, <1>2, <1>4, EdgesFollow

\* It does if what is erased is no terminator, or behind another.
LEMMA EraseOther ==
    ASSUME PeepholeInv, initial' = initial, NEW k \in DOMAIN blocks[block], EraseAt(k),
           code[blocks[block][k]].op \in Terminators => k \in DeadPlaces(block)
    PROVE  EdgesInv'
<1>1. Coded /\ Placed /\ block \in DOMAIN blocks
  BY DEF PeepholeInv, CursorInv
<1>2. PICK b : b = block
  OBVIOUS
<1>3. PICK n \in Nat : n = Len(blocks[b]) /\ DOMAIN blocks[b] = 1 .. n /\ k \in 1 .. n
  BY <1>1, <1>2, SizesOf
<1>4. /\ DOMAIN blocks' = DOMAIN blocks /\ DOMAIN blocks'[b] = 1 .. n - 1
      /\ \A j \in 1 .. n - 1 : blocks'[b][j] = blocks[b][Shift(k, j)] /\ code'[blocks'[b][j]] = code[blocks'[b][j]]
  BY <1>1, <1>2, <1>3, EraseTakes
<1>5. PICK f : f = Function
  OBVIOUS
<1>6. PICK g : g = Function'
  OBVIOUS
<1>7. /\ f.blocks = blocks /\ g.blocks = blocks' /\ f.code = code /\ g.code = code'
  BY <1>5, <1>6 DEF Function
<1>8. f.code[f.blocks[b][k]].op \in Terminators => \E j \in EndsOf(f, b) : j < k
  <2> SUFFICES ASSUME code[blocks[b][k]].op \in Terminators PROVE \E j \in EndsOf(f, b) : j < k
    BY <1>7
  <2>1. PICK j \in 1 .. k - 1 : code[blocks[b][j]].op \in Terminators
    BY <1>2 DEF DeadPlaces
  <2>2. j \in 1 .. n /\ j < k
    BY <1>3, <2>1
  <2> QED BY <1>3, <1>7, <2>1, <2>2 DEF EndsOf
<1>9. Successors(g, b) = Successors(f, b)
  <2>1. \A j \in 1 .. n - 1 : /\ g.blocks[b][j] = f.blocks[b][Shift(k, j)]
                              /\ g.code[g.blocks[b][j]] = f.code[g.blocks[b][j]]
    BY <1>4, <1>7
  <2>2. DOMAIN f.blocks = DOMAIN g.blocks /\ DOMAIN f.blocks[b] = 1 .. n /\ DOMAIN g.blocks[b] = 1 .. n - 1
    BY <1>3, <1>4, <1>7
  <2> QED BY <1>3, <1>8, <2>1, <2>2, FewerEnds
<1> QED BY <1>2, <1>5, <1>6, <1>9, EraseKeepsEdges

\* A jump to the next block, which is the only terminator of its own.
LEMMA EraseNextJump ==
    ASSUME PeepholeInv, initial' = initial, NEW k \in DOMAIN blocks[block], EraseAt(k),
           RedundantJump(block, k), DeadPlaces(block) = {}
    PROVE  EdgesInv'
<1>1. Coded /\ Placed /\ block \in DOMAIN blocks
  BY DEF PeepholeInv, CursorInv
<1>2. PICK b : b = block
  OBVIOUS
<1>3. PICK n \in Nat : n = Len(blocks[b]) /\ DOMAIN blocks[b] = 1 .. n /\ k \in 1 .. n
  BY <1>1, <1>2, SizesOf
<1>4. /\ DOMAIN blocks' = DOMAIN blocks /\ DOMAIN blocks'[b] = 1 .. n - 1
      /\ \A j \in 1 .. n - 1 : blocks'[b][j] = blocks[b][Shift(k, j)] /\ code'[blocks'[b][j]] = code[blocks'[b][j]]
  BY <1>1, <1>2, <1>3, EraseTakes
<1>5. PICK f : f = Function
  OBVIOUS
<1>6. PICK g : g = Function'
  OBVIOUS
<1>7. /\ f.blocks = blocks /\ g.blocks = blocks' /\ f.code = code /\ g.code = code'
  BY <1>5, <1>6 DEF Function
<1>8. PICK i : i = blocks[b][k]
  OBVIOUS
<1>9. code[i].op = "JMP" /\ code[i].ops[1] = Block(b + 1) /\ b < Len(blocks) /\ DOMAIN code[i].ops = {1}
  BY <1>1, <1>2, <1>3, <1>8 DEF RedundantJump, Placed
<1>10. ASSUME NEW j \in 1 .. n, code[blocks[b][j]].op \in Terminators PROVE j = k
  <2>1. code[blocks[b][k]].op \in Terminators
    BY <1>8, <1>9 DEF Terminators
  <2>2. k \notin DeadPlaces(b) /\ j \notin DeadPlaces(b)
    BY <1>2
  <2>3. ~(j \in 1 .. k - 1) /\ ~(k \in 1 .. j - 1)
    BY <1>3, <1>10, <2>1, <2>2 DEF DeadPlaces
  <2> QED BY <1>3, <2>3
<1>11. EndsOf(f, b) = {k} /\ EndsOf(g, b) = {}
  <2>1. code[blocks[b][k]].op \in Terminators
    BY <1>8, <1>9 DEF Terminators
  <2>2. EndsOf(f, b) = {k}
    BY <1>3, <1>7, <1>10, <2>1 DEF EndsOf
  <2>3. ASSUME NEW j \in 1 .. n - 1 PROVE code'[blocks'[b][j]].op \notin Terminators
    <3>1. Shift(k, j) \in 1 .. n /\ Shift(k, j) # k
      BY <1>3, <2>3 DEF Shift
    <3> QED BY <1>4, <1>10, <2>3, <3>1
  <2>4. EndsOf(g, b) = {}
    BY <1>4, <1>7, <2>3 DEF EndsOf
  <2> QED BY <2>2, <2>4
<1>12. Successors(g, b) = {b + 1} \cap DOMAIN blocks
  BY <1>4, <1>7, <1>11, SuccessorsAre
<1>13. Successors(f, b) = Targets(f, i)
  <2>1. FirstEnd(f, b, k) /\ EndsOf(f, b) \subseteq Nat
    BY <1>3, <1>11 DEF FirstEnd
  <2> QED BY <1>7, <1>8, <2>1, SuccessorsAre
<1>14. Targets(f, i) = {b + 1} \cap DOMAIN blocks
  <2>1. \A t : Block(t) = Block(b + 1) <=> t = b + 1
    BY DEF Block
  <2> QED BY <1>7, <1>9, <2>1 DEF Targets
<1> QED BY <1>2, <1>5, <1>6, <1>12, <1>13, <1>14, EraseKeepsEdges

\* Only the first two rounds erase, and what stands behind moves up to be scanned.
LEMMA ErasingKeepsInv ==
    ASSUME PeepholeInv, PruneDead \/ EraseMove \/ EraseJump
    PROVE  PeepholeInv'
<1>1. Coded /\ Placed /\ CursorInv /\ EdgesInv /\ RoundInv
  BY DEF PeepholeInv
<1>2. block \in DOMAIN blocks /\ at \in Nat \ {0} /\ DOMAIN blocks = 1 .. Len(blocks) /\ Len(blocks) \in Nat
  BY <1>1, SizesOf DEF CursorInv
<1>3. \A b \in DOMAIN blocks : DOMAIN blocks[b] = 1 .. Len(blocks[b]) /\ Len(blocks[b]) \in Nat
  BY <1>1, SizesOf
<1>4. /\ initial' = initial /\ block' = block /\ phase' = phase /\ at' = at /\ iteration' = iteration
      /\ changed' = TRUE
  BY DEF PruneDead, EraseMove, EraseJump, place
<1>5. PICK k \in DOMAIN blocks[block] :
         /\ EraseAt(k) /\ EdgesInv'
         /\ \/ phase = "prune" /\ iteration = 1
            \/ phase = "scan" /\ k = at /\ iteration < 3
  <2>1. CASE PruneDead
    <3>1. phase = "prune" /\ DeadPlaces(block) # {} /\ EraseAt(Min(DeadPlaces(block)))
      BY <2>1 DEF PruneDead
    <3>2. DeadPlaces(block) \subseteq DOMAIN blocks[block] /\ DeadPlaces(block) \in SUBSET Nat
      BY <1>2, <1>3 DEF DeadPlaces
    <3>3. PICK k \in DOMAIN blocks[block] : k \in DeadPlaces(block) /\ EraseAt(k)
      BY <3>1, <3>2, LeastOf
    <3>4. EdgesInv'
      BY <1>4, <3>3, EraseOther
    <3>5. iteration = 1
      BY <1>1, <1>2, <3>1 DEF RoundInv
    <3> QED BY <3>1, <3>3, <3>4, <3>5
  <2>2. CASE EraseMove
    <3>1. phase = "scan" /\ at \in DOMAIN blocks[block] /\ EraseAt(at) /\ RedundantMove(block, at)
      BY <1>2, <1>3, <2>2 DEF EraseMove, Scanning
    <3>2. code[blocks[block][at]].op \notin Terminators
      BY <3>1 DEF RedundantMove, Terminators
    <3>3. EdgesInv'
      BY <1>4, <3>1, <3>2, EraseOther
    <3>4. iteration < 3
      BY <1>1, <1>2, <3>1 DEF RoundInv
    <3> QED BY <3>1, <3>3, <3>4
  <2>3. CASE EraseJump
    <3>1. phase = "scan" /\ at \in DOMAIN blocks[block] /\ EraseAt(at) /\ RedundantJump(block, at)
      BY <1>2, <1>3, <2>3 DEF EraseJump, Scanning
    <3>2. DeadPlaces(block) = {}
      BY <1>1, <3>1 DEF CursorInv
    <3>3. EdgesInv'
      BY <1>4, <3>1, <3>2, EraseNextJump
    <3>4. iteration < 3
      BY <1>1, <1>2, <3>1 DEF RoundInv, Tidy
    <3> QED BY <3>1, <3>3, <3>4
  <2> QED BY <2>1, <2>2, <2>3
<1>6. /\ Coded' /\ Placed' /\ DOMAIN blocks' = DOMAIN blocks
      /\ \A b \in DOMAIN blocks : b # block =>
            /\ DeadPlaces(b)' = DeadPlaces(b) /\ DOMAIN blocks'[b] = DOMAIN blocks[b]
            /\ \A j \in DOMAIN blocks[b] :
                  (Tidy(b, j)' <=> Tidy(b, j)) /\ (RedundantMove(b, j)' <=> RedundantMove(b, j))
      /\ \A b : b = block =>
            /\ DOMAIN blocks'[b] = 1 .. Len(blocks[b]) - 1
            /\ DeadPlaces(b) = {} => DeadPlaces(b)' = {}
            /\ \A j \in DOMAIN blocks'[b] :
                  /\ Shift(k, j) \in DOMAIN blocks[b] /\ (Tidy(b, j)' <=> Tidy(b, Shift(k, j)))
                  /\ j < k => (RedundantMove(b, j)' <=> RedundantMove(b, j))
  BY <1>4, <1>5, EraseIsLocal
<1>7. /\ iteration \in 1 .. 3
      /\ \A b \in DOMAIN blocks :
            /\ b < block \/ iteration > 1 => DeadPlaces(b) = {}
            /\ \A j \in DOMAIN blocks[b] :
                  /\ Scanned(b, j) \/ iteration > 1 => Tidy(b, j)
                  /\ Scanned(b, j) /\ iteration > 1 => ~RedundantMove(b, j)
  BY <1>1 DEF RoundInv
<1>8. CursorInv'
  <2>1. phase # "prune" => DeadPlaces(block) = {}
    BY <1>1 DEF CursorInv
  <2>2. ASSUME NEW b, b = block, phase # "prune" PROVE DeadPlaces(b)' = {}
    BY <1>6, <2>1, <2>2
  <2>3. phase \in {"prune", "scan"} /\ phase' \in {"prune", "scan"}
    BY <1>4, <1>5
  <2>4. phase' # "prune" => DeadPlaces(block)' = {}
    <3> SUFFICES ASSUME phase # "prune" PROVE DeadPlaces(block)' = {}
      BY <1>4
    <3>1. PICK b : b = block
      OBVIOUS
    <3>2. b = block'
      BY <1>4, <3>1
    <3>3. DeadPlaces(b)' = {}
      BY <2>2, <3>1
    <3> QED BY <3>2, <3>3
  <2> QED BY <1>2, <1>4, <1>6, <2>3, <2>4 DEF CursorInv
<1>9. ASSUME NEW b \in DOMAIN blocks PROVE b < block \/ iteration > 1 => DeadPlaces(b)' = {}
  <2>1. CASE b = block
    BY <1>2, <1>6, <1>7, <2>1
  <2>2. CASE b # block
    BY <1>6, <1>7, <2>2
  <2> QED BY <2>1, <2>2
<1>10. ASSUME NEW b \in DOMAIN blocks, NEW j \in DOMAIN blocks'[b]
       PROVE  /\ Scanned(b, j)' \/ iteration > 1 => Tidy(b, j)'
              /\ Scanned(b, j)' /\ iteration > 1 => ~RedundantMove(b, j)'
  <2>1. CASE b = block
    <3>1. /\ Shift(k, j) \in DOMAIN blocks[b] /\ (Tidy(b, j)' <=> Tidy(b, Shift(k, j)))
          /\ j < k => (RedundantMove(b, j)' <=> RedundantMove(b, j))
      BY <1>6, <1>10, <2>1
    <3>2. j \in Nat /\ b \in Nat
      BY <1>2, <1>3, <1>6, <1>10, <2>1
    <3>3. CASE phase = "scan" /\ k = at
      <4>1. Scanned(b, j)' => j < k /\ Shift(k, j) = j /\ Scanned(b, j)
        BY <1>2, <1>4, <2>1, <3>2, <3>3 DEF Scanned, Shift
      <4> QED BY <1>7, <3>1, <4>1
    <3>4. CASE phase = "prune" /\ iteration = 1
      <4>1. ~Scanned(b, j)'
        BY <1>2, <1>4, <2>1, <3>2, <3>4 DEF Scanned
      <4> QED BY <3>4, <4>1
    <3> QED BY <1>5, <3>3, <3>4
  <2>2. CASE b # block
    <3>1. j \in DOMAIN blocks[b] /\ (Tidy(b, j)' <=> Tidy(b, j)) /\ (RedundantMove(b, j)' <=> RedundantMove(b, j))
      BY <1>6, <1>10, <2>2
    <3>2. Scanned(b, j)' <=> Scanned(b, j)
      BY <1>4 DEF Scanned
    <3> QED BY <1>7, <3>1, <3>2
  <2> QED BY <2>1, <2>2
<1>11. RoundInv'
  <2>1. changed' \in BOOLEAN /\ changed'
    BY <1>4, Zenon
  <2>2. iteration' \in 1 .. 2 /\ phase' \notin {"clear", "opcode"}
    BY <1>4, <1>5, <1>7
  <2>3. ASSUME NEW b \in DOMAIN blocks'
        PROVE  /\ b < block' \/ iteration' > 1 => DeadPlaces(b)' = {}
               /\ \A j \in DOMAIN blocks'[b] :
                     /\ Scanned(b, j)' \/ iteration' > 1 => Tidy(b, j)'
                     /\ iteration' = 3 \/ (Scanned(b, j)' /\ (iteration' > 1 \/ ~changed')) => ~RedundantMove(b, j)'
    BY <1>4, <1>6, <1>9, <1>10, <2>1, <2>2
  <2> QED BY <2>1, <2>2, <2>3 DEF RoundInv
<1> QED BY <1>5, <1>6, <1>8, <1>11 DEF PeepholeInv

-----------------------------------------------------------------------------
(* The whole pass.                                                         *)

\* The first round has scanned nothing.
LEMMA PeepholeInitInv == PeepholeInit => PeepholeInv
<1> SUFFICES ASSUME PeepholeInit PROVE PeepholeInv
  OBVIOUS
<1>1. PICK f \in Functions : code = f.code /\ blocks = f.blocks /\ initial = f
  BY DEF PeepholeInit
<1>2. block = 1 /\ phase = "prune" /\ at = 1 /\ changed = FALSE /\ iteration = 1
  BY DEF PeepholeInit
<1>3. /\ f.code \in [Instructions -> Codes]
      /\ f.blocks \in Seq(Seq(Instructions)) /\ f.blocks # <<>>
      /\ \A b, c \in DOMAIN f.blocks : \A k \in DOMAIN f.blocks[b], j \in DOMAIN f.blocks[c] :
            f.blocks[b][k] = f.blocks[c][j] => b = c /\ k = j
      /\ \A i \in Instructions : f.code[i].op = "JMP" => Len(f.code[i].ops) = 1
  BY FunctionsAssumption
<1>4. ASSUME NEW c \in Codes PROVE "op" \in DOMAIN c /\ (Len(c.ops) = 1 => DOMAIN c.ops = {1})
  BY DEF Codes, NoCode
<1>5. Coded
  BY <1>1, <1>3, <1>4 DEF Coded
<1>6. Placed
  <2>1. ASSUME NEW b \in DOMAIN blocks, NEW k \in DOMAIN blocks[b], code[blocks[b][k]].op = "JMP"
        PROVE  DOMAIN code[blocks[b][k]].ops = {1}
    <3>1. blocks[b][k] \in Instructions
      BY <1>1, <1>3
    <3> QED BY <1>1, <1>3, <1>4, <2>1, <3>1
  <2> QED BY <1>1, <1>3, <2>1 DEF Placed
<1>7. block \in DOMAIN blocks
  BY <1>1, <1>2, <1>3
<1>8. CursorInv
  BY <1>2, <1>7 DEF CursorInv
<1>9. EdgesInv
  <2>1. ASSUME NEW b PROVE Successors(Function, b) = Successors(initial, b)
    <3>1. Function.code = initial.code /\ Function.blocks = initial.blocks
      BY <1>1 DEF Function
    <3> QED BY <3>1 DEF Successors
  <2> QED BY <1>1, <2>1 DEF EdgesInv, SuccessorsKept
<1>10. RoundInv
  <2>1. \A b \in DOMAIN blocks : b \in Nat /\ ~(b < 1)
    BY <1>1, <1>3
  <2>2. \A b \in DOMAIN blocks : \A k \in DOMAIN blocks[b] : ~Scanned(b, k)
    BY <1>2, <2>1 DEF Scanned
  <2>3. changed \in BOOLEAN /\ ~changed
    BY <1>2, Zenon
  <2> QED BY <1>2, <2>1, <2>2, <2>3 DEF RoundInv
<1> QED BY <1>5, <1>6, <1>8, <1>9, <1>10 DEF PeepholeInv

\* The invariant is inductive.
LEMMA PeepholeStep == PeepholeInv /\ [PeepholeNext]_allVars => PeepholeInv'
<1> SUFFICES ASSUME PeepholeInv, [PeepholeNext]_allVars PROVE PeepholeInv'
  OBVIOUS
<1>1. CASE PruneDead \/ EraseMove \/ EraseJump
  BY <1>1, ErasingKeepsInv
<1>2. CASE Rewrite \/ ClearSecond \/ SetOpcode
  BY <1>2, RewritingKeepsInv
<1>3. CASE StartScan \/ Keep \/ NextBlock \/ NextIteration \/ Finish
  BY <1>3, WalkKeepsInv
<1>4. CASE UNCHANGED allVars
  <2>1. /\ code' = code /\ blocks' = blocks /\ initial' = initial /\ block' = block /\ phase' = phase
        /\ at' = at /\ changed' = changed /\ iteration' = iteration
    BY <1>4 DEF allVars, vars, place
  <2>2. Coded /\ Placed /\ CursorInv /\ EdgesInv /\ RoundInv
    BY DEF PeepholeInv
  <2>3. /\ Coded' /\ Placed' /\ EdgesInv'
        /\ \A b : DeadPlaces(b)' = DeadPlaces(b)
        /\ \A b, k : (Tidy(b, k)' <=> Tidy(b, k)) /\ (RedundantMove(b, k)' <=> RedundantMove(b, k))
    BY <2>1, <2>2, NothingWritten
  <2>4. CursorInv'
    BY <2>1, <2>2, <2>3 DEF CursorInv, Current
  <2>5. RoundInv'
    BY <2>1, <2>2, <2>3 DEF RoundInv, Scanned
  <2> QED BY <2>3, <2>4, <2>5 DEF PeepholeInv
<1> QED BY <1>1, <1>2, <1>3, <1>4 DEF PeepholeNext

\* MirPeepholePass: no edge of the control flow graph comes or goes, whatever the
\* function: what is behind a terminator leads nowhere, and a jump that is
\* dropped led to where its block falls through.
THEOREM PeepholeAlwaysKeepsEdges == PeepholeSpec => []SuccessorsKept
<1>1. PeepholeInv => SuccessorsKept
  BY DEF PeepholeInv, EdgesInv
<1> QED BY PeepholeInitInv, PeepholeStep, <1>1, PTL DEF PeepholeSpec

\* MirPeepholePass::run: three rounds are enough for every function, so that the
\* limit on them is never what ends the pass; then nothing is left to simplify.
THEOREM PeepholeAlwaysEndsAtFixpoint == PeepholeSpec => []EndsAtFixpoint
<1>1. PeepholeInv => EndsAtFixpoint
  <2> SUFFICES ASSUME PeepholeInv PROVE EndsAtFixpoint
    OBVIOUS
  <2>1. Placed /\ CursorInv /\ RoundInv
    BY DEF PeepholeInv
  <2>2. iteration <= 3
    BY <2>1 DEF RoundInv
  <2>3. ASSUME phase = "done", NEW b \in DOMAIN blocks
        PROVE  /\ DeadPlaces(b) = {}
               /\ \A k \in DOMAIN blocks[b] : Tidy(b, k) /\ ~RedundantMove(b, k)
    <3>1. block = Len(blocks) /\ at > Len(blocks[block]) /\ (~changed \/ iteration > 1) /\ DeadPlaces(block) = {}
      BY <2>1, <2>3 DEF CursorInv
    <3>2. b \in 1 .. Len(blocks) /\ Len(blocks) \in Nat /\ at \in Nat
      BY <2>1, SizesOf DEF CursorInv
    <3>3. b < block \/ b = block
      BY <3>1, <3>2
    <3>4. DeadPlaces(b) = {}
      BY <2>1, <3>1, <3>3 DEF RoundInv
    <3>5. ASSUME NEW k \in DOMAIN blocks[b] PROVE Scanned(b, k)
      <4>1. k \in Nat /\ k <= Len(blocks[b]) /\ Len(blocks[b]) \in Nat
        BY <2>1, SizesOf
      <4> QED BY <2>3, <3>1, <3>2, <3>3, <4>1 DEF Scanned
    <3> QED BY <2>1, <3>1, <3>4, <3>5 DEF RoundInv
  <2> QED BY <2>2, <2>3 DEF EndsAtFixpoint, Tidy
<1> QED BY PeepholeInitInv, PeepholeStep, <1>1, PTL DEF PeepholeSpec
=============================================================================
