--------------------------- MODULE CodeFlow_proofs ---------------------------
(***************************************************************************)
(* The control flow graph of every function, of any number of blocks with  *)
(* any bodies: it is the control flow of the code, selection keeps its     *)
(* edges on x86-64, and the published lists are in the order of the ids.   *)
(* At the end, the selection of a function with phis (PhiElimination): its *)
(* rounds over these blocks leave nothing unselected.                      *)
(***************************************************************************)
EXTENDS CodeFlow, PhiElimination, FiniteSetTheorems, WellFoundedInduction, TLAPS

-----------------------------------------------------------------------------
(* What the flags say of an instruction.                                   *)

\* The scan of a block ends at this instruction.
Ends(op) ==
    IF "IsBranch" \in Flags(op) THEN "ReadsCPUFlags" \notin Flags(op)
    ELSE "IsReturn" \in Flags(op) \/ "IsTerminator" \in Flags(op)

\* The flags say of an instruction what it does: an instruction that names
\* blocks is a branch, and the scan ends where control does not go on.
Agrees(i) ==
    /\ i \in Instructions
    /\ "IsBranch" \notin Flags(i.op) => i.to = << >>
    /\ Continues(i.op) <=> ~Ends(i.op)

\* Of all instructions, only two of RISC-V are described otherwise.
LEMMA FlagsAreRight ==
    ASSUME NEW op \in (GenericOps \cup TargetOps) \ {"bne", "jalr"}
    PROVE  Continues(op) <=> ~Ends(op)
<1>1. CASE op \in {"JMP", "BR_COND", "TRY", "jmp"}
  BY <1>1 DEF Continues, Ends, Flags
<1>2. CASE op \in {"RET", "x86 ret"}
  BY <1>2 DEF Continues, Ends, Flags
<1>3. CASE op \in {"THROW", "jne", "jal", "riscv ret"}
  BY <1>3 DEF Continues, Ends, Flags
<1>4. CASE op \notin {"JMP", "BR_COND", "TRY", "jmp", "RET", "x86 ret", "THROW", "jne", "jal", "riscv ret"}
  BY <1>4 DEF Continues, Ends, Flags
<1> QED
  BY <1>1, <1>2, <1>3, <1>4

LEMMA NamesNothing == << >> \in Seq(Blocks)
OBVIOUS

\* The instructions of a function before selection.
LEMMA BodyInstruction ==
    ASSUME NEW body \in Bodies, NEW k \in DOMAIN body
    PROVE  /\ body \in Seq(Instructions) /\ body[k] \in Instructions
           /\ body[k].op \in GenericOps
           /\ Agrees(body[k])
           /\ Len(body[k].to) = CASE body[k].op = "JMP" -> 1
                                  [] body[k].op \in {"BR_COND", "TRY"} -> 2
                                  [] OTHER -> 0
<1>1. body \in Seq(Instructions)
  BY BodiesAssumption
<1>2. body[k] \in Instructions
  BY <1>1
<1>3. body[k].op \in GenericOps
  BY BodiesAssumption
<1>4. body[k].op \in (GenericOps \cup TargetOps) \ {"bne", "jalr"} /\ body[k].to \in Seq(Blocks)
  BY <1>2, <1>3 DEF Instructions, GenericOps
<1>5. Len(body[k].to) = CASE body[k].op = "JMP" -> 1
                          [] body[k].op \in {"BR_COND", "TRY"} -> 2
                          [] OTHER -> 0
  BY BodiesAssumption
<1>6. "IsBranch" \notin Flags(body[k].op) => body[k].to = << >>
  <2> SUFFICES ASSUME "IsBranch" \notin Flags(body[k].op) PROVE body[k].to = << >>
    OBVIOUS
  <2>1. body[k].op \notin {"JMP", "BR_COND", "TRY"}
    BY DEF Flags
  <2>2. Len(body[k].to) = 0
    BY <1>5, <2>1
  <2> QED
    BY <1>4, <2>2
<1>7. Continues(body[k].op) <=> ~Ends(body[k].op)
  BY <1>4, FlagsAreRight
<1> QED
  BY <1>1, <1>2, <1>3, <1>5, <1>6, <1>7 DEF Agrees

\* What selection puts in the place of a generic instruction: instructions.
LEMMA SelectedType ==
    ASSUME NEW body \in Bodies, NEW k \in DOMAIN body
    PROVE  SelectedCode(body[k]) \in Seq(Instructions)
<1> DEFINE i == body[k]
<1>1. i \in Instructions /\ i.op \in GenericOps /\ i.to \in Seq(Blocks)
      /\ Len(i.to) = CASE i.op = "JMP" -> 1 [] i.op \in {"BR_COND", "TRY"} -> 2 [] OTHER -> 0
  BY BodyInstruction DEF Instructions
<1> HIDE DEF i
<1>2. ASSUME NEW op \in TargetOps
      PROVE  I(op, << >>) \in Instructions
  BY NamesNothing, Zenon DEF I, Instructions
<1>3. ASSUME NEW op \in TargetOps, NEW b \in Blocks
      PROVE  I(op, <<b>>) \in Instructions
  <2>1. <<b>> \in Seq(Blocks)
    OBVIOUS
  <2> QED
    BY <2>1, Zenon DEF I, Instructions
<1>4. CASE i.op = "BR_COND"
  <2>1. i.to[1] \in Blocks /\ i.to[2] \in Blocks
    BY <1>1, <1>4
  <2>2. PICK cmp \in Instructions : cmp = I("cmp", << >>)
    BY <1>2 DEF TargetOps
  <2>3. PICK jne \in Instructions : jne = I("jne", <<i.to[1]>>)
    BY <1>3, <2>1 DEF TargetOps
  <2>4. PICK jmp \in Instructions : jmp = I("jmp", <<i.to[2]>>)
    BY <1>3, <2>1 DEF TargetOps
  <2>5. PICK bne \in Instructions : bne = I("bne", <<i.to[1]>>)
    BY <1>3, <2>1 DEF TargetOps
  <2>6. PICK jal \in Instructions : jal = I("jal", <<i.to[2]>>)
    BY <1>3, <2>1 DEF TargetOps
  <2>7. SelectedCode(i) = <<cmp, jne, jmp>> \/ SelectedCode(i) = <<bne, jal>>
    BY <1>4, <2>2, <2>3, <2>4, <2>5, <2>6 DEF SelectedCode, BranchCode
  <2>8. <<cmp, jne, jmp>> \in Seq(Instructions) /\ <<bne, jal>> \in Seq(Instructions)
    OBVIOUS
  <2> QED
    BY <2>7, <2>8 DEF i
<1>5. CASE i.op \in {"JMP", "TRY"}
  <2>1. i.to[1] \in Blocks
    BY <1>1, <1>5
  <2>2. PICK jmp \in Instructions : jmp = I("jmp", <<i.to[1]>>)
    BY <1>3, <2>1 DEF TargetOps
  <2>3. PICK jal \in Instructions : jal = I("jal", <<i.to[1]>>)
    BY <1>3, <2>1 DEF TargetOps
  <2>4. SelectedCode(i) = <<jmp>> \/ SelectedCode(i) = <<jal>>
    BY <1>5, <2>2, <2>3 DEF SelectedCode
  <2>5. <<jmp>> \in Seq(Instructions) /\ <<jal>> \in Seq(Instructions)
    OBVIOUS
  <2> QED
    BY <2>4, <2>5 DEF i
<1>6. CASE i.op \in {"RET", "CALL", "THROW", "CALL indirect"}
  <2>1. PICK x \in Instructions : x = I("x86 ret", << >>)
    BY <1>2 DEF TargetOps
  <2>2. PICK r \in Instructions : r = I("riscv ret", << >>)
    BY <1>2 DEF TargetOps
  <2>3. PICK c \in Instructions : c = I("call", << >>)
    BY <1>2 DEF TargetOps
  <2>4. PICK j \in Instructions : j = I("jalr", << >>)
    BY <1>2 DEF TargetOps
  <2>5. \/ SelectedCode(i) = <<x>> \/ SelectedCode(i) = <<r>>
        \/ SelectedCode(i) = <<c>> \/ SelectedCode(i) = <<j>>
    BY <1>6, <2>1, <2>2, <2>3, <2>4 DEF SelectedCode
  <2>6. /\ <<x>> \in Seq(Instructions) /\ <<r>> \in Seq(Instructions)
        /\ <<c>> \in Seq(Instructions) /\ <<j>> \in Seq(Instructions)
    OBVIOUS
  <2> QED
    BY <2>5, <2>6 DEF i
<1>7. CASE i.op \notin {"BR_COND", "JMP", "TRY", "RET", "CALL", "THROW", "CALL indirect"}
  <2>1. SelectedCode(i) = <<i>>
    BY <1>7 DEF SelectedCode
  <2> QED
    BY <1>1, <2>1 DEF i
<1> QED
  BY <1>4, <1>5, <1>6, <1>7

\* What selection for x86-64 puts there: instructions whose flags are right,
\* which go on if the generic one did.
LEMMA SelectedInstructions ==
    ASSUME Target = "x86_64", NEW body \in Bodies, NEW k \in DOMAIN body
    PROVE  /\ SelectedCode(body[k]) \in Seq(Instructions)
           /\ \A j \in DOMAIN SelectedCode(body[k]) : Agrees(SelectedCode(body[k])[j])
           /\ Continues(body[k].op) =>
                 \A j \in DOMAIN SelectedCode(body[k]) : Continues(SelectedCode(body[k])[j].op)
<1> DEFINE i == body[k]
<1>1. i \in Instructions /\ i.op \in GenericOps /\ i.to \in Seq(Blocks) /\ Agrees(i)
      /\ Len(i.to) = CASE i.op = "JMP" -> 1 [] i.op \in {"BR_COND", "TRY"} -> 2 [] OTHER -> 0
  BY BodyInstruction DEF Instructions
<1> HIDE DEF i
<1>2. ASSUME NEW op \in {"cmp", "call", "x86 ret"}
      PROVE  I(op, << >>) \in Instructions /\ Agrees(I(op, << >>))
  <2>0. op \in (GenericOps \cup TargetOps) \ {"bne", "jalr"}
    BY DEF TargetOps
  <2>1. I(op, << >>) \in Instructions
    <3>1. << >> \in Seq(Blocks)
      BY NamesNothing, Zenon
    <3> QED
      BY ONLY <2>0, <3>1 DEF I, Instructions
  <2>2. I(op, << >>).op = op /\ I(op, << >>).to = << >>
    BY DEF I
  <2>3. Continues(op) <=> ~Ends(op)
    BY ONLY <2>0, FlagsAreRight
  <2> QED
    BY <2>1, <2>2, <2>3 DEF Agrees
<1>3. ASSUME NEW op \in {"jmp", "jne"}, NEW b \in Blocks
      PROVE  I(op, <<b>>) \in Instructions /\ Agrees(I(op, <<b>>))
  <2>0. op \in (GenericOps \cup TargetOps) \ {"bne", "jalr"}
    BY DEF TargetOps
  <2>1. I(op, <<b>>) \in Instructions
    <3>1. <<b>> \in Seq(Blocks)
      OBVIOUS
    <3> QED
      BY <2>0, <3>1 DEF I, Instructions
  <2>2. I(op, <<b>>).op = op
    BY DEF I
  <2>3. Continues(op) <=> ~Ends(op)
    BY ONLY <2>0, FlagsAreRight
  <2>4. "IsBranch" \in Flags(op)
    BY DEF Flags
  <2> QED
    BY <2>1, <2>2, <2>3, <2>4 DEF Agrees
<1>4. CASE i.op = "BR_COND"
  <2>1. i.to[1] \in Blocks /\ i.to[2] \in Blocks
    BY <1>1, <1>4
  <2>2. SelectedCode(i) = <<I("cmp", << >>), I("jne", <<i.to[1]>>), I("jmp", <<i.to[2]>>)>>
    BY <1>4 DEF SelectedCode, BranchCode
  <2>3. ~Continues(i.op)
    BY <1>4 DEF Continues
  <2>4. /\ I("cmp", << >>) \in Instructions /\ Agrees(I("cmp", << >>))
        /\ I("jne", <<i.to[1]>>) \in Instructions /\ Agrees(I("jne", <<i.to[1]>>))
        /\ I("jmp", <<i.to[2]>>) \in Instructions /\ Agrees(I("jmp", <<i.to[2]>>))
    BY <1>2, <1>3, <2>1
  <2> QED
    BY <2>2, <2>3, <2>4 DEF i
<1>5. CASE i.op \in {"JMP", "TRY"}
  <2>1. i.to[1] \in Blocks
    BY <1>1, <1>5
  <2>2. SelectedCode(i) = <<I("jmp", <<i.to[1]>>)>>
    BY <1>5 DEF SelectedCode
  <2>3. ~Continues(i.op)
    BY <1>5 DEF Continues
  <2>4. I("jmp", <<i.to[1]>>) \in Instructions /\ Agrees(I("jmp", <<i.to[1]>>))
    BY <1>3, <2>1
  <2> QED
    BY <2>2, <2>3, <2>4 DEF i
<1>6. CASE i.op = "RET"
  <2>1. PICK ret : ret = I("x86 ret", << >>)
    OBVIOUS
  <2>2. SelectedCode(i) = <<ret>>
    BY <1>6, <2>1 DEF SelectedCode
  <2>3. ~Continues(i.op)
    BY <1>6 DEF Continues
  <2>4. ret \in Instructions /\ Agrees(ret)
    BY <1>2, <2>1
  <2> QED
    BY <2>2, <2>3, <2>4 DEF i
<1>7. CASE i.op \in {"CALL", "THROW", "CALL indirect"}
  <2>1. SelectedCode(i) = <<I("call", << >>)>>
    BY <1>7 DEF SelectedCode
  <2>2. Continues(I("call", << >>).op)
    BY DEF Continues, I
  <2>3. I("call", << >>) \in Instructions /\ Agrees(I("call", << >>))
    BY <1>2
  <2>4. DOMAIN SelectedCode(i) = {1} /\ SelectedCode(i)[1] = I("call", << >>)
    BY <2>1
  <2>5. SelectedCode(i) \in Seq(Instructions)
    BY <2>1, <2>3
  <2> QED
    BY <2>2, <2>3, <2>4, <2>5 DEF i
<1>8. CASE i.op \notin {"BR_COND", "JMP", "TRY", "RET", "CALL", "THROW", "CALL indirect"}
  <2>1. SelectedCode(i) = <<i>>
    BY <1>8 DEF SelectedCode
  <2> QED
    BY <1>1, <2>1 DEF i
<1> QED
  BY <1>4, <1>5, <1>6, <1>7, <1>8

-----------------------------------------------------------------------------
(* What FlattenSeq makes of the codes of the instructions of a block.      *)

\* A set of numbers that has 0, and with a number the next one, has them all.
LEMMA Induction ==
    ASSUME NEW T, 0 \in T, \A n \in Nat : n \in T => n + 1 \in T
    PROVE  Nat \subseteq T
<1> DEFINE R == {p \in Nat \X Nat : p[1] < p[2]}
           Missing == {n \in Nat : n \notin T}
<1>1. IsWellFoundedOn(R, Nat)
  BY NatLessThanWellFounded DEF OpToRel
<1> SUFFICES ASSUME Missing # {} PROVE FALSE
  OBVIOUS
<1>2. PICK n \in Missing : \A m \in Missing : ~ (<<m, n>> \in R)
  <2> HIDE DEF R, Missing
  <2>1. Missing \subseteq Nat
    BY DEF Missing
  <2> QED BY <1>1, <2>1, WFMin
<1> HIDE DEF R
<1>3. n \in Nat /\ n \notin T
  OBVIOUS
<1>4. n # 0 /\ n - 1 \in Nat
  BY <1>3
<1>5. n - 1 \in T
  <2>1. <<n - 1, n>> \in R
    BY <1>4 DEF R
  <2> QED BY <1>2, <1>4, <2>1
<1>6. n = (n - 1) + 1
  BY <1>3
<1> QED BY <1>3, <1>4, <1>5, <1>6


Codes == Seq(Seq(Instructions))

\* f[m] is the first m parts of s, one after the other.
Flattens(f, s, n) == f = [m \in 1 .. n |-> IF m = 1 THEN s[m] ELSE f[m - 1] \o s[m]]

LEMMA FlattenExists == ASSUME NEW s, NEW n \in Nat PROVE \E f : Flattens(f, s, n)
<1> DEFINE T == {k \in Nat : \E f : Flattens(f, s, k)}
<1>1. 0 \in T
  <2>1. Flattens([m \in 1 .. 0 |-> 0], s, 0)
    BY DEF Flattens
  <2> QED
    BY <2>1
<1>2. ASSUME NEW k \in Nat, k \in T PROVE k + 1 \in T
  <2>1. PICK f : Flattens(f, s, k)
    BY <1>2
  <2> DEFINE g == [m \in 1 .. k + 1 |-> IF m <= k THEN f[m]
                                        ELSE IF m = 1 THEN s[m] ELSE f[m - 1] \o s[m]]
  <2>2. Flattens(g, s, k + 1)
    <3>1. ASSUME NEW m \in 1 .. k + 1
          PROVE  g[m] = IF m = 1 THEN s[m] ELSE g[m - 1] \o s[m]
      <4>1. CASE m <= k
        <5>1. g[m] = f[m] /\ m \in 1 .. k
          BY <4>1
        <5>2. f[m] = IF m = 1 THEN s[m] ELSE f[m - 1] \o s[m]
          BY <2>1, <5>1 DEF Flattens
        <5>3. m # 1 => g[m - 1] = f[m - 1]
          BY <4>1
        <5> QED
          BY <5>1, <5>2, <5>3
      <4>2. CASE m = k + 1
        <5>1. g[m] = IF m = 1 THEN s[m] ELSE f[m - 1] \o s[m]
          BY <4>2
        <5>2. m # 1 => g[m - 1] = f[m - 1]
          BY <4>2
        <5> QED
          BY <5>1, <5>2
      <4> QED
        BY <4>1, <4>2
    <3>2. g = [m \in 1 .. k + 1 |-> g[m]]
      OBVIOUS
    <3> HIDE DEF g
    <3>3. g = [m \in 1 .. k + 1 |-> IF m = 1 THEN s[m] ELSE g[m - 1] \o s[m]]
      BY <3>1, <3>2
    <3> QED
      BY <3>3 DEF Flattens
  <2> QED
    BY <2>2
<1> HIDE DEF T
<1>3. Nat \subseteq T
  BY <1>1, <1>2, Induction
<1> QED
  BY <1>3 DEF T

\* Such an f, part by part.
LEMMA FlattenIs ==
    ASSUME NEW s \in Codes, s # << >>
    PROVE  \E f : /\ FlattenSeq(s) = f[Len(s)]
                  /\ f[1] = s[1]
                  /\ \A m \in 1 .. Len(s) - 1 : f[m + 1] = f[m] \o s[m + 1]
<1>1. Len(s) \in Nat /\ Len(s) # 0 /\ 1 \in 1 .. Len(s)
  BY DEF Codes
<1> DEFINE f == CHOOSE f : f = [i \in 1 .. Len(s) |-> IF i = 1 THEN s[i] ELSE f[i - 1] \o s[i]]
<1>2. FlattenSeq(s) = f[Len(s)]
  BY <1>1 DEF FlattenSeq
<1>3. f = [i \in 1 .. Len(s) |-> IF i = 1 THEN s[i] ELSE f[i - 1] \o s[i]]
  <2>1. \E h : h = [i \in 1 .. Len(s) |-> IF i = 1 THEN s[i] ELSE h[i - 1] \o s[i]]
    BY <1>1, FlattenExists DEF Flattens
  <2> QED
    BY <2>1
<1> HIDE DEF f
<1>4. f[1] = s[1]
  BY <1>1, <1>3
<1>5. ASSUME NEW m \in 1 .. Len(s) - 1
      PROVE  f[m + 1] = f[m] \o s[m + 1]
  <2>1. m + 1 \in 1 .. Len(s) /\ m + 1 # 1 /\ (m + 1) - 1 = m
    BY <1>1
  <2>2. f[m + 1] = IF m + 1 = 1 THEN s[m + 1] ELSE f[(m + 1) - 1] \o s[m + 1]
    BY <1>3, <2>1
  <2> QED
    BY <2>1, <2>2
<1> QED
  BY <1>2, <1>4, <1>5

\* Every element of flat is one of the first n parts of s.
From(flat, s, n) ==
    \A q \in 1 .. Len(flat) : \E a \in 1 .. n : \E j \in 1 .. Len(s[a]) : flat[q] = s[a][j]

\* Part n of s is in flat, from place o on, behind the parts before it.
PartAt(flat, s, n, o) ==
    /\ o + Len(s[n]) <= Len(flat)
    /\ \A j \in 1 .. Len(s[n]) : flat[o + j] = s[n][j]
    /\ \A q \in 1 .. o : \E a \in 1 .. n - 1 : \E j \in 1 .. Len(s[a]) : flat[q] = s[a][j]

\* flat is the first m parts of s in their order.
Flat(flat, s, m) ==
    /\ flat \in Seq(Instructions)
    /\ From(flat, s, m)
    /\ \A n \in 1 .. m : \E o \in Nat : PartAt(flat, s, n, o)

LEMMA ConcatIs ==
    ASSUME NEW f \in Seq(Instructions), NEW g \in Seq(Instructions)
    PROVE  /\ f \o g \in Seq(Instructions) /\ Len(f) \in Nat /\ Len(g) \in Nat
           /\ Len(f \o g) = Len(f) + Len(g)
           /\ \A q \in 1 .. Len(f) : (f \o g)[q] = f[q]
           /\ \A q \in 1 .. Len(g) : (f \o g)[Len(f) + q] = g[q]
OBVIOUS

LEMMA FlatStep ==
    ASSUME NEW s \in Codes, NEW m \in 1 .. Len(s) - 1, NEW f, Flat(f, s, m)
    PROVE  Flat(f \o s[m + 1], s, m + 1)
<1>1. s[m + 1] \in Seq(Instructions) /\ m \in Nat
  BY DEF Codes
<1>2. f \in Seq(Instructions)
  BY DEF Flat
<1>3. PICK g : g = s[m + 1]
  OBVIOUS
<1>4. PICK h : h = f \o g
  OBVIOUS
<1>5. /\ h \in Seq(Instructions) /\ Len(f) \in Nat /\ Len(g) \in Nat
      /\ Len(h) = Len(f) + Len(g)
      /\ \A q \in 1 .. Len(f) : h[q] = f[q]
      /\ \A q \in 1 .. Len(g) : h[Len(f) + q] = g[q]
  BY <1>1, <1>2, <1>3, <1>4, ConcatIs
<1>6. From(h, s, m + 1)
  <2> SUFFICES ASSUME NEW q \in 1 .. Len(h)
               PROVE  \E a \in 1 .. m + 1 : \E j \in 1 .. Len(s[a]) : h[q] = s[a][j]
    BY DEF From
  <2>1. CASE q <= Len(f)
    <3>1. q \in 1 .. Len(f) /\ h[q] = f[q]
      BY <1>5, <2>1
    <3>2. PICK a \in 1 .. m : \E j \in 1 .. Len(s[a]) : f[q] = s[a][j]
      BY <3>1 DEF Flat, From
    <3>3. a \in 1 .. m + 1
      BY <1>1
    <3> QED
      BY <3>1, <3>2, <3>3
  <2>2. CASE q > Len(f)
    <3>1. q - Len(f) \in 1 .. Len(g) /\ Len(f) + (q - Len(f)) = q
      BY <1>5, <2>2
    <3>2. h[q] = g[q - Len(f)]
      BY <1>5, <3>1
    <3>3. m + 1 \in 1 .. m + 1
      BY <1>1
    <3> QED
      BY <1>3, <3>1, <3>2, <3>3
  <2> QED
    BY <1>5, <2>1, <2>2
<1>7. ASSUME NEW n \in 1 .. m + 1
      PROVE  \E o \in Nat : PartAt(h, s, n, o)
  <2>1. CASE n \in 1 .. m
    <3>1. PICK o \in Nat : PartAt(f, s, n, o)
      BY <2>1 DEF Flat
    <3>2. s[n] \in Seq(Instructions)
      BY <2>1 DEF Codes
    <3>3. PICK len \in Nat : len = Len(s[n])
      BY <3>2
    <3>4. o + len <= Len(f) /\ \A q \in 1 .. o + len : h[q] = f[q]
      BY <1>5, <3>1, <3>3 DEF PartAt
    <3>5. \A j \in 1 .. len : h[o + j] = s[n][j]
      <4> SUFFICES ASSUME NEW j \in 1 .. len PROVE h[o + j] = s[n][j]
        OBVIOUS
      <4>1. o + j \in 1 .. o + len
        OBVIOUS
      <4> QED
        BY <3>1, <3>3, <3>4, <4>1 DEF PartAt
    <3>6. ASSUME NEW q \in 1 .. o
          PROVE  \E a \in 1 .. n - 1 : \E j \in 1 .. Len(s[a]) : h[q] = s[a][j]
      <4>1. q \in 1 .. o + len
        OBVIOUS
      <4>2. h[q] = f[q]
        BY <3>4, <4>1
      <4> QED
        BY <3>1, <4>2 DEF PartAt
    <3>7. o + len <= Len(h)
      BY <1>5, <3>4
    <3> QED
      BY <3>3, <3>5, <3>6, <3>7 DEF PartAt
  <2>2. CASE n = m + 1
    <3>1. Len(f) + Len(s[n]) <= Len(h) /\ \A j \in 1 .. Len(s[n]) : h[Len(f) + j] = s[n][j]
      BY <1>3, <1>5, <2>2
    <3>2. ASSUME NEW q \in 1 .. Len(f)
          PROVE  \E a \in 1 .. n - 1 : \E j \in 1 .. Len(s[a]) : h[q] = s[a][j]
      <4>1. PICK a \in 1 .. m : \E j \in 1 .. Len(s[a]) : f[q] = s[a][j]
        BY DEF Flat, From
      <4>2. a \in 1 .. n - 1 /\ h[q] = f[q]
        BY <1>1, <1>5, <2>2
      <4> QED
        BY <4>1, <4>2
    <3> QED
      BY <1>5, <3>1, <3>2 DEF PartAt
  <2> QED
    BY <1>1, <2>1, <2>2
<1> QED
  BY <1>3, <1>4, <1>5, <1>6, <1>7 DEF Flat

\* The flattened code holds the parts in their order and nothing else.
LEMMA FlattenIsFlat == ASSUME NEW s \in Codes PROVE Flat(FlattenSeq(s), s, Len(s))
<1>0. Len(s) \in Nat
  BY DEF Codes
<1>1. CASE s = << >>
  <2>1. FlattenSeq(s) = << >> /\ Len(s) = 0
    BY <1>1 DEF FlattenSeq
  <2>2. << >> \in Seq(Instructions) /\ Len(<< >>) = 0
    OBVIOUS
  <2> QED
    BY ONLY <2>1, <2>2 DEF Flat, From
<1>2. CASE s # << >>
  <2>1. PICK f : /\ FlattenSeq(s) = f[Len(s)]
                 /\ f[1] = s[1]
                 /\ \A m \in 1 .. Len(s) - 1 : f[m + 1] = f[m] \o s[m + 1]
    BY <1>2, FlattenIs
  <2>2. Len(s) # 0
    BY <1>2 DEF Codes
  <2> DEFINE T == {m \in Nat : m + 1 \in 1 .. Len(s) => Flat(f[m + 1], s, m + 1)}
  <2>3. 0 \in T
    <3>1. s[1] \in Seq(Instructions) /\ Len(s[1]) \in Nat
      BY <1>0, <2>2 DEF Codes
    <3>2. From(s[1], s, 1)
      BY DEF From
    <3>3. PartAt(s[1], s, 1, 0)
      BY <3>1 DEF PartAt
    <3>4. Flat(s[1], s, 1)
      BY <3>1, <3>2, <3>3 DEF Flat
    <3> QED
      BY <2>1, <3>4
  <2>4. ASSUME NEW m \in Nat, m \in T PROVE m + 1 \in T
    <3> SUFFICES ASSUME (m + 1) + 1 \in 1 .. Len(s)
                 PROVE  Flat(f[(m + 1) + 1], s, (m + 1) + 1)
      OBVIOUS
    <3>1. m + 1 \in 1 .. Len(s) - 1 /\ m + 1 \in 1 .. Len(s)
      BY <1>0
    <3>2. Flat(f[m + 1], s, m + 1)
      BY <2>4, <3>1
    <3>3. f[(m + 1) + 1] = f[m + 1] \o s[(m + 1) + 1]
      BY <2>1, <3>1
    <3> HIDE DEF T
    <3>4. Flat(f[m + 1] \o s[(m + 1) + 1], s, (m + 1) + 1)
      BY <3>1, <3>2, FlatStep
    <3> QED
      BY <3>3, <3>4
  <2> HIDE DEF T
  <2>5. Nat \subseteq T
    BY <2>3, <2>4, Induction
  <2>6. Len(s) - 1 \in Nat /\ (Len(s) - 1) + 1 = Len(s) /\ Len(s) \in 1 .. Len(s)
    BY <1>0, <2>2
  <2>7. Flat(f[Len(s)], s, Len(s))
    BY <2>5, <2>6 DEF T
  <2> QED
    BY <2>1, <2>7
<1> QED
  BY <1>1, <1>2

-----------------------------------------------------------------------------
(* The published list.                                                     *)

\* How many of ids are smaller than b.
Rank(ids, b) == Cardinality({c \in ids : c < b})

LEMMA BlocksFinite ==
    ASSUME NEW ids \in SUBSET Blocks
    PROVE  IsFiniteSet(ids) /\ Cardinality(ids) \in Nat /\ Cardinality(ids) <= NumBlocks
           /\ ids \subseteq Nat
<1>1. NumBlocks \in Int /\ 1 \in Int /\ NumBlocks >= 1
  BY NumBlocksAssumption
<1>2. IsFiniteSet(1 .. NumBlocks)
      /\ Cardinality(1 .. NumBlocks) = IF 1 > NumBlocks THEN 0 ELSE NumBlocks - 1 + 1
  BY ONLY <1>1, FS_Interval
<1>3. ids \in SUBSET (1 .. NumBlocks)
  BY DEF Blocks
<1>4. IsFiniteSet(ids) /\ Cardinality(ids) <= Cardinality(1 .. NumBlocks)
  BY <1>2, <1>3, FS_Subset
<1>5. Cardinality(ids) \in Nat
  BY <1>4, FS_CardinalityType
<1> QED
  BY <1>1, <1>2, <1>3, <1>4, <1>5

\* A larger id has a higher rank, below the number of ids.
LEMMA RankGrows ==
    ASSUME NEW ids \in SUBSET Blocks, NEW b \in ids
    PROVE  /\ Rank(ids, b) \in 0 .. Cardinality(ids) - 1
           /\ \A a \in ids : a < b => Rank(ids, a) < Rank(ids, b)
<1> DEFINE Below(x) == {c \in ids : c < x}
<1>1. IsFiniteSet(ids) /\ Cardinality(ids) \in Nat /\ ids \subseteq Nat
  BY BlocksFinite
<1>2. ASSUME NEW x PROVE IsFiniteSet(Below(x)) /\ Cardinality(Below(x)) \in Nat
  <2>1. Below(x) \in SUBSET ids
    OBVIOUS
  <2> QED
    BY <1>1, <2>1, FS_Subset, FS_CardinalityType
<1>3. Cardinality(Below(b)) + 1 <= Cardinality(ids)
  <2>1. b \notin Below(b) /\ Below(b) \cup {b} \in SUBSET ids
    BY <1>1
  <2>2. Cardinality(Below(b) \cup {b}) = Cardinality(Below(b)) + 1
    BY <1>2, <2>1, FS_AddElement
  <2>3. Cardinality(Below(b) \cup {b}) <= Cardinality(ids)
    BY <1>1, <2>1, FS_Subset
  <2> QED
    BY <2>2, <2>3
<1>4. ASSUME NEW a \in ids, a < b
      PROVE  Cardinality(Below(a)) < Cardinality(Below(b))
  <2>1. a \notin Below(a) /\ Below(a) \cup {a} \in SUBSET Below(b)
    <3>1. a \in Nat /\ b \in Nat /\ ~(a < a)
      BY <1>1
    <3>2. \A c \in ids : c < a => c < b
      BY <1>1, <1>4, <3>1
    <3> QED
      BY <1>4, <3>1, <3>2
  <2>2. Cardinality(Below(a) \cup {a}) = Cardinality(Below(a)) + 1
    BY <1>2, <2>1, FS_AddElement
  <2>3. Cardinality(Below(a) \cup {a}) <= Cardinality(Below(b))
    BY <1>2, <2>1, FS_Subset
  <2> QED
    BY <1>2, <2>2, <2>3
<1>5. Cardinality(Below(b)) \in 0 .. Cardinality(ids) - 1
  BY <1>1, <1>2, <1>3
<1> QED
  BY <1>4, <1>5 DEF Rank

\* Every rank below the number of ids is that of one id.
LEMMA RankTaken ==
    ASSUME NEW ids \in SUBSET Blocks, NEW k \in 1 .. Cardinality(ids)
    PROVE  \E b \in ids : Rank(ids, b) = k - 1
<1> DEFINE n == Cardinality(ids)
           f == [b \in ids |-> Rank(ids, b)]
<1>1. n \in Nat /\ n >= 1 /\ ids \subseteq Nat
  BY BlocksFinite
<1>2. IsFiniteSet(0 .. n - 1) /\ Cardinality(0 .. n - 1) = n
  <2>1. 0 \in Int /\ n - 1 \in Int /\ ~(0 > n - 1) /\ (n - 1) - 0 + 1 = n
    BY <1>1
  <2>2. IsFiniteSet(0 .. n - 1)
        /\ Cardinality(0 .. n - 1) = IF 0 > n - 1 THEN 0 ELSE (n - 1) - 0 + 1
    BY ONLY <2>1, FS_Interval
  <2> QED
    BY <2>1, <2>2
<1>3. f \in [ids -> 0 .. n - 1]
  BY RankGrows
<1>4. \A a, b \in ids : f[a] = f[b] => a = b
  <2> SUFFICES ASSUME NEW a \in ids, NEW b \in ids, a # b PROVE f[a] # f[b]
    OBVIOUS
  <2>1. a < b \/ b < a
    BY <1>1
  <2>2. Rank(ids, a) \in Int /\ Rank(ids, b) \in Int
    BY RankGrows, <1>1
  <2>3. Rank(ids, a) < Rank(ids, b) \/ Rank(ids, b) < Rank(ids, a)
    BY <2>1, RankGrows
  <2> QED
    BY <2>2, <2>3
<1>5. f \in Injection(ids, 0 .. n - 1)
  BY <1>3, <1>4 DEF Injection, IsInjective
<1> HIDE DEF f
<1>6. f \in Surjection(ids, 0 .. n - 1)
  BY <1>2, <1>5, FS_Injection
<1>7. k - 1 \in 0 .. n - 1
  BY <1>1
<1>8. PICK b \in ids : f[b] = k - 1
  BY <1>6, <1>7 DEF Surjection
<1> QED
  BY <1>8 DEF f

\* insertSortedUnique: the list has the ids and nothing else, in their order.
LEMMA OrderIsRight ==
    ASSUME NEW ids \in SUBSET Blocks
    PROVE  /\ InIdOrder(ids) \in [1 .. Cardinality(ids) -> ids]
           /\ ToSet(InIdOrder(ids)) = ids
           /\ \A j, k \in DOMAIN InIdOrder(ids) : j < k => InIdOrder(ids)[j] < InIdOrder(ids)[k]
<1> DEFINE n == Cardinality(ids)
           s == InIdOrder(ids)
<1>1. n \in Nat /\ ids \subseteq Nat
  BY BlocksFinite
<1>2. DOMAIN s = 1 .. n
      /\ \A k \in 1 .. n : s[k] = CHOOSE b \in ids : Rank(ids, b) = k - 1
  BY DEF InIdOrder, Rank
<1>3. ASSUME NEW k \in 1 .. n
      PROVE  s[k] \in ids /\ Rank(ids, s[k]) = k - 1
  BY <1>2, RankTaken
<1>4. s \in [1 .. n -> ids]
  <2>1. ASSUME NEW k \in 1 .. n
        PROVE  (CHOOSE b \in ids : Cardinality({c \in ids : c < b}) = k - 1) \in ids
    BY RankTaken DEF Rank
  <2>2. [k \in 1 .. n |-> CHOOSE b \in ids : Cardinality({c \in ids : c < b}) = k - 1]
           \in [1 .. n -> ids]
    BY <2>1
  <2> QED
    BY <2>2 DEF InIdOrder
<1> HIDE DEF s, n
<1>5. ASSUME NEW b \in ids PROVE \E k \in 1 .. n : s[k] = b
  <2>1. Rank(ids, b) \in 0 .. n - 1
    BY RankGrows DEF n
  <2>2. PICK k \in 1 .. n : k = Rank(ids, b) + 1
    BY <1>1, <2>1
  <2>3. s[k] \in ids /\ Rank(ids, s[k]) = Rank(ids, b)
    BY <1>3, <2>1, <2>2
  <2>4. ~(s[k] < b) /\ ~(b < s[k])
    BY <2>1, <2>3, RankGrows
  <2>5. s[k] \in Nat /\ b \in Nat
    BY <1>1, <2>3
  <2> QED
    BY <2>4, <2>5
<1>6. ToSet(s) = ids
  BY <1>4, <1>5 DEF ToSet
<1>7. ASSUME NEW j \in 1 .. n, NEW k \in 1 .. n, j < k
      PROVE  s[j] < s[k]
  <2>1. Rank(ids, s[j]) < Rank(ids, s[k]) /\ s[j] \in ids /\ s[k] \in ids
    BY <1>1, <1>3, <1>7
  <2>2. s[j] # s[k] /\ ~(s[k] < s[j])
    <3>1. Rank(ids, s[j]) \in Int /\ Rank(ids, s[k]) \in Int
      BY <1>1, <1>3
    <3> QED
      BY <2>1, <3>1, RankGrows
  <2>3. s[j] \in Nat /\ s[k] \in Nat
    BY <1>1, <2>1
  <2> QED
    BY <2>2, <2>3
<1> QED
  BY <1>2, <1>4, <1>6, <1>7 DEF s, n

-----------------------------------------------------------------------------
(* The inductive invariant.                                                *)

\* The flags of the code are right: before selection, and after it on x86-64.
Trusted == ~selected \/ Target = "x86_64"

\* No block begins an exception region.
NoTry == \A body \in Bodies : \A k \in DOMAIN body : body[k].op # "TRY"

CodeInv ==
    /\ code \in [Blocks -> Seq(Instructions)]
    /\ ~selected => code \in [Blocks -> Bodies]
    /\ Trusted => \A b \in Blocks : \A k \in DOMAIN code[b] : Agrees(code[b][k])

PhaseInv ==
    /\ TypeOK
    /\ before \in [Blocks -> SUBSET Blocks]
    /\ phase # "scan" => pc = 1
    /\ phase = "done" => blk = 1

\* The blocks the first n instructions of block b name.
Named(b, n) == UNION {ToSet(code[b][k].to) : k \in 1 .. n}

\* The scan has found the flow of the blocks behind it, and of its own block
\* what the instructions up to pc name; control goes on from all of those.
FlowInv ==
    Trusted =>
        /\ \A b \in Blocks : phase # "scan" \/ b < blk => succ[b] = Flow(b)
        /\ phase = "scan" =>
              /\ \A b \in Blocks : b > blk => succ[b] = {}
              /\ succ[blk] = Named(blk, pc - 1)
              /\ \A j \in 1 .. pc - 1 : Continues(code[blk][j].op)

\* The two maps of the pass hold the same edges.
EdgeInv == \A b, p \in Blocks : p \in pred[b] <=> b \in succ[p]

PublishInv ==
    \A b \in Blocks :
        phase = "done" \/ (phase = "publish" /\ b < blk) => published[b] = InIdOrder(pred[b])

SelectInv ==
    selected /\ Target = "x86_64" /\ NoTry => \A b \in Blocks : before[b] \subseteq Flow(b)

Inv == CodeInv /\ PhaseInv /\ FlowInv /\ EdgeInv /\ PublishInv /\ SelectInv

-----------------------------------------------------------------------------
(* The flow of a block.                                                    *)

\* The scan of a block ends at an instruction control does not go on from.
LEMMA FlowToEnd ==
    ASSUME NEW b \in Blocks, CodeInv, NEW n \in 1 .. Len(code[b]),
           \A j \in 1 .. n - 1 : Continues(code[b][j].op),
           ~Continues(code[b][n].op)
    PROVE  Flow(b) = Named(b, n)
<1>1. code[b] \in Seq(Instructions) /\ Len(code[b]) \in Nat /\ DOMAIN code[b] = 1 .. Len(code[b])
  BY DEF CodeInv
<1>2. Reached(b) = 1 .. n
  <2>1. ASSUME NEW k \in 1 .. n PROVE k \in Reached(b)
    BY <1>1 DEF Reached
  <2>2. ASSUME NEW k \in Reached(b) PROVE k \in 1 .. n
    <3>1. k \in 1 .. Len(code[b]) /\ \A j \in 1 .. k - 1 : Continues(code[b][j].op)
      BY <1>1 DEF Reached
    <3>2. ~(n \in 1 .. k - 1)
      BY <3>1
    <3> QED
      BY <1>1, <3>1, <3>2
  <2> QED
    BY <2>1, <2>2
<1>3. ~ \A k \in DOMAIN code[b] : Continues(code[b][k].op)
  BY <1>1
<1> QED
  BY <1>2, <1>3 DEF Flow, Named

\* ... or falls through to the next block.
LEMMA FlowThrough ==
    ASSUME NEW b \in Blocks, CodeInv,
           \A j \in 1 .. Len(code[b]) : Continues(code[b][j].op)
    PROVE  Flow(b) = Named(b, Len(code[b])) \cup FallsInto(b)
<1>1. code[b] \in Seq(Instructions) /\ Len(code[b]) \in Nat /\ DOMAIN code[b] = 1 .. Len(code[b])
  BY DEF CodeInv
<1>2. Reached(b) = 1 .. Len(code[b])
  BY <1>1 DEF Reached
<1>3. Blocks \cap {b + 1} = FallsInto(b)
  BY NumBlocksAssumption DEF Blocks, FallsInto
<1>4. \A k \in DOMAIN code[b] : Continues(code[b][k].op)
  BY <1>1
<1> QED
  BY <1>2, <1>3, <1>4 DEF Flow, Named

\* One more instruction.
LEMMA NamedStep ==
    ASSUME NEW b, NEW n \in Nat, n >= 1
    PROVE  Named(b, n) = Named(b, n - 1) \cup ToSet(code[b][n].to)
<1>1. 1 .. n = (1 .. n - 1) \cup {n}
  OBVIOUS
<1> QED
  BY <1>1 DEF Named

LEMMA NamedNothing == ASSUME NEW b PROVE Named(b, 0) = {}
BY DEF Named

\* A block that an instruction names is a block.
LEMMA NamesBlocks ==
    ASSUME NEW i \in Instructions
    PROVE  ToSet(i.to) \in SUBSET Blocks
BY DEF Instructions, ToSet

-----------------------------------------------------------------------------
(* The steps.                                                              *)

LEMMA InitInv == Init => Inv
<1> SUFFICES ASSUME Init PROVE Inv
  OBVIOUS
<1>1. NumBlocks >= 1 /\ 1 \in Blocks
  BY NumBlocksAssumption DEF Blocks
<1>2. CodeInv
  <2>1. code \in [Blocks -> Bodies] /\ Bodies \subseteq Seq(Instructions)
    BY BodiesAssumption DEF Init
  <2>2. \A b \in Blocks : \A k \in DOMAIN code[b] : Agrees(code[b][k])
    BY <2>1, BodyInstruction
  <2>3. code \in [Blocks -> Seq(Instructions)]
    BY <2>1
  <2> QED
    BY <2>1, <2>2, <2>3 DEF CodeInv
<1>3. PhaseInv
  <2>1. << >> \in Lists
    <3>1. 0 \in 0 .. NumBlocks /\ << >> \in [1 .. 0 -> Blocks]
      BY NumBlocksAssumption
    <3> QED
      BY <3>1 DEF Lists
  <2>2. published \in [Blocks -> Lists]
    BY <2>1 DEF Init, NoLists
  <2>3. Len(code[1]) \in Nat
    BY <1>1, <1>2 DEF CodeInv
  <2>4. NoEdges \in [Blocks -> SUBSET Blocks]
    BY DEF NoEdges
  <2>5. blk = 1 /\ pc = 1 /\ phase = "scan" /\ selected = FALSE
        /\ succ = NoEdges /\ pred = NoEdges /\ before = NoEdges
    BY DEF Init
  <2>6. 1 \in 1 .. Len(code[1]) + 1
    BY <2>3
  <2>7. TypeOK
    BY <1>1, <2>2, <2>4, <2>5, <2>6 DEF TypeOK
  <2> QED
    BY <2>4, <2>5, <2>7 DEF PhaseInv
<1>4. FlowInv
  <2>1. succ[blk] = {} /\ Named(blk, 0) = {} /\ pc - 1 = 0
    BY <1>1, NamedNothing DEF Init, NoEdges
  <2>2. \A b \in Blocks : succ[b] = {} /\ ~(b < blk)
    BY NumBlocksAssumption DEF Init, NoEdges, Blocks
  <2> QED
    BY <2>1, <2>2 DEF Init, FlowInv
<1> QED
  BY <1>2, <1>3, <1>4 DEF Init, Inv, EdgeInv, PublishInv, SelectInv, NoEdges

\* Steps that leave the code alone leave its flow.
LEMMA FlowUnchanged ==
    ASSUME UNCHANGED code
    PROVE  /\ \A b : Flow(b)' = Flow(b)
           /\ \A b, n : Named(b, n)' = Named(b, n)
BY DEF Flow, Reached, Named

\* AddEdges adds each edge to both maps.
LEMMA EdgesAdded ==
    ASSUME EdgeInv, PhaseInv, NEW to \in SUBSET Blocks, AddEdges(blk, to)
    PROVE  /\ EdgeInv' /\ succ' \in [Blocks -> SUBSET Blocks] /\ pred' \in [Blocks -> SUBSET Blocks]
           /\ succ'[blk] = succ[blk] \cup to
           /\ \A b \in Blocks : b # blk => succ'[b] = succ[b]
<1>1. blk \in Blocks /\ succ \in [Blocks -> SUBSET Blocks] /\ pred \in [Blocks -> SUBSET Blocks]
  BY DEF PhaseInv, TypeOK
<1>2. /\ succ' = [succ EXCEPT ![blk] = succ[blk] \cup to]
      /\ pred' = [b \in Blocks |-> IF b \in to THEN pred[b] \cup {blk} ELSE pred[b]]
  BY DEF AddEdges
<1>3. succ'[blk] = succ[blk] \cup to /\ \A b \in Blocks : b # blk => succ'[b] = succ[b]
  BY <1>1, <1>2
<1>4. succ' \in [Blocks -> SUBSET Blocks]
  BY <1>1, <1>2
<1>5. pred' \in [Blocks -> SUBSET Blocks]
  BY <1>1, <1>2
<1>6. ASSUME NEW b \in Blocks, NEW p \in Blocks
      PROVE  p \in pred'[b] <=> b \in succ'[p]
  <2>1. p \in pred[b] <=> b \in succ[p]
    BY DEF EdgeInv
  <2>2. pred'[b] = IF b \in to THEN pred[b] \cup {blk} ELSE pred[b]
    BY <1>2
  <2>3. CASE p = blk
    BY <1>3, <2>1, <2>2, <2>3
  <2>4. CASE p # blk
    BY <1>3, <2>1, <2>2, <2>4
  <2> QED
    BY <2>3, <2>4
<1> QED
  BY <1>3, <1>4, <1>5, <1>6 DEF EdgeInv

\* NextBlock keeps the shape.
LEMMA NextBlockTyped ==
    ASSUME CodeInv, PhaseInv, phase = "scan", NextBlock, UNCHANGED code
    PROVE  /\ blk' \in Blocks /\ pc' = 1 /\ pc' \in 1 .. Len(code'[blk']) + 1
           /\ \/ phase' = "scan" /\ blk < NumBlocks /\ blk' = blk + 1
              \/ phase' = "publish" /\ blk = NumBlocks /\ blk' = 1
<1>1. blk \in 1 .. NumBlocks /\ NumBlocks \in Nat /\ NumBlocks >= 1
  BY NumBlocksAssumption DEF PhaseInv, TypeOK, Blocks
<1>2. /\ pc' = 1
      /\ \/ phase' = "scan" /\ blk < NumBlocks /\ blk' = blk + 1
         \/ phase' = "publish" /\ blk = NumBlocks /\ blk' = 1
  BY <1>1 DEF NextBlock
<1>3. blk' \in Blocks
  BY <1>1, <1>2 DEF Blocks
<1>4. Len(code'[blk']) \in Nat
  BY <1>3 DEF CodeInv
<1> QED
  BY <1>2, <1>3, <1>4

\* When the scan leaves a block with its flow, the scan is right so far.
LEMMA NextBlockFlow ==
    ASSUME CodeInv, PhaseInv, FlowInv, phase = "scan", NextBlock, UNCHANGED <<code, selected>>,
           Trusted => succ'[blk] = Flow(blk),
           \A b \in Blocks : b # blk => succ'[b] = succ[b]
    PROVE  FlowInv'
<1> SUFFICES ASSUME Trusted PROVE FlowInv'
  BY DEF FlowInv, Trusted
<1>1. /\ blk' \in Blocks /\ pc' = 1
      /\ \/ phase' = "scan" /\ blk < NumBlocks /\ blk' = blk + 1
         \/ phase' = "publish" /\ blk = NumBlocks /\ blk' = 1
  BY NextBlockTyped
<1>2. blk \in 1 .. NumBlocks /\ Blocks = 1 .. NumBlocks /\ NumBlocks \in Nat
  BY NumBlocksAssumption DEF PhaseInv, TypeOK, Blocks
<1>3. /\ \A b \in Blocks : b < blk => succ[b] = Flow(b)
      /\ \A b \in Blocks : b > blk => succ[b] = {}
  BY DEF FlowInv
<1>4. /\ \A b : Flow(b)' = Flow(b)
      /\ \A b, n : Named(b, n)' = Named(b, n)
  BY FlowUnchanged
<1>5. \A b \in Blocks : b <= blk => succ'[b] = Flow(b)'
  BY <1>2, <1>3, <1>4
<1>6. CASE phase' = "scan"
  <2>1. blk' = blk + 1
    BY <1>1, <1>6
  <2>2. \A b \in Blocks : b < blk' => succ'[b] = Flow(b)'
    BY <1>2, <1>5, <2>1
  <2>3. \A b \in Blocks : b >= blk' => succ'[b] = {}
    BY <1>2, <1>3, <2>1
  <2>4. succ'[blk'] = {}
    BY <1>1, <1>2, <2>3
  <2>5. Named(blk', pc' - 1) = {}
    BY <1>1, NamedNothing
  <2>6. Named(blk, pc - 1)' = {}
    BY <1>4, <2>5 DEF Named
  <2>7. \A b \in Blocks : b > blk' => succ'[b] = {}
    BY <1>2, <2>1, <2>3
  <2>8. \A j \in 1 .. pc' - 1 : Continues(code'[blk'][j].op)
    BY <1>1
  <2> QED
    BY <1>6, <2>2, <2>4, <2>6, <2>7, <2>8 DEF FlowInv
<1>7. CASE phase' = "publish"
  <2>1. \A b \in Blocks : succ'[b] = Flow(b)'
    BY <1>1, <1>2, <1>5, <1>7
  <2> QED
    BY <1>7, <2>1 DEF FlowInv
<1> QED
  BY <1>1, <1>6, <1>7

\* What a step that does not select leaves alone.
LEMMA CodeKept ==
    ASSUME CodeInv, SelectInv, UNCHANGED <<code, selected, before>>
    PROVE  CodeInv' /\ SelectInv'
<1>1. \A b : Flow(b)' = Flow(b)
  BY FlowUnchanged
<1> QED
  BY <1>1 DEF CodeInv, SelectInv, Trusted, NoTry

\* The instruction the scan is at.
LEMMA AtCurrent ==
    ASSUME CodeInv, PhaseInv, Scanning
    PROVE  /\ blk \in Blocks /\ pc \in Nat /\ pc >= 1 /\ pc \in 1 .. Len(code[blk])
           /\ pc \in DOMAIN code[blk]
           /\ Current \in Instructions /\ Current = code[blk][pc]
           /\ Trusted => Agrees(Current)
<1>1. blk \in Blocks /\ code[blk] \in Seq(Instructions)
  BY DEF CodeInv, PhaseInv, TypeOK
<1>2. pc \in 1 .. Len(code[blk]) /\ pc \in DOMAIN code[blk]
  BY <1>1 DEF Scanning
<1>3. Current \in Instructions /\ Current = code[blk][pc]
  BY <1>1, <1>2 DEF Current
<1>4. Trusted => Agrees(code[blk][pc])
  BY <1>1, <1>2 DEF CodeInv
<1>5. pc \in Nat /\ pc >= 1
  BY <1>2
<1> QED
  BY <1>1, <1>2, <1>3, <1>4, <1>5

LEMMA ScanBranchKeepsInv == ASSUME Inv, ScanBranch PROVE Inv'
<1>0. CodeInv /\ PhaseInv /\ FlowInv /\ EdgeInv /\ SelectInv /\ phase = "scan"
  BY DEF Inv, ScanBranch, Scanning
<1>1. /\ blk \in Blocks /\ pc \in Nat /\ pc >= 1 /\ pc \in 1 .. Len(code[blk])
      /\ Current \in Instructions /\ Current = code[blk][pc]
      /\ Trusted => Agrees(Current)
  BY <1>0, AtCurrent DEF ScanBranch
<1> DEFINE to == ToSet(Current.to)
<1>2. to \in SUBSET Blocks
  BY <1>1, NamesBlocks
<1>3. /\ EdgeInv' /\ succ' \in [Blocks -> SUBSET Blocks] /\ pred' \in [Blocks -> SUBSET Blocks]
      /\ succ'[blk] = succ[blk] \cup to
      /\ \A b \in Blocks : b # blk => succ'[b] = succ[b]
  BY <1>0, <1>2, EdgesAdded DEF ScanBranch
<1>4. UNCHANGED <<code, selected, published, before>>
  BY DEF ScanBranch
<1>5. CodeInv' /\ SelectInv'
  BY <1>0, <1>4, CodeKept
<1>6. ASSUME Trusted
      PROVE  /\ \A j \in 1 .. pc - 1 : Continues(code[blk][j].op)
             /\ succ'[blk] = Named(blk, pc)
             /\ Continues(Current.op) <=> ~EndsBlock
  <2>1. succ[blk] = Named(blk, pc - 1) /\ \A j \in 1 .. pc - 1 : Continues(code[blk][j].op)
    BY <1>0, <1>6 DEF FlowInv
  <2>2. Named(blk, pc) = Named(blk, pc - 1) \cup ToSet(code[blk][pc].to)
    BY <1>1, NamedStep
  <2>3. Continues(Current.op) <=> ~Ends(Current.op)
    BY <1>1, <1>6 DEF Agrees
  <2>4. Ends(Current.op) <=> EndsBlock
    BY DEF Ends, EndsBlock, Has, ScanBranch
  <2> QED
    BY <1>1, <1>3, <2>1, <2>2, <2>3, <2>4
<1>7. CASE EndsBlock
  <2>1. NextBlock
    BY <1>7 DEF ScanBranch
  <2>2. /\ blk' \in Blocks /\ pc' = 1 /\ pc' \in 1 .. Len(code'[blk']) + 1
        /\ \/ phase' = "scan" /\ blk < NumBlocks /\ blk' = blk + 1
           \/ phase' = "publish" /\ blk = NumBlocks /\ blk' = 1
    BY <1>0, <1>4, <2>1, NextBlockTyped
  <2>3. PhaseInv'
    BY <1>0, <1>3, <1>4, <2>2 DEF PhaseInv, TypeOK
  <2>4. Trusted => succ'[blk] = Flow(blk)
    BY <1>0, <1>1, <1>6, <1>7, FlowToEnd
  <2>5. FlowInv'
    BY <1>0, <1>3, <1>4, <2>1, <2>4, NextBlockFlow
  <2>6. PublishInv'
    BY <2>2, <1>1 DEF PublishInv, Blocks
  <2> QED
    BY <1>3, <1>5, <2>3, <2>5, <2>6 DEF Inv
<1>8. CASE ~EndsBlock
  <2>1. pc' = pc + 1 /\ blk' = blk /\ phase' = "scan"
    BY <1>0, <1>8 DEF ScanBranch
  <2>2. pc' \in 1 .. Len(code'[blk']) + 1
    BY <1>0, <1>1, <1>4, <2>1 DEF CodeInv
  <2>3. PhaseInv'
    BY <1>0, <1>3, <1>4, <2>1, <2>2 DEF PhaseInv, TypeOK
  <2>4. FlowInv'
    <3> SUFFICES ASSUME Trusted PROVE FlowInv'
      BY <1>4 DEF FlowInv, Trusted
    <3>1. /\ \A b : Flow(b)' = Flow(b)
          /\ \A b, n : Named(b, n)' = Named(b, n)
      BY <1>4, FlowUnchanged
    <3>2. pc' - 1 = pc
      BY <1>1, <2>1
    <3>3. succ'[blk'] = Named(blk, pc' - 1)
      BY <1>6, <2>1, <3>2
    <3>4. Named(blk, pc - 1)' = Named(blk, pc' - 1)
      BY <1>4, <2>1 DEF Named
    <3>5. \A j \in 1 .. pc' - 1 : Continues(code'[blk'][j].op)
      BY <1>1, <1>4, <1>6, <1>8, <2>1, <3>2
    <3>6. \A b \in Blocks : b > blk' => succ'[b] = {}
      BY <1>0, <1>1, <1>3, <2>1 DEF FlowInv, Blocks
    <3>7. \A b \in Blocks : b < blk' => succ'[b] = Flow(b)'
      BY <1>0, <1>1, <1>3, <2>1, <3>1 DEF FlowInv, Blocks
    <3> QED
      BY <2>1, <3>3, <3>4, <3>5, <3>6, <3>7 DEF FlowInv
  <2>5. PublishInv'
    BY <2>1 DEF PublishInv
  <2> QED
    BY <1>3, <1>5, <2>3, <2>4, <2>5 DEF Inv
<1> QED
  BY <1>7, <1>8

LEMMA ScanExitKeepsInv == ASSUME Inv, ScanExit PROVE Inv'
<1>0. CodeInv /\ PhaseInv /\ FlowInv /\ EdgeInv /\ SelectInv /\ phase = "scan"
  BY DEF Inv, ScanExit, Scanning
<1>1. /\ blk \in Blocks /\ pc \in Nat /\ pc >= 1 /\ pc \in 1 .. Len(code[blk])
      /\ Current \in Instructions /\ Current = code[blk][pc]
      /\ Trusted => Agrees(Current)
  BY <1>0, AtCurrent DEF ScanExit
<1>2. UNCHANGED <<code, selected, succ, pred, published, before>> /\ NextBlock
  BY DEF ScanExit
<1>3. CodeInv' /\ SelectInv' /\ EdgeInv'
  BY <1>0, <1>2, CodeKept DEF EdgeInv
<1>4. /\ blk' \in Blocks /\ pc' = 1 /\ pc' \in 1 .. Len(code'[blk']) + 1
      /\ \/ phase' = "scan" /\ blk < NumBlocks /\ blk' = blk + 1
         \/ phase' = "publish" /\ blk = NumBlocks /\ blk' = 1
  BY <1>0, <1>2, NextBlockTyped
<1>5. PhaseInv'
  BY <1>0, <1>2, <1>4 DEF PhaseInv, TypeOK
<1>6. Trusted => succ'[blk] = Flow(blk)
  <2> SUFFICES ASSUME Trusted PROVE succ[blk] = Flow(blk)
    BY <1>2
  <2>1. succ[blk] = Named(blk, pc - 1) /\ \A j \in 1 .. pc - 1 : Continues(code[blk][j].op)
    BY <1>0 DEF FlowInv
  <2>2. Named(blk, pc) = Named(blk, pc - 1) \cup ToSet(code[blk][pc].to)
    BY <1>1, NamedStep
  <2>3. code[blk][pc].to = << >>
    BY <1>1 DEF Agrees, ScanExit, Has
  <2>4. ToSet(<< >>) = {}
    BY DEF ToSet
  <2>5. ~Continues(code[blk][pc].op)
    BY <1>1 DEF Agrees, ScanExit, Has, Ends
  <2>6. Flow(blk) = Named(blk, pc)
    BY <1>0, <1>1, <2>1, <2>5, FlowToEnd
  <2> QED
    BY <2>1, <2>2, <2>3, <2>4, <2>6
<1>7. FlowInv'
  BY <1>0, <1>2, <1>6, NextBlockFlow
<1>8. PublishInv'
  BY <1>1, <1>4 DEF PublishInv, Blocks
<1> QED
  BY <1>3, <1>5, <1>7, <1>8 DEF Inv

LEMMA ScanOtherKeepsInv == ASSUME Inv, ScanOther PROVE Inv'
<1>0. CodeInv /\ PhaseInv /\ FlowInv /\ EdgeInv /\ SelectInv /\ phase = "scan"
  BY DEF Inv, ScanOther, Scanning
<1>1. /\ blk \in Blocks /\ pc \in Nat /\ pc >= 1 /\ pc \in 1 .. Len(code[blk])
      /\ Current \in Instructions /\ Current = code[blk][pc]
      /\ Trusted => Agrees(Current)
  BY <1>0, AtCurrent DEF ScanOther
<1>2. UNCHANGED <<code, selected, phase, blk, succ, pred, published, before>> /\ pc' = pc + 1
  BY DEF ScanOther
<1>3. CodeInv' /\ SelectInv' /\ EdgeInv'
  BY <1>0, <1>2, CodeKept DEF EdgeInv
<1>4. pc' \in 1 .. Len(code'[blk']) + 1
  BY <1>0, <1>1, <1>2 DEF CodeInv
<1>5. PhaseInv'
  BY <1>0, <1>2, <1>4 DEF PhaseInv, TypeOK
<1>6. FlowInv'
  <2> SUFFICES ASSUME Trusted PROVE FlowInv'
    BY <1>2 DEF FlowInv, Trusted
  <2>1. succ[blk] = Named(blk, pc - 1) /\ \A j \in 1 .. pc - 1 : Continues(code[blk][j].op)
    BY <1>0 DEF FlowInv
  <2>2. Named(blk, pc) = Named(blk, pc - 1) \cup ToSet(code[blk][pc].to)
    BY <1>1, NamedStep
  <2>3. code[blk][pc].to = << >> /\ Continues(code[blk][pc].op)
    BY <1>1 DEF Agrees, ScanOther, Ends
  <2>4. ToSet(<< >>) = {}
    BY DEF ToSet
  <2>5. succ[blk] = Named(blk, pc)
    BY <2>1, <2>2, <2>3, <2>4
  <2>6. pc' - 1 = pc
    BY <1>1, <1>2
  <2>7. Named(blk, pc - 1)' = Named(blk, pc)
    BY <1>2, <2>6 DEF Named
  <2>8. \A j \in 1 .. pc' - 1 : Continues(code'[blk'][j].op)
    BY <1>1, <1>2, <2>1, <2>3, <2>6
  <2>9. \A b : Flow(b)' = Flow(b)
    BY <1>2, FlowUnchanged
  <2> QED
    BY <1>0, <1>2, <2>5, <2>7, <2>8, <2>9 DEF FlowInv
<1>7. PublishInv'
  BY <1>0, <1>2 DEF PublishInv
<1> QED
  BY <1>3, <1>5, <1>6, <1>7 DEF Inv

LEMMA FallThroughKeepsInv == ASSUME Inv, FallThrough PROVE Inv'
<1>0. CodeInv /\ PhaseInv /\ FlowInv /\ EdgeInv /\ SelectInv /\ phase = "scan"
  BY DEF Inv, FallThrough
<1>1. blk \in Blocks /\ Len(code[blk]) \in Nat /\ pc \in 1 .. Len(code[blk]) + 1 /\ pc > Len(code[blk])
  BY <1>0 DEF FallThrough, PhaseInv, TypeOK, CodeInv
<1>2. UNCHANGED <<code, selected, published, before>> /\ NextBlock
  BY DEF FallThrough
<1>3. FallsInto(blk) \in SUBSET Blocks
  BY <1>1, NumBlocksAssumption DEF FallsInto, Blocks
<1>4. /\ EdgeInv' /\ succ' \in [Blocks -> SUBSET Blocks] /\ pred' \in [Blocks -> SUBSET Blocks]
      /\ succ'[blk] = succ[blk] \cup FallsInto(blk)
      /\ \A b \in Blocks : b # blk => succ'[b] = succ[b]
  BY <1>0, <1>3, EdgesAdded DEF FallThrough
<1>5. CodeInv' /\ SelectInv'
  BY <1>0, <1>2, CodeKept
<1>6. /\ blk' \in Blocks /\ pc' = 1 /\ pc' \in 1 .. Len(code'[blk']) + 1
      /\ \/ phase' = "scan" /\ blk < NumBlocks /\ blk' = blk + 1
         \/ phase' = "publish" /\ blk = NumBlocks /\ blk' = 1
  BY <1>0, <1>2, NextBlockTyped
<1>7. PhaseInv'
  BY <1>0, <1>2, <1>4, <1>6 DEF PhaseInv, TypeOK
<1>8. Trusted => succ'[blk] = Flow(blk)
  <2> SUFFICES ASSUME Trusted PROVE succ'[blk] = Flow(blk)
    OBVIOUS
  <2>1. pc - 1 = Len(code[blk])
    BY <1>1
  <2>2. succ[blk] = Named(blk, Len(code[blk]))
        /\ \A j \in 1 .. Len(code[blk]) : Continues(code[blk][j].op)
    BY <1>0, <2>1 DEF FlowInv
  <2>3. Flow(blk) = Named(blk, Len(code[blk])) \cup FallsInto(blk)
    BY <1>0, <1>1, <2>2, FlowThrough
  <2> QED
    BY <1>4, <2>2, <2>3
<1>9. FlowInv'
  BY <1>0, <1>2, <1>4, <1>8, NextBlockFlow
<1>10. PublishInv'
  BY <1>1, <1>6 DEF PublishInv, Blocks
<1> QED
  BY <1>4, <1>5, <1>7, <1>9, <1>10 DEF Inv

LEMMA PublishedTyped ==
    ASSUME NEW ids \in SUBSET Blocks PROVE InIdOrder(ids) \in Lists
<1>1. PICK n : n = Cardinality(ids)
  OBVIOUS
<1>2. n \in 0 .. NumBlocks
  BY <1>1, BlocksFinite, NumBlocksAssumption
<1>3. InIdOrder(ids) \in [1 .. n -> Blocks]
  BY <1>1, OrderIsRight
<1> QED
  BY <1>2, <1>3 DEF Lists

LEMMA PublishKeepsInv == ASSUME Inv, Publish PROVE Inv'
<1>0. CodeInv /\ PhaseInv /\ FlowInv /\ EdgeInv /\ PublishInv /\ SelectInv /\ phase = "publish"
  BY DEF Inv, Publish
<1>1. blk \in 1 .. NumBlocks /\ NumBlocks \in Nat /\ NumBlocks >= 1 /\ Blocks = 1 .. NumBlocks
  BY <1>0, NumBlocksAssumption DEF PhaseInv, TypeOK, Blocks
<1>2. /\ UNCHANGED <<code, selected, pc, succ, pred, before>>
      /\ published' = [published EXCEPT ![blk] = InIdOrder(pred[blk])]
  BY DEF Publish
<1>3. \/ phase' = "publish" /\ blk < NumBlocks /\ blk' = blk + 1
      \/ phase' = "done" /\ blk = NumBlocks /\ blk' = 1
  BY <1>0, <1>1 DEF Publish
<1>4. CodeInv' /\ SelectInv' /\ EdgeInv'
  BY <1>0, <1>2, CodeKept DEF EdgeInv
<1>5. published \in [Blocks -> Lists] /\ pred \in [Blocks -> SUBSET Blocks]
  BY <1>0 DEF PhaseInv, TypeOK
<1>6. InIdOrder(pred[blk]) \in Lists
  BY <1>1, <1>5, PublishedTyped
<1>7. PICK list \in Lists : list = InIdOrder(pred[blk])
  BY <1>6
<1>8. /\ published' \in [Blocks -> Lists]
      /\ published'[blk] = list
      /\ \A b \in Blocks : b # blk => published'[b] = published[b]
  BY <1>1, <1>2, <1>5, <1>7
<1>9. PhaseInv'
  <2>1. pc = 1 /\ blk' \in Blocks
    BY <1>0, <1>1, <1>3 DEF PhaseInv
  <2>2. Len(code[blk']) \in Nat
    BY <1>0, <2>1 DEF CodeInv
  <2>3. pc' \in 1 .. Len(code'[blk']) + 1
    BY <1>2, <2>1, <2>2
  <2>4. TypeOK'
    BY <1>0, <1>2, <1>3, <1>8, <2>1, <2>3 DEF PhaseInv, TypeOK
  <2> QED
    BY <1>0, <1>2, <1>3, <2>1, <2>4 DEF PhaseInv
<1>10. FlowInv'
  <2>1. \A b : Flow(b)' = Flow(b)
    BY <1>2, FlowUnchanged
  <2> QED
    BY <1>0, <1>2, <1>3, <2>1 DEF FlowInv, Trusted
<1>11. PublishInv'
  <2>1. ASSUME NEW b \in Blocks, b <= blk PROVE published'[b] = InIdOrder(pred[b])
    <3>1. CASE b = blk
      BY <1>7, <1>8, <3>1
    <3>2. CASE b # blk
      <4>1. b < blk
        BY <1>1, <2>1, <3>2
      <4> QED
        BY <1>0, <1>8, <3>2, <4>1 DEF PublishInv
    <3> QED
      BY <3>1, <3>2
  <2>2. ASSUME NEW b \in Blocks, phase' = "done" \/ (phase' = "publish" /\ b < blk')
        PROVE  b <= blk
    BY <1>1, <1>3, <2>2
  <2>3. ASSUME NEW b \in Blocks PROVE InIdOrder(pred[b])' = InIdOrder(pred[b])
    BY <1>2 DEF InIdOrder
  <2> QED
    BY <2>1, <2>2, <2>3 DEF PublishInv
<1> QED
  BY <1>4, <1>9, <1>10, <1>11 DEF Inv

-----------------------------------------------------------------------------
(* Selection.                                                              *)

\* What the code of block b is flattened from.
Parts(b) == [k \in DOMAIN code[b] |-> SelectedCode(code[b][k])]

LEMMA PartsAreCodes ==
    ASSUME NEW b, code[b] \in Bodies
    PROVE  /\ Parts(b) \in Codes /\ Len(Parts(b)) = Len(code[b]) /\ Len(code[b]) \in Nat
           /\ \A k \in 1 .. Len(code[b]) : Parts(b)[k] = SelectedCode(code[b][k])
           /\ code[b] \in Seq(Instructions)
<1>1. code[b] \in Seq(Instructions)
  BY BodiesAssumption
<1>2. PICK n \in Nat : n = Len(code[b]) /\ DOMAIN code[b] = 1 .. n
  BY <1>1
<1>3. ASSUME NEW k \in 1 .. n PROVE SelectedCode(code[b][k]) \in Seq(Instructions)
  BY <1>2, SelectedType
<1>4. Parts(b) = [k \in 1 .. n |-> SelectedCode(code[b][k])]
  BY <1>2 DEF Parts
<1>5. Parts(b) \in [1 .. n -> Seq(Instructions)]
  BY <1>3, <1>4
<1>6. Parts(b) \in Codes /\ Len(Parts(b)) = n
  BY <1>5 DEF Codes
<1> QED
  BY <1>1, <1>2, <1>4, <1>6

\* A block that a generic instruction other than TRY names is named by what
\* selection makes of it, and control gets that far.
LEMMA StillNamed ==
    ASSUME Target = "x86_64", NEW body \in Bodies, NEW k \in DOMAIN body,
           body[k].op # "TRY", NEW x \in ToSet(body[k].to)
    PROVE  \E j \in 1 .. Len(SelectedCode(body[k])) :
              /\ x \in ToSet(SelectedCode(body[k])[j].to)
              /\ \A p \in 1 .. j - 1 : Continues(SelectedCode(body[k])[p].op)
<1> DEFINE i == body[k]
<1>1. i \in Instructions /\ i.op \in GenericOps /\ i.to \in Seq(Blocks) /\ i.op # "TRY"
      /\ Len(i.to) = CASE i.op = "JMP" -> 1 [] i.op \in {"BR_COND", "TRY"} -> 2 [] OTHER -> 0
  BY BodyInstruction DEF Instructions
<1>2. x \in ToSet(i.to)
  OBVIOUS
<1> HIDE DEF i
<1>3. PICK q \in 1 .. Len(i.to) : x = i.to[q]
  BY <1>1, <1>2 DEF ToSet
<1>4. ASSUME NEW b PROVE b \in ToSet(<<b>>)
  <2>1. 1 \in DOMAIN <<b>> /\ <<b>>[1] = b
    OBVIOUS
  <2> QED
    BY <2>1 DEF ToSet
<1>5. CASE i.op = "BR_COND"
  <2>1. PICK cmp, jne, jmp : cmp = I("cmp", << >>) /\ jne = I("jne", <<i.to[1]>>) /\ jmp = I("jmp", <<i.to[2]>>)
    OBVIOUS
  <2>2. SelectedCode(i) = <<cmp, jne, jmp>>
    BY <1>5, <2>1 DEF SelectedCode, BranchCode
  <2>3. cmp.op = "cmp" /\ jne.op = "jne" /\ jne.to = <<i.to[1]>> /\ jmp.to = <<i.to[2]>>
    BY <2>1 DEF I
  <2>4. Continues(cmp.op) /\ Continues(jne.op)
    BY <2>3 DEF Continues
  <2>5. q = 1 \/ q = 2
    BY <1>1, <1>3, <1>5
  <2>6. CASE q = 1
    <3>1. x \in ToSet(SelectedCode(i)[2].to) /\ 2 \in 1 .. Len(SelectedCode(i))
      <4>1. SelectedCode(i)[2].to = <<i.to[1]>> /\ Len(SelectedCode(i)) = 3
        BY <2>2, <2>3
      <4>2. x = i.to[1]
        BY <1>3, <2>6
      <4>3. x \in ToSet(<<i.to[1]>>)
        BY <1>4, <4>2
      <4> QED
        BY <4>1, <4>3
    <3>2. \A p \in 1 .. 2 - 1 : Continues(SelectedCode(i)[p].op)
      BY <2>2, <2>4
    <3> QED
      BY <3>1, <3>2 DEF i
  <2>7. CASE q = 2
    <3>1. x \in ToSet(SelectedCode(i)[3].to) /\ 3 \in 1 .. Len(SelectedCode(i))
      <4>1. SelectedCode(i)[3].to = <<i.to[2]>> /\ Len(SelectedCode(i)) = 3
        BY <2>2, <2>3
      <4>2. x = i.to[2]
        BY <1>3, <2>7
      <4>3. x \in ToSet(<<i.to[2]>>)
        BY <1>4, <4>2
      <4> QED
        BY <4>1, <4>3
    <3>2. \A p \in 1 .. 3 - 1 : Continues(SelectedCode(i)[p].op)
      BY <2>2, <2>4
    <3> QED
      BY <3>1, <3>2 DEF i
  <2> QED
    BY <2>5, <2>6, <2>7
<1>6. CASE i.op = "JMP"
  <2>1. PICK jmp : jmp = I("jmp", <<i.to[1]>>)
    OBVIOUS
  <2>2. SelectedCode(i) = <<jmp>> /\ jmp.to = <<i.to[1]>>
    BY <1>6, <2>1 DEF SelectedCode, I
  <2>3. q = 1
    BY <1>1, <1>3, <1>6
  <2>4. x \in ToSet(SelectedCode(i)[1].to) /\ 1 \in 1 .. Len(SelectedCode(i))
    BY <1>3, <1>4, <2>2, <2>3
  <2>5. \A p \in 1 .. 1 - 1 : Continues(SelectedCode(i)[p].op)
    OBVIOUS
  <2> QED
    BY <2>4, <2>5 DEF i
<1>7. i.op = "BR_COND" \/ i.op = "JMP"
  BY <1>1, <1>3
<1> QED
  BY <1>5, <1>6, <1>7

\* On x86-64, and without TRY, selection keeps every way out of a block.
LEMMA FlowSelected ==
    ASSUME Target = "x86_64", NoTry, NEW b \in Blocks, code[b] \in Bodies,
           code' \in [Blocks -> Seq(Instructions)],
           code'[b] = FlattenSeq(Parts(b))
    PROVE  Flow(b) \subseteq Flow(b)'
<1>1. /\ Parts(b) \in Codes /\ Len(Parts(b)) = Len(code[b]) /\ Len(code[b]) \in Nat
      /\ \A k \in 1 .. Len(code[b]) : Parts(b)[k] = SelectedCode(code[b][k])
      /\ code[b] \in Seq(Instructions) /\ DOMAIN code[b] = 1 .. Len(code[b])
  BY PartsAreCodes
<1>2. PICK body \in Bodies : body = code[b]
  OBVIOUS
<1>3. PICK s \in Codes : s = Parts(b)
  BY <1>1
<1>4. PICK n \in Nat : n = Len(code[b])
  BY <1>1
<1>5. /\ Len(s) = n /\ Len(body) = n /\ DOMAIN body = 1 .. n
      /\ \A k \in 1 .. n : s[k] = SelectedCode(body[k])
  BY <1>1, <1>2, <1>3, <1>4
<1>6. PICK flat : flat = code'[b]
  OBVIOUS
<1>7. Flat(flat, s, n)
  BY <1>3, <1>5, <1>6, FlattenIsFlat
<1>8. PICK len \in Nat : len = Len(flat) /\ DOMAIN flat = 1 .. len
  BY <1>7 DEF Flat
<1>9. ASSUME NEW k \in 1 .. n, Continues(body[k].op), NEW j \in 1 .. Len(s[k])
      PROVE  Continues(s[k][j].op)
  <2>1. SelectedCode(body[k]) \in Seq(Instructions)
        /\ \A p \in DOMAIN SelectedCode(body[k]) : Continues(SelectedCode(body[k])[p].op)
    BY <1>5, <1>9, SelectedInstructions
  <2>2. s[k] \in Seq(Instructions) /\ \A p \in DOMAIN s[k] : Continues(s[k][p].op)
    BY <1>5, <2>1
  <2> QED
    BY <2>2
<1>10. ASSUME NEW k \in 1 .. n, \A a \in 1 .. k - 1 : Continues(body[a].op),
              NEW x \in ToSet(body[k].to)
       PROVE  x \in UNION {ToSet(flat[p].to) : p \in {q \in DOMAIN flat : \A r \in 1 .. q - 1 : Continues(flat[r].op)}}
  <2>1. body[k].op # "TRY" /\ k \in DOMAIN body
    BY <1>5 DEF NoTry
  <2>2. \E j \in 1 .. Len(SelectedCode(body[k])) :
              /\ x \in ToSet(SelectedCode(body[k])[j].to)
              /\ \A p \in 1 .. j - 1 : Continues(SelectedCode(body[k])[p].op)
    BY <2>1, StillNamed
  <2>3. PICK j \in 1 .. Len(s[k]) : x \in ToSet(s[k][j].to) /\ \A p \in 1 .. j - 1 : Continues(s[k][p].op)
    BY <1>5, <2>2
  <2>4. PICK o \in Nat : PartAt(flat, s, k, o)
    BY <1>7 DEF Flat
  <2>5. PICK m \in Nat : m = Len(s[k])
    <3>1. s[k] \in Seq(Instructions)
      BY <1>5 DEF Codes
    <3> QED
      BY <3>1
  <2>6. /\ o + m <= len
        /\ \A p \in 1 .. m : flat[o + p] = s[k][p]
        /\ \A q \in 1 .. o : \E a \in 1 .. k - 1 : \E p \in 1 .. Len(s[a]) : flat[q] = s[a][p]
    BY <1>8, <2>4, <2>5 DEF PartAt
  <2>7. j \in 1 .. m /\ o + j \in 1 .. len
    BY <2>3, <2>5, <2>6
  <2>8. ASSUME NEW r \in 1 .. (o + j) - 1 PROVE Continues(flat[r].op)
    <3>1. CASE r <= o
      <4>1. r \in 1 .. o
        BY <3>1
      <4>2. PICK a \in 1 .. k - 1 : \E p \in 1 .. Len(s[a]) : flat[r] = s[a][p]
        BY <2>6, <4>1
      <4>3. a \in 1 .. n /\ Continues(body[a].op)
        BY <1>10
      <4> QED
        BY <1>9, <4>2, <4>3
    <3>2. CASE r > o
      <4>1. PICK p \in 1 .. j - 1 : r = o + p
        <5>1. r - o \in 1 .. j - 1 /\ r = o + (r - o)
          BY <2>7, <3>2
        <5> QED
          BY <5>1
      <4>2. p \in 1 .. m /\ flat[r] = s[k][p]
        BY <2>6, <2>7, <4>1
      <4> QED
        BY <2>3, <4>2
    <3> QED
      BY <2>7, <3>1, <3>2
  <2>9. flat[o + j] = s[k][j]
    BY <2>6, <2>7
  <2>10. o + j \in {q \in DOMAIN flat : \A r \in 1 .. q - 1 : Continues(flat[r].op)}
    BY <1>8, <2>7, <2>8
  <2>11. x \in ToSet(flat[o + j].to)
    BY <2>3, <2>9
  <2> QED
    BY <2>10, <2>11
<1>11. ASSUME \A k \in 1 .. n : Continues(body[k].op)
       PROVE  \A q \in DOMAIN flat : Continues(flat[q].op)
  BY <1>7, <1>8, <1>9, <1>11 DEF Flat, From
<1>12. ASSUME NEW x \in Flow(b) PROVE x \in Flow(b)'
  <2>1. CASE x \in UNION {ToSet(code[b][k].to) : k \in Reached(b)}
    <3>1. PICK k \in Reached(b) : x \in ToSet(body[k].to)
      BY <1>2, <2>1
    <3>2. k \in 1 .. n /\ \A a \in 1 .. k - 1 : Continues(body[a].op)
      BY <1>2, <1>5, <3>1 DEF Reached
    <3>3. x \in UNION {ToSet(flat[p].to) : p \in {q \in DOMAIN flat : \A r \in 1 .. q - 1 : Continues(flat[r].op)}}
      BY <1>10, <3>1, <3>2
    <3> QED
      BY <1>6, <3>3 DEF Flow, Reached
  <2>2. CASE (\A k \in 1 .. n : Continues(body[k].op)) /\ x \in Blocks \cap {b + 1}
    BY <1>6, <1>11, <2>2 DEF Flow
  <2> QED
    BY <1>2, <1>5, <1>12, <2>1, <2>2 DEF Flow
<1> QED
  BY <1>12

LEMMA SelectKeepsInv == ASSUME Inv, Select PROVE Inv'
<1>0. CodeInv /\ PhaseInv /\ FlowInv /\ phase = "done" /\ ~selected
  BY DEF Inv, Select
<1>1. /\ code' = [b \in Blocks |-> FlattenSeq(Parts(b))]
      /\ selected' = TRUE /\ before' = succ /\ phase' = "scan"
      /\ succ' = NoEdges /\ pred' = NoEdges
      /\ UNCHANGED <<blk, pc, published>>
  BY DEF Select, Parts
<1>2. code \in [Blocks -> Bodies] /\ blk = 1 /\ pc = 1 /\ 1 \in Blocks
  BY <1>0, NumBlocksAssumption DEF CodeInv, PhaseInv, Blocks
<1>3. ASSUME NEW b \in Blocks
      PROVE  Flat(FlattenSeq(Parts(b)), Parts(b), Len(Parts(b)))
  BY <1>2, PartsAreCodes, FlattenIsFlat
<1>4. code' \in [Blocks -> Seq(Instructions)]
  <2>1. \A b \in Blocks : FlattenSeq(Parts(b)) \in Seq(Instructions)
    BY <1>3 DEF Flat
  <2> QED
    BY <1>1, <2>1
<1>5. ASSUME Target = "x86_64", NEW b \in Blocks, NEW q \in DOMAIN code'[b]
      PROVE  Agrees(code'[b][q])
  <2>1. PICK flat \in Seq(Instructions) : flat = code'[b]
    BY <1>4
  <2>2. q \in 1 .. Len(flat)
    BY <2>1
  <2>3. Flat(flat, Parts(b), Len(Parts(b)))
    BY <1>1, <1>3, <2>1
  <2>4. PICK a \in 1 .. Len(Parts(b)) : \E j \in 1 .. Len(Parts(b)[a]) : flat[q] = Parts(b)[a][j]
    BY <2>2, <2>3 DEF Flat, From
  <2>5. a \in DOMAIN code[b] /\ Parts(b)[a] = SelectedCode(code[b][a])
    BY <1>2, <2>4, PartsAreCodes
  <2>6. SelectedCode(code[b][a]) \in Seq(Instructions)
        /\ \A j \in DOMAIN SelectedCode(code[b][a]) : Agrees(SelectedCode(code[b][a])[j])
    BY <1>2, <1>5, <2>5, SelectedInstructions
  <2> QED
    BY <2>1, <2>4, <2>5, <2>6
<1>6. CodeInv'
  BY <1>1, <1>4, <1>5 DEF CodeInv, Trusted
<1>7. NoEdges \in [Blocks -> SUBSET Blocks] /\ \A b \in Blocks : NoEdges[b] = {}
  BY DEF NoEdges
<1>8. PhaseInv'
  <2>1. Len(code'[1]) \in Nat
    BY <1>2, <1>4
  <2>2. pc' \in 1 .. Len(code'[blk']) + 1
    BY <1>1, <1>2, <2>1
  <2>3. TypeOK'
    BY <1>0, <1>1, <1>2, <1>7, <2>2 DEF PhaseInv, TypeOK
  <2> QED
    BY <1>0, <1>1, <2>3 DEF PhaseInv, TypeOK
<1>9. FlowInv'
  <2>1. blk' = 1 /\ pc' - 1 = 0
    BY <1>1, <1>2
  <2>2. Named(blk, pc - 1)' = {}
    BY <2>1 DEF Named
  <2>3. \A b \in Blocks : ~(b < blk')
    BY <2>1, NumBlocksAssumption DEF Blocks
  <2>4. \A j \in 1 .. pc' - 1 : Continues(code'[blk'][j].op)
    BY <2>1
  <2>5. succ'[blk'] = {}
    BY <1>1, <1>2, <1>7
  <2>6. \A b \in Blocks : succ'[b] = {}
    BY <1>1, <1>7
  <2> QED
    BY <1>1, <2>2, <2>3, <2>4, <2>5, <2>6 DEF FlowInv
<1>10. SelectInv'
  <2>1. ASSUME Target = "x86_64", NoTry, NEW b \in Blocks
        PROVE  before'[b] \subseteq Flow(b)'
    <3>1. succ[b] = Flow(b)
      BY <1>0 DEF FlowInv, Trusted
    <3>2. code'[b] = FlattenSeq(Parts(b)) /\ code[b] \in Bodies
      BY <1>1, <1>2
    <3>3. Flow(b) \subseteq Flow(b)'
      BY <1>4, <2>1, <3>2, FlowSelected
    <3> QED
      BY <1>1, <3>1, <3>3
  <2> QED
    BY <2>1 DEF SelectInv, NoTry
<1>11. EdgeInv'
  BY <1>1, <1>7 DEF EdgeInv
<1>12. PublishInv'
  BY <1>1 DEF PublishInv
<1> QED
  BY <1>6, <1>8, <1>9, <1>10, <1>11, <1>12 DEF Inv

LEMMA StutterKeepsInv == ASSUME Inv, UNCHANGED vars PROVE Inv'
<1>1. UNCHANGED <<code, selected, phase, blk, pc, succ, pred, published, before>>
  BY DEF vars
<1>2. /\ \A b : Flow(b)' = Flow(b)
      /\ \A b, n : Named(b, n)' = Named(b, n)
  BY <1>1, FlowUnchanged
<1>3. CodeInv' /\ SelectInv'
  BY <1>1, CodeKept DEF Inv
<1>4. PhaseInv' /\ EdgeInv' /\ PublishInv'
  BY <1>1 DEF Inv, PhaseInv, TypeOK, EdgeInv, PublishInv
<1>5. FlowInv'
  <2>1. Named(blk, pc - 1)' = Named(blk, pc - 1)
    BY <1>1 DEF Named
  <2> QED
    BY <1>1, <1>2, <2>1 DEF Inv, FlowInv, Trusted
<1> QED
  BY <1>3, <1>4, <1>5 DEF Inv

LEMMA StepKeepsInv == Inv /\ [Next]_vars => Inv'
BY ScanBranchKeepsInv, ScanExitKeepsInv, ScanOtherKeepsInv, FallThroughKeepsInv,
   PublishKeepsInv, SelectKeepsInv, StutterKeepsInv DEF Next

\* The pass and the function stay in a state in which the edges found so far
\* are the control flow of the code scanned so far.
THEOREM Invariance == Spec => []Inv
<1>1. Init => Inv
  BY InitInv
<1>2. Inv /\ [Next]_vars => Inv'
  BY StepKeepsInv
<1> QED
  BY <1>1, <1>2, PTL DEF Spec

-----------------------------------------------------------------------------

\* The state of the pass (CodeFlowAnalysisPass::run and its maps) keeps its
\* shape, for every function.
THEOREM PassAlwaysTyped == Spec => []TypeOK
<1>1. Inv => TypeOK
  BY DEF Inv, PhaseInv
<1> QED
  BY <1>1, Invariance, PTL

\* The graph of a function of generic instructions, and of one selected for
\* x86-64, is the control flow of its code.  RISC-V's code is not in the
\* theorem: its indirect call (jalr) has the flag of a branch, and its
\* conditional branches (bne) do not read CPU flags, so the scan ends at them.
THEOREM EdgesAreAlwaysControlFlow ==
    Spec => [](~selected \/ Target = "x86_64" => EdgesAreControlFlow)
<1>1. Inv => (~selected \/ Target = "x86_64" => EdgesAreControlFlow)
  BY DEF Inv, FlowInv, Trusted, EdgesAreControlFlow
<1> QED
  BY <1>1, Invariance, PTL

\* Selection for x86-64 takes no edge away from a function without exception
\* regions, whose TRY becomes a jump to the first of its two blocks alone.
THEOREM SelectionAlwaysKeepsEdges ==
    ASSUME Target = "x86_64", \A body \in Bodies : \A k \in DOMAIN body : body[k].op # "TRY"
    PROVE  Spec => []SelectionKeepsEdges
<1>1. Inv => SelectionKeepsEdges
  BY DEF Inv, FlowInv, SelectInv, Trusted, NoTry, SelectionKeepsEdges
<1> QED
  BY <1>1, Invariance, PTL

\* Every block carries its predecessors in ascending order without repetition
\* once the pass is over (insertSortedUnique, MirBlock::setPredecessors), on
\* both targets: the order in which SSA construction and phi selection take
\* the operands of a phi.
THEOREM AlwaysPublishedInPhiOrder == Spec => []PublishedInPhiOrder
<1>1. Inv => PublishedInPhiOrder
  <2> SUFFICES ASSUME Inv, phase = "done", NEW b \in Blocks
               PROVE  /\ ToSet(published[b]) = {p \in Blocks : b \in succ[p]}
                      /\ \A j, k \in DOMAIN published[b] : j < k => published[b][j] < published[b][k]
    BY DEF PublishedInPhiOrder
  <2>1. pred[b] \in SUBSET Blocks
    BY DEF Inv, PhaseInv, TypeOK
  <2>2. published[b] = InIdOrder(pred[b])
    BY DEF Inv, PublishInv
  <2>3. pred[b] = {p \in Blocks : b \in succ[p]}
    BY <2>1 DEF Inv, EdgeInv
  <2>4. ToSet(published[b]) = pred[b]
        /\ \A j, k \in DOMAIN published[b] : j < k => published[b][j] < published[b][k]
    BY <2>1, <2>2, OrderIsRight
  <2> QED
    BY <2>3, <2>4
<1> QED
  BY <1>1, Invariance, PTL

-----------------------------------------------------------------------------
(* The loop of selectFunction.  What it selects is a function of its own.  *)

IsList(s) == \E S : s \in Seq(S)
AllSelected(body) == \A k \in DOMAIN body : ~IsUnselected(body[k])

\* A round that has found nothing has left nothing unselected behind it.
SelectorInv ==
    /\ prog \in Programs /\ Len(prog.body) \in Nat
    /\ insts = [b \in 1 .. Len(prog.body) |-> insts[b]]
    /\ \A b \in 1 .. Len(prog.body) : IsList(insts[b])
    /\ block \in 1 .. Len(prog.body)
    /\ at \in 0 .. Len(insts[block])
    /\ at > 0 => found /\ ~done /\ IsUnselected(insts[block][at])
    /\ ~found => \A b \in 1 .. block - 1 : AllSelected(insts[b])
    /\ done => \A b \in 1 .. Len(prog.body) : AllSelected(insts[b])
    /\ found \in BOOLEAN

\* A set of bounded numbers has a greatest element, and a least one.
LEMMA GreatestOf ==
    ASSUME NEW n \in Nat, NEW S \in SUBSET (0 .. n), S # {}
    PROVE  \E m \in S : \A x \in S : m >= x
<1> DEFINE T == {k \in Nat : \A x \in S : x <= n - k}
<1> SUFFICES ASSUME \A m \in S : \E x \in S : ~(m >= x) PROVE FALSE
  OBVIOUS
<1>1. 0 \in T
  OBVIOUS
<1>2. ASSUME NEW k \in Nat, k \in T PROVE k + 1 \in T
  <2>1. \A x \in S : x <= n - k
    BY <1>2
  <2>2. n - k \notin S
    BY <2>1
  <2>3. \A x \in S : x <= n - (k + 1)
    BY <2>1, <2>2
  <2> QED BY <2>3
<1>3. PICK x \in S : TRUE
  OBVIOUS
<1> HIDE DEF T
<1>4. n + 1 \in T
  BY <1>1, <1>2, Induction
<1>5. x <= n - (n + 1)
  BY <1>4 DEF T
<1> QED BY <1>5

LEMMA LeastOf ==
    ASSUME NEW n \in Nat, NEW S \in SUBSET (1 .. n), S # {}
    PROVE  \E m \in S : \A x \in S : m =< x
<1> DEFINE R == {n - x : x \in S}
<1>1. R \in SUBSET (0 .. n) /\ R # {}
  <2>1. \A x \in S : n - x \in 0 .. n
    OBVIOUS
  <2> QED BY <2>1
<1> HIDE DEF R
<1>2. PICK r \in R : \A x \in R : r >= x
  BY <1>1, GreatestOf
<1>3. PICK m \in S : r = n - m
  BY DEF R
<1>4. ASSUME NEW x \in S PROVE m =< x
  <2>1. n - m >= n - x
    BY <1>2, <1>3 DEF R
  <2> QED BY <2>1
<1> QED BY <1>4

\* Where the cursor goes: to an unselected instruction in front of it, or to 0
\* if there is none.
LEMMA LastUnselectedIs ==
    ASSUME NEW body, IsList(body), NEW k \in 1 .. Len(body) + 1
    PROVE  LET n == LastUnselected(body, k)
           IN  /\ n \in 0 .. k - 1
               /\ n > 0 => IsUnselected(body[n])
               /\ n = 0 => \A j \in 1 .. k - 1 : ~IsUnselected(body[j])
<1>1. Len(body) \in Nat
  BY DEF IsList
<1> DEFINE S == {0} \cup {j \in 1 .. k - 1 : IsUnselected(body[j])}
           n == CHOOSE x \in S : \A y \in S : x >= y
<1>2. LastUnselected(body, k) = n
  BY DEF LastUnselected, Max
<1>3. k \in Nat /\ k - 1 \in Nat /\ S \in SUBSET (0 .. k - 1) /\ 0 \in S
  BY <1>1
<1>4. n \in S /\ \A y \in S : n >= y
  <2> HIDE DEF S
  <2>1. \E x \in S : \A y \in S : x >= y
    BY <1>3, GreatestOf
  <2> QED BY <2>1
<1>5. n \in 0 .. k - 1
  BY <1>3, <1>4
<1>6. ASSUME n = 0, NEW j \in 1 .. k - 1 PROVE ~IsUnselected(body[j])
  <2>1. j \notin S
    BY <1>4, <1>6
  <2> QED BY <2>1
<1>7. n > 0 => IsUnselected(body[n])
  BY <1>4
<1> QED BY <1>2, <1>5, <1>6, <1>7

\* An insertion and a removal leave a list.
LEMMA ListPart ==
    ASSUME NEW s, IsList(s), NEW m \in Nat \ {0}, NEW n \in 0 .. Len(s)
    PROVE  IsList(SubSeq(s, m, n)) /\ Len(SubSeq(s, m, n)) = IF m <= n THEN n - m + 1 ELSE 0
<1>1. PICK S : s \in Seq(S)
  BY DEF IsList
<1>2. Len(s) \in Nat /\ \A k \in m .. n : k \in 1 .. Len(s)
  BY <1>1
<1>3. SubSeq(s, m, n) \in Seq(S) /\ Len(SubSeq(s, m, n)) = IF m <= n THEN n - m + 1 ELSE 0
  BY <1>1, <1>2
<1> QED BY <1>3 DEF IsList

\* Two lists after one another.
LEMMA ListConcat ==
    ASSUME NEW s, NEW t, IsList(s), IsList(t)
    PROVE  IsList(s \o t) /\ Len(s \o t) = Len(s) + Len(t)
<1>1. PICK S : s \in Seq(S)
  BY DEF IsList
<1>2. PICK T : t \in Seq(T)
  BY DEF IsList
<1>3. s \in Seq(S \cup T) /\ t \in Seq(S \cup T)
  BY <1>1, <1>2
<1>4. s \o t \in Seq(S \cup T) /\ Len(s \o t) = Len(s) + Len(t)
  BY <1>3
<1> QED BY <1>4 DEF IsList

\* A list has a length.
LEMMA ListLength == ASSUME NEW s, IsList(s) PROVE Len(s) \in Nat /\ DOMAIN s = 1 .. Len(s)
BY DEF IsList

\* Lists of one element and of none.
LEMMA ListOne == ASSUME NEW x PROVE IsList(<<x>>) /\ IsList(<< >>) /\ Len(<<x>>) = 1 /\ Len(<< >>) = 0
<1>1. <<x>> \in Seq({x}) /\ << >> \in Seq({x}) /\ Len(<<x>>) = 1 /\ Len(<< >>) = 0
  OBVIOUS
<1> QED BY <1>1 DEF IsList

\* The parsed function satisfies the invariant.
LEMMA SelectorStarts == ASSUME SelectorInit PROVE SelectorInv
<1>1. prog \in Programs /\ block = 1 /\ at = 0 /\ found = FALSE /\ done = FALSE
      /\ insts = Parsed(prog)
  BY DEF SelectorInit
<1>2. /\ Len(prog.body) > 0
      /\ prog.body \in [1 .. Len(prog.body) -> Seq(MachineInstructions)]
      /\ prog.phis \in [1 .. Len(prog.body) -> Seq([dst : RegisterRefs, pairs : Seq([op : MachineOperands, from : Nat])])]
  BY <1>1, ProgramsAssumption
<1>3. PICK n \in Nat : n = Len(prog.body)
  <2>1. prog.body \in Seq(Seq(MachineInstructions))
    BY <1>2
  <2> QED BY <2>1
<1> DEFINE Entry(b) == [k \in DOMAIN prog.phis[b] |-> ParsedPhi(prog.phis[b][k])] \o prog.body[b]
<1>4. insts = [b \in 1 .. n |-> Entry(b)]
  BY <1>1, <1>2, <1>3 DEF Parsed
<1>5. ASSUME NEW b \in 1 .. n PROVE IsList(Entry(b))
  <2>1. IsList(prog.body[b])
    BY <1>2, <1>3 DEF IsList
  <2>2. PICK m \in Nat : DOMAIN prog.phis[b] = 1 .. m
    BY <1>2, <1>3
  <2> DEFINE made(k) == ParsedPhi(prog.phis[b][k])
  <2>3. [k \in 1 .. m |-> made(k)] \in Seq({made(k) : k \in 1 .. m})
    <3> HIDE DEF made
    <3> QED OBVIOUS
  <2>4. IsList([k \in 1 .. m |-> made(k)])
    BY <2>3 DEF IsList
  <2> QED BY <2>1, <2>2, <2>4, ListConcat
<1> HIDE DEF Entry
<1>6. \A b \in 1 .. n : IsList(insts[b])
  BY <1>4, <1>5
<1>7. insts = [b \in 1 .. n |-> insts[b]]
  BY <1>4
<1>8. 1 \in 1 .. n /\ Len(insts[1]) \in Nat
  BY <1>2, <1>3, <1>6 DEF IsList
<1>9. block \in 1 .. n /\ at \in 0 .. Len(insts[block]) /\ 1 .. block - 1 = {} /\ ~done
  BY <1>1, <1>8
<1>10. Len(prog.body) \in Nat /\ 1 .. Len(prog.body) = 1 .. n
  BY <1>3
<1>11. \A b \in 1 .. Len(prog.body) : IsList(insts[b])
  BY <1>6, <1>10
<1>12. insts = [b \in 1 .. Len(prog.body) |-> insts[b]]
  BY <1>7, <1>10
<1>13. block \in 1 .. Len(prog.body)
  BY <1>9, <1>10
<1>14. ~found => \A b \in 1 .. block - 1 : AllSelected(insts[b])
  BY <1>9
<1>15. done => \A b \in 1 .. Len(prog.body) : AllSelected(insts[b])
  BY <1>9
<1>16. at > 0 => found /\ ~done /\ IsUnselected(insts[block][at])
  BY <1>1
<1> QED BY <1>1, <1>9, <1>10, <1>11, <1>12, <1>13, <1>14, <1>15, <1>16 DEF SelectorInv

\* What Advance does where nothing has been found, and otherwise.
LEMMA AdvanceKeeps ==
    ASSUME SelectorInv, Advance, at' = 0, UNCHANGED prog,
           insts' = [b \in 1 .. Len(prog.body) |-> insts'[b]],
           \A b \in 1 .. Len(prog.body) : IsList(insts'[b]),
           ~done, ~found => insts' = insts /\ AllSelected(insts[block])
    PROVE  SelectorInv'
<1>1. PICK n \in Nat : n = Len(prog.body)
  BY DEF SelectorInv
<1>2. /\ block \in 1 .. n /\ Len(insts) = n /\ found \in BOOLEAN
      /\ ~found => \A b \in 1 .. block - 1 : AllSelected(insts[b])
      /\ done => \A b \in 1 .. n : AllSelected(insts[b])
  <2>1. insts = [b \in 1 .. n |-> insts[b]]
    BY <1>1 DEF SelectorInv
  <2>2. Len(insts) = n
    <3> DEFINE f == [b \in 1 .. n |-> insts[b]]
    <3>1. Len(f) = n /\ f = insts
      <4>1. f = insts
        BY <2>1
      <4>2. f \in Seq({insts[b] : b \in 1 .. n})
        OBVIOUS
      <4> QED BY <4>1, <4>2
    <3> QED BY <3>1
  <2> QED BY <1>1, <2>2 DEF SelectorInv
<1>4. block' \in 1 .. n /\ Len(insts'[block']) \in Nat
  <2>1. block' \in 1 .. n
    BY <1>2 DEF Advance
  <2> QED BY <1>1, <2>1 DEF IsList
<1>5. found' \in BOOLEAN
  BY <1>2 DEF Advance
<1>6. ASSUME ~found', NEW b \in 1 .. block' - 1 PROVE AllSelected(insts'[b])
  <2>1. CASE block < n
    <3>1. block' = block + 1 /\ ~found
      BY <1>2, <1>6, <2>1 DEF Advance
    <3>2. b = block \/ b \in 1 .. block - 1
      BY <1>2, <3>1
    <3> QED BY <1>2, <3>1, <3>2
  <2>2. CASE ~(block < n) /\ found
    <3>1. block' = 1
      BY <1>2, <2>2 DEF Advance, AnotherRound
    <3> QED BY <3>1
  <2>3. CASE ~(block < n) /\ ~found
    <3>1. block' = block
      BY <1>2, <2>3 DEF Advance, AnotherRound
    <3> QED BY <1>2, <2>3, <3>1
  <2> QED BY <2>1, <2>2, <2>3
<1>7. ASSUME done', NEW b \in 1 .. n PROVE AllSelected(insts'[b])
  <2>1. CASE done
    BY <1>2, <2>1
  <2>2. CASE ~done
    <3>1. ~(block < n) /\ ~found
      BY <1>2, <1>7, <2>2 DEF Advance, AnotherRound
    <3>2. b = block \/ b \in 1 .. block - 1
      BY <1>2, <3>1
    <3> QED BY <1>2, <3>1, <3>2
  <2> QED BY <2>1, <2>2
<1> QED BY <1>1, <1>4, <1>5, <1>6, <1>7 DEF SelectorInv

\* The target code of an instruction is a list.
LEMMA SelectedIsList ==
    ASSUME NEW i, IsUnselected(i), i.kind # "phi" PROVE IsList(TargetCode(i))
<1> DEFINE jump == Instr("jump", "jump", << >>, {}, {})
           one(k) == [i EXCEPT !.kind = k]
<1>1. \A x, y, z : IsList(<<x>>) /\ IsList(<<x, y>>) /\ IsList(<<x, y, z>>)
  <2> TAKE x, y, z
  <2>1. <<x>> \in Seq({x, y, z}) /\ <<x, y>> \in Seq({x, y, z}) /\ <<x, y, z>> \in Seq({x, y, z})
    OBVIOUS
  <2> QED BY <2>1 DEF IsList
<1>2. i.kind \in {"generic", "LOAD", "call", "MOV", "JMP", "BR_COND", "RET"}
  BY DEF IsUnselected
<1>3. CASE i.kind = "BR_COND"
  <2>1. \/ TargetCode(i) = <<one("op"), jump, jump>>
        \/ TargetCode(i) = <<one("bne"), jump>>
    BY <1>3 DEF TargetCode
  <2> QED BY <1>1, <2>1
<1>4. CASE i.kind = "generic"
  <2>1. TargetCode(i) = <<one("op")>>
    BY <1>4 DEF TargetCode
  <2> QED BY <1>1, <2>1
<1>5. CASE i.kind = "call"
  <2>1. TargetCode(i) = <<one(IF target = "x86_64" THEN "op" ELSE "jalr")>>
    BY <1>5 DEF TargetCode
  <2> QED BY <1>1, <2>1
<1>6. CASE i.kind \in {"MOV", "LOAD"}
  <2>1. TargetCode(i) = <<one("move")>>
    BY <1>6 DEF TargetCode
  <2> QED BY <1>1, <2>1
<1>7. CASE i.kind = "JMP"
  <2>1. TargetCode(i) = <<one("jump")>>
    BY <1>7 DEF TargetCode
  <2> QED BY <1>1, <2>1
<1>8. CASE i.kind = "RET"
  <2>1. TargetCode(i) = <<one("ret")>>
    BY <1>8 DEF TargetCode
  <2> QED BY <1>1, <2>1
<1> QED BY <1>2, <1>3, <1>4, <1>5, <1>6, <1>7, <1>8

\* A copy is put into a block, and takes nothing out of it.
LEMMA WithCopyIsList ==
    ASSUME NEW body, IsList(body), NEW copy, IsList(copy)
    PROVE  IsList(WithCopy(body, copy)) /\ Len(WithCopy(body, copy)) >= Len(body)
<1>1. PICK n \in Nat : n = Len(body) /\ DOMAIN body = 1 .. n
  BY ListLength
<1>2. PICK c \in Nat : c = Len(copy)
  BY ListLength
<1> DEFINE S == {n + 1} \cup {k \in DOMAIN body : IsBranch(body[k])}
<1>3. S \in SUBSET (1 .. n + 1) /\ n + 1 \in S
  BY <1>1
<1>4. PICK k \in 1 .. n + 1 : k = InsertPoint(body)
  <2>1. InsertPoint(body) = CHOOSE x \in S : \A y \in S : x <= y
    BY <1>1 DEF InsertPoint, Min
  <2>2. \E x \in S : \A y \in S : x <= y
    <3> HIDE DEF S
    <3>1. n + 1 \in Nat /\ S # {}
      BY <1>3
    <3> QED BY <1>3, <3>1, LeastOf
  <2>3. InsertPoint(body) \in S
    BY <2>1, <2>2
  <2> QED BY <1>3, <2>3
<1> DEFINE front == SubSeq(body, 1, k - 1)
           back == SubSeq(body, k, n)
<1>5. k \in Nat \ {0} /\ k - 1 \in 0 .. n /\ n \in 0 .. n /\ 1 \in Nat \ {0}
  OBVIOUS
<1>6. IsList(front) /\ Len(front) = k - 1
  <2>1. IsList(front) /\ Len(front) = IF 1 <= k - 1 THEN (k - 1) - 1 + 1 ELSE 0
    BY <1>1, <1>5, ListPart
  <2> QED BY <1>5, <2>1
<1>7. IsList(back) /\ Len(back) = n - k + 1
  <2>1. IsList(back) /\ Len(back) = IF k <= n THEN n - k + 1 ELSE 0
    BY <1>1, <1>5, ListPart
  <2> QED BY <1>5, <2>1
<1>8. WithCopy(body, copy) = (front \o copy) \o back
  BY <1>1, <1>4 DEF WithCopy
<1> HIDE DEF front, back
<1>9. IsList(front \o copy) /\ Len(front \o copy) = (k - 1) + c
  BY <1>2, <1>6, ListConcat
<1>10. IsList((front \o copy) \o back) /\ Len((front \o copy) \o back) = Len(front \o copy) + Len(back)
  BY <1>7, <1>9, ListConcat
<1>11. Len((front \o copy) \o back) = ((k - 1) + c) + (n - k + 1)
  BY <1>7, <1>9, <1>10
<1> QED BY <1>1, <1>8, <1>10, <1>11

\* The copy for a predecessor is one instruction or none.
LEMMA CopyIsList == ASSUME NEW phi, NEW p, NEW b PROVE IsList(CopyFor(phi, p, b))
<1> DEFINE some == <<Instr("MOV", "mov", <<phi.ops[1], phi.ops[SlotOf(p, b)]>>, {}, {})>>
<1>1. CopyFor(phi, p, b) = << >> \/ CopyFor(phi, p, b) = some
  BY DEF CopyFor
<1> QED BY <1>1, ListOne

\* A step that replaces code and moves on from any position of the new code.
LEMMA MoveOnKeeps ==
    ASSUME SelectorInv, at > 0, UNCHANGED prog,
           insts' = [b \in 1 .. Len(prog.body) |-> insts'[b]],
           \A b \in 1 .. Len(prog.body) : IsList(insts'[b]),
           NEW from \in 1 .. Len(insts'[block]) + 1,
           MoveOn(insts'[block], from)
    PROVE  SelectorInv'
<1>1. /\ block \in 1 .. Len(prog.body) /\ at \in Nat /\ found /\ ~done
      /\ Len(prog.body) \in Nat
  <2>1. Len(insts[block]) \in Nat
    BY ListLength DEF SelectorInv
  <2> QED BY <2>1 DEF SelectorInv
<1>2. PICK m \in Nat : m = Len(insts'[block])
  BY <1>1, ListLength
<1>3. from \in 1 .. m + 1
  BY <1>2
<1>4. at' = LastUnselected(insts'[block], from)
  BY DEF MoveOn
<1>5. at' \in 0 .. from - 1 /\ (at' > 0 => IsUnselected(insts'[block][at']))
  BY <1>1, <1>2, <1>3, <1>4, LastUnselectedIs
<1>6. CASE at' = 0
  <2>1. Advance
    BY <1>6 DEF MoveOn
  <2> QED BY <1>1, <1>6, <2>1, AdvanceKeeps
<1>7. CASE at' # 0
  <2>1. UNCHANGED <<block, found, done>>
    BY <1>7 DEF MoveOn
  <2>2. at' \in 0 .. Len(insts'[block])
    BY <1>2, <1>3, <1>5
  <2>3. IsUnselected(insts'[block][at'])
    BY <1>5, <1>7
  <2> DEFINE u == insts'[block][at']
  <2>4. IsUnselected(insts[block][at])' 
    BY <2>1, <2>3 DEF IsUnselected
  <2> QED BY <1>1, <2>1, <2>2, <2>4 DEF SelectorInv
<1> QED BY <1>6, <1>7

\* The facts every action starts from.
LEMMA SelectorFacts ==
    ASSUME SelectorInv
    PROVE  /\ Len(prog.body) \in Nat /\ DOMAIN insts = 1 .. Len(prog.body)
           /\ block \in 1 .. Len(prog.body) /\ IsList(insts[block])
           /\ Len(insts[block]) \in Nat /\ at \in 0 .. Len(insts[block])
<1>1. insts = [b \in 1 .. Len(prog.body) |-> insts[b]] /\ IsList(insts[block])
  BY DEF SelectorInv
<1>2. DOMAIN insts = 1 .. Len(prog.body)
  BY <1>1
<1> QED BY <1>1, <1>2, ListLength DEF SelectorInv

\* Every action keeps the invariant.
LEMMA SkipBlockKeeps == ASSUME SelectorInv, SkipBlock PROVE SelectorInv'
<1>1. at = 0 /\ ~done /\ Advance /\ UNCHANGED <<prog, insts, at>>
      /\ LastUnselected(insts[block], Len(insts[block]) + 1) = 0
  BY DEF SkipBlock
<1>2. PICK m \in Nat : m = Len(insts[block]) /\ DOMAIN insts[block] = 1 .. m
  BY SelectorFacts, ListLength
<1>3. m + 1 \in 1 .. Len(insts[block]) + 1 /\ IsList(insts[block])
  BY <1>2, SelectorFacts
<1>4. \A j \in 1 .. (m + 1) - 1 : ~IsUnselected(insts[block][j])
  BY <1>1, <1>2, <1>3, LastUnselectedIs
<1>5. AllSelected(insts[block])
  <2>1. 1 .. (m + 1) - 1 = 1 .. m
    OBVIOUS
  <2> QED BY <1>2, <1>4, <2>1 DEF AllSelected
<1>6. /\ insts = [b \in 1 .. Len(prog.body) |-> insts[b]]
      /\ \A b \in 1 .. Len(prog.body) : IsList(insts[b])
  BY DEF SelectorInv
<1>7. insts' = [b \in 1 .. Len(prog.body) |-> insts'[b]]
      /\ \A b \in 1 .. Len(prog.body) : IsList(insts'[b])
  BY <1>1, <1>6
<1> QED BY <1>1, <1>5, <1>7, AdvanceKeeps

LEMMA EnterBlockKeeps == ASSUME SelectorInv, EnterBlock PROVE SelectorInv'
<1>1. at = 0 /\ ~done /\ found' = TRUE /\ at' > 0 /\ UNCHANGED <<prog, insts, block, done>>
      /\ at' = LastUnselected(insts[block], Len(insts[block]) + 1)
  BY DEF EnterBlock
<1>2. PICK m \in Nat : m = Len(insts[block])
  BY SelectorFacts
<1>3. m + 1 \in 1 .. Len(insts[block]) + 1 /\ IsList(insts[block])
  BY <1>2, SelectorFacts
<1>4. at' \in 0 .. m /\ IsUnselected(insts[block][at'])
  <2>1. at' \in 0 .. (m + 1) - 1 /\ (at' > 0 => IsUnselected(insts[block][at']))
    BY <1>1, <1>2, <1>3, LastUnselectedIs
  <2> QED BY <1>1, <2>1
<1>5. IsUnselected(insts[block][at])'
  BY <1>1, <1>4 DEF IsUnselected
<1> QED BY <1>1, <1>2, <1>4, <1>5 DEF SelectorInv

LEMMA SelectInstructionKeeps == ASSUME SelectorInv, SelectInstruction PROVE SelectorInv'
<1>1. /\ at > 0 /\ insts[block][at].kind # "phi" /\ UNCHANGED prog
      /\ MoveOn(insts'[block], Onward(insts'[block]))
  BY DEF SelectInstruction, MoveOn
<1>2. PICK m \in Nat : m = Len(insts[block])
  BY SelectorFacts
<1>3. at \in 1 .. m /\ IsList(insts[block]) /\ IsUnselected(insts[block][at])
  <2>1. at \in 0 .. m /\ IsList(insts[block])
    BY <1>2, SelectorFacts
  <2>2. IsUnselected(insts[block][at])
    BY <1>1 DEF SelectorInv
  <2> QED BY <1>1, <2>1, <2>2
<1> DEFINE front == SubSeq(insts[block], 1, at - 1)
           back == SubSeq(insts[block], at + 1, m)
           put == TargetCode(insts[block][at])
<1>4. insts' = [insts EXCEPT ![block] = (front \o put) \o back]
  BY <1>2 DEF SelectInstruction
<1>5. IsList(put)
  BY <1>1, <1>3, SelectedIsList
<1>6. at - 1 \in 0 .. m /\ m \in 0 .. m /\ at + 1 \in Nat \ {0} /\ 1 \in Nat \ {0} /\ at \in Nat
  BY <1>3
<1>7. IsList(front) /\ Len(front) = at - 1
  <2>1. IsList(front) /\ Len(front) = IF 1 <= at - 1 THEN (at - 1) - 1 + 1 ELSE 0
    BY <1>2, <1>3, <1>6, ListPart
  <2> QED BY <1>3, <2>1
<1>8. IsList(back) /\ Len(back) \in Nat
  BY <1>2, <1>3, <1>6, ListPart, ListLength
<1> HIDE DEF front, back, put
<1>9. Len(put) \in Nat
  BY <1>5, ListLength
<1>10. IsList(front \o put) /\ Len(front \o put) = Len(front) + Len(put)
  BY <1>5, <1>7, ListConcat
<1>11. /\ IsList((front \o put) \o back)
       /\ Len((front \o put) \o back) = Len(front \o put) + Len(back)
  BY <1>8, <1>10, ListConcat
<1>13. insts'[block] = (front \o put) \o back
  BY <1>4, SelectorFacts
<1>12. Onward(insts'[block]) \in 1 .. Len(insts'[block]) + 1
  <2>1. Len(insts'[block]) \in Nat /\ at \in 1 .. Len(insts'[block]) + 1
    BY <1>3, <1>6, <1>7, <1>8, <1>9, <1>10, <1>11, <1>13
  <2> QED BY <2>1 DEF Onward
<1>14. \A b \in 1 .. Len(prog.body) : IsList(insts'[b])
  BY <1>4, <1>11, SelectorFacts DEF SelectorInv
<1>15. insts' = [b \in 1 .. Len(prog.body) |-> insts'[b]]
  BY <1>4, SelectorFacts
<1> QED BY <1>1, <1>12, <1>13, <1>14, <1>15, MoveOnKeeps

LEMMA SelectFoldingKeeps == ASSUME SelectorInv, SelectFolding PROVE SelectorInv'
<1>1. at > 0
  BY DEF SelectFolding
<1>2. PICK m \in Nat : m = Len(insts[block])
  BY SelectorFacts
<1>3. at \in 1 .. m /\ IsList(insts[block])
  BY <1>1, <1>2, SelectorFacts
<1>0. PICK d \in 1 .. at - 1 : \E add :
          /\ insts' = [insts EXCEPT ![block] = RemoveAt([@ EXCEPT ![at] = add], d)]
          /\ MoveOn(insts'[block], IF d = at - 1 THEN Len(insts[block]) ELSE at - 1)
  BY DEF SelectFolding
<1>4. PICK add :
          /\ insts' = [insts EXCEPT ![block] = RemoveAt([@ EXCEPT ![at] = add], d)]
          /\ MoveOn(insts'[block], IF d = at - 1 THEN Len(insts[block]) ELSE at - 1)
  BY <1>0
<1> DEFINE put == [insts[block] EXCEPT ![at] = add]
           front == SubSeq(put, 1, d - 1)
           back == SubSeq(put, d + 1, m)
<1>5. IsList(put) /\ Len(put) = m
  <2>1. PICK S : insts[block] \in Seq(S)
    BY <1>3 DEF IsList
  <2>2. insts[block] \in Seq(S \cup {add})
    BY <2>1
  <2>3. put \in Seq(S \cup {add}) /\ Len(put) = m
    BY <1>2, <1>3, <2>2
  <2> QED BY <2>3 DEF IsList
<1> HIDE DEF put
<1>6. /\ d \in 1 .. m /\ d < at /\ at \in 1 .. m
      /\ d - 1 \in 0 .. m /\ m \in 0 .. m /\ d + 1 \in Nat \ {0} /\ 1 \in Nat \ {0}
  BY <1>3
<1>7. IsList(front) /\ Len(front) = d - 1
  <2>1. IsList(front) /\ Len(front) = IF 1 <= d - 1 THEN (d - 1) - 1 + 1 ELSE 0
    BY <1>5, <1>6, ListPart
  <2> QED BY <1>6, <2>1
<1>8. IsList(back) /\ Len(back) = m - d
  <2>1. IsList(back) /\ Len(back) = IF d + 1 <= m THEN m - (d + 1) + 1 ELSE 0
    BY <1>5, <1>6, ListPart
  <2> QED BY <1>6, <2>1
<1>9. insts'[block] = front \o back
  <2>1. insts'[block] = RemoveAt(put, d)
    BY <1>4, SelectorFacts DEF put
  <2> QED BY <1>5, <2>1 DEF RemoveAt
<1> HIDE DEF front, back
<1>10. IsList(insts'[block]) /\ Len(insts'[block]) = m - 1
  <2>1. IsList(front \o back) /\ Len(front \o back) = Len(front) + Len(back)
    BY <1>7, <1>8, ListConcat
  <2> QED BY <1>6, <1>7, <1>8, <1>9, <2>1
<1>11. PICK from : /\ from = (IF d = at - 1 THEN Len(insts[block]) ELSE at - 1)
                  /\ MoveOn(insts'[block], from)
  BY <1>4
<1>12. from \in 1 .. Len(insts'[block]) + 1
  BY <1>2, <1>6, <1>10, <1>11
<1>13. \A b \in 1 .. Len(prog.body) : IsList(insts'[b])
  BY <1>4, <1>10, SelectorFacts DEF SelectorInv
<1>14. insts' = [b \in 1 .. Len(prog.body) |-> insts'[b]]
  BY <1>4, SelectorFacts
<1>15. UNCHANGED prog
  BY <1>11 DEF MoveOn
<1> QED BY <1>1, <1>11, <1>12, <1>13, <1>14, <1>15, MoveOnKeeps

LEMMA SelectPhiKeeps == ASSUME SelectorInv, SelectPhi PROVE SelectorInv'
<1> DEFINE phi == insts[block][at]
           used == IsUsed(phi.ops[1].regs[1])
           copied == [b \in BlockIds |-> IF used /\ b \in ToSet(Preds(block))
                                                THEN WithCopy(insts[b], CopyFor(phi, b, block))
                                                ELSE insts[b]]
<1>1. at > 0 /\ UNCHANGED prog /\ MoveOn(insts'[block], Onward(insts'[block]))
      /\ insts' = [copied EXCEPT ![block] = RemoveAt(@, at)]
  BY DEF SelectPhi, MoveOn
<1>2. PICK m \in Nat : m = Len(insts[block])
  BY SelectorFacts
<1>3. at \in 1 .. m
  <2>1. at > 0 /\ at \in 0 .. m
    BY <1>1, <1>2, SelectorFacts
  <2> QED BY <2>1
<1>4. DOMAIN copied = 1 .. Len(prog.body)
  BY SelectorFacts DEF BlockIds
<1>5. ASSUME NEW b \in 1 .. Len(prog.body)
      PROVE  IsList(copied[b]) /\ Len(copied[b]) >= Len(insts[b])
  <2>1. IsList(insts[b]) /\ Len(insts[b]) \in Nat
    BY ListLength DEF SelectorInv
  <2>2. IsList(CopyFor(phi, b, block))
    BY CopyIsList
  <2> DEFINE w == WithCopy(insts[b], CopyFor(phi, b, block))
  <2>3. IsList(w) /\ Len(w) >= Len(insts[b])
    BY <2>1, <2>2, WithCopyIsList
  <2>4. copied[b] = w \/ copied[b] = insts[b]
    BY SelectorFacts DEF BlockIds
  <2> HIDE DEF copied, w
  <2> QED BY <2>1, <2>3, <2>4
<1> HIDE DEF copied
<1>6. IsList(copied[block]) /\ Len(copied[block]) >= m
  BY <1>2, <1>5, SelectorFacts
<1>7. PICK c \in Nat : c = Len(copied[block])
  BY <1>6, ListLength
<1> DEFINE front == SubSeq(copied[block], 1, at - 1)
           back == SubSeq(copied[block], at + 1, c)
<1>8. insts'[block] = front \o back
  BY <1>1, <1>4, <1>7, SelectorFacts DEF RemoveAt
<1>9. at - 1 \in 0 .. c /\ c \in 0 .. c /\ at + 1 \in Nat \ {0} /\ 1 \in Nat \ {0} /\ at \in Nat
  BY <1>3, <1>6, <1>7
<1>10. IsList(front) /\ Len(front) = at - 1
  <2>1. IsList(front) /\ Len(front) = IF 1 <= at - 1 THEN (at - 1) - 1 + 1 ELSE 0
    BY <1>6, <1>7, <1>9, ListPart
  <2> QED BY <1>3, <2>1
<1>11. IsList(back) /\ Len(back) \in Nat
  BY <1>6, <1>7, <1>9, ListPart, ListLength
<1> HIDE DEF front, back
<1>12. IsList(front \o back) /\ Len(front \o back) = Len(front) + Len(back)
  BY <1>10, <1>11, ListConcat
<1>13. Onward(insts'[block]) \in 1 .. Len(insts'[block]) + 1
  <2>1. Len(insts'[block]) \in Nat /\ at \in 1 .. Len(insts'[block]) + 1
    BY <1>3, <1>8, <1>9, <1>10, <1>11, <1>12
  <2> QED BY <2>1 DEF Onward
<1>14. \A b \in 1 .. Len(prog.body) : b # block => insts'[b] = copied[b]
  BY <1>1, <1>4
<1>15. \A b \in 1 .. Len(prog.body) : IsList(insts'[b])
  BY <1>5, <1>8, <1>12, <1>14
<1>16. insts' = [b \in 1 .. Len(prog.body) |-> insts'[b]]
  BY <1>1, <1>4
<1> QED BY <1>1, <1>13, <1>15, <1>16, MoveOnKeeps

LEMMA SelectorKeeps == ASSUME SelectorInv, [SelectorNext]_selectorVars PROVE SelectorInv'
<1>1. CASE UNCHANGED selectorVars
  <2>1. UNCHANGED <<prog, insts, block, at, found, done>>
    BY <1>1 DEF selectorVars
  <2> QED BY <2>1 DEF SelectorInv, IsUnselected
<1>2. CASE SkipBlock
  BY <1>2, SkipBlockKeeps
<1>3. CASE EnterBlock
  BY <1>3, EnterBlockKeeps
<1>4. CASE SelectInstruction
  BY <1>4, SelectInstructionKeeps
<1>5. CASE SelectFolding
  BY <1>5, SelectFoldingKeeps
<1>6. CASE SelectPhi
  BY <1>6, SelectPhiKeeps
<1> QED BY <1>1, <1>2, <1>3, <1>4, <1>5, <1>6 DEF SelectorNext

\* The loop of selectFunction, which stops after a round that found nothing,
\* leaves no generic instruction behind: whatever a round puts behind its
\* cursor, the copies of a phi in another block included, the next one finds.
THEOREM SelectionIsComplete == SelectorSpec => []EverythingSelected
<1>1. SelectorInit => SelectorInv
  BY SelectorStarts
<1>2. SelectorInv /\ [SelectorNext]_selectorVars => SelectorInv'
  BY SelectorKeeps
<1>3. SelectorInv => EverythingSelected
  <2> SUFFICES ASSUME SelectorInv, done, NEW i \in AllCode PROVE ~IsUnselected(i)
    BY DEF EverythingSelected
  <2>1. PICK b \in 1 .. Len(prog.body) : i \in ToSet(insts[b])
    BY SelectorFacts DEF AllCode, BlockIds
  <2>2. PICK k \in DOMAIN insts[b] : i = insts[b][k]
    BY <2>1 DEF ToSet
  <2>3. AllSelected(insts[b])
    BY DEF SelectorInv
  <2> QED BY <2>2, <2>3 DEF AllSelected
<1> QED BY <1>1, <1>2, <1>3, PTL DEF SelectorSpec
=============================================================================
