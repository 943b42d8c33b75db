------------------------ MODULE ObjectEmission_proofs ------------------------
(***************************************************************************)
(* For any module and any target: no two symbols of a section share a      *)
(* byte, the branches of the finished text lead to the code of their       *)
(* blocks, the parts of the file follow one another, its symbols cover     *)
(* what was emitted for them, and what an instruction refers to is where   *)
(* the linker finds it from the symbols and the relocations.               *)
(***************************************************************************)
EXTENDS ObjectEmission, WellFoundedInduction, TLAPS

SymbolSet == [name : STRING, section : SectionTypes \cup {"Undefined"}, offset : Nat, size : Nat,
              isGlobal : BOOLEAN, isWeak : BOOLEAN, isFunction : BOOLEAN]

\* Where the emission stands.
PlaceInv ==
    /\ module \in Modules /\ target \in Targets
    /\ global \in Nat \ {0}
    /\ place \in Nat \X Nat \X Nat
    /\ global > Len(Globals) \/ place[2] = 0
    /\ InFunction(place[1]) /\ place[3] > 0 => place[3] \in DOMAIN Code(place)

\* Offsets only grow, and the function that is being emitted starts in front
\* of them.
OffsetInv ==
    /\ cursorOffset \in [SectionTypes -> Nat]
    /\ functionOffset \in Nat
    /\ place[2] # 0 => functionOffset <= cursorOffset["Text"]

End(symbol) == symbol.offset + symbol.size

\* Every symbol ends in front of the running offset of its section, and those
\* of the text in front of the function that is being emitted.
SymbolInv ==
    /\ symbols \in Seq(SymbolSet)
    /\ \A k \in DOMAIN symbols : symbols[k].section # "Undefined" =>
           End(symbols[k]) <= cursorOffset[symbols[k].section]
    /\ place[2] # 0 => \A k \in DOMAIN symbols : symbols[k].section = "Text" =>
           End(symbols[k]) <= functionOffset

\* Every relocation that names a function names one of the module.
RelocSet(functions) ==
    {r \in [type : {"PCRel32", "BranchRel32"}, address : Int, of : Nat \X Nat \X Nat,
            ref : [to : {"None", "Block", "Function", "Global"}, id : Nat]] :
        r.ref.to = "Function" => r.ref.id \in DOMAIN functions}
RelocInv ==
    /\ resolved \in Nat
    /\ funcRelocs \in Seq(RelocSet(Functions)) /\ relocations \in Seq(RelocSet(Functions))

Inv == PlaceInv /\ OffsetInv /\ SymbolInv /\ RelocInv /\ SymbolsDisjoint
-----------------------------------------------------------------------------
(* Alignment only moves up.                                                *)
LEMMA AlignUpGrows ==
    ASSUME NEW offset \in Nat, NEW a \in Nat \ {0}
    PROVE  AlignUp(offset, a) \in Nat /\ AlignUp(offset, a) >= offset
<1>1. offset % a \in 0 .. a - 1
    OBVIOUS
<1>2. a - (offset % a) \in Nat
    BY <1>1
<1>3. (a - (offset % a)) % a \in 0 .. a - 1
    BY <1>2
<1> QED
    BY <1>3 DEF AlignUp

\* A symbol that starts behind all others of its section keeps them apart.
LEMMA AppendKeepsDisjoint ==
    ASSUME symbols \in Seq(SymbolSet), SymbolsDisjoint, NEW s \in SymbolSet,
           symbols' = Append(symbols, s),
           s.section # "Undefined" =>
               \A k \in DOMAIN symbols : symbols[k].section = s.section => End(symbols[k]) <= s.offset
    PROVE  SymbolsDisjoint'
<1>1. /\ symbols' \in Seq(SymbolSet)
      /\ DOMAIN symbols = 1 .. Len(symbols)
      /\ DOMAIN symbols' = 1 .. Len(symbols) + 1
      /\ \A k \in DOMAIN symbols : symbols'[k] = symbols[k]
      /\ symbols'[Len(symbols) + 1] = s
    OBVIOUS
<1>2. SUFFICES ASSUME NEW j \in DOMAIN symbols', NEW k \in DOMAIN symbols', j < k,
                      symbols'[j].section = symbols'[k].section,
                      symbols'[k].section # "Undefined"
               PROVE  symbols'[j].offset + symbols'[j].size <= symbols'[k].offset
    BY DEF SymbolsDisjoint
<1>3. j \in DOMAIN symbols /\ symbols'[j] = symbols[j]
    BY <1>1, <1>2
<1>4. CASE k \in DOMAIN symbols
    BY <1>1, <1>2, <1>3, <1>4 DEF SymbolsDisjoint
<1>5. CASE k = Len(symbols) + 1
    BY <1>1, <1>2, <1>3, <1>5 DEF End
<1> QED
    BY <1>1, <1>4, <1>5

\* A global that is emitted has a size, an alignment and a section of its own.
LEMMA GlobalShape ==
    ASSUME PlaceInv, global <= Len(Globals)
    PROVE  LET g == Globals[global]
           IN  /\ g \in GlobalVars
               /\ SizeOf(g) \in Nat /\ AlignmentOf(g) \in Nat \ {0}
               /\ SectionOf(g) \in SectionTypes \ {"Text"}
<1>1. Globals[global] \in GlobalVars
    BY ModulesAssumption DEF PlaceInv, Globals
<1>2. SizeOf(Globals[global]) \in Nat \ {0}
    BY <1>1 DEF SizeOf, Larger, GlobalVars
<1>3. AlignmentOf(Globals[global]) \in Nat \ {0}
    BY <1>2 DEF AlignmentOf
<1>4. SectionOf(Globals[global]) \in SectionTypes \ {"Text"}
    BY <1>1 DEF SectionOf, SectionTypes
<1> QED
    BY <1>1, <1>2, <1>3, <1>4

\* A sequence over a set has its elements there.
LEMMA ElementsIn ==
    ASSUME NEW S, NEW s \in Seq(S), NEW k \in 1 .. Len(s)
    PROVE  s[k] \in S
OBVIOUS

\* The code of the block that is emitted is made of instructions.
LEMMA CodeShape ==
    ASSUME PlaceInv, InFunction(place[1])
    PROVE  Code(place) \in Seq(Insts)
<1>1. place[1] \in 1 .. Len(Functions) /\ Functions \in Seq(MirFunctions)
    BY ModulesAssumption DEF PlaceInv, InFunction, ReadyFor, Functions
<1>2. Functions[place[1]] \in MirFunctions
    BY <1>1, ElementsIn
<1>3. Functions[place[1]].blocks \in Seq(Blocks)
    BY <1>2 DEF MirFunctions
<1>4. place[2] \in 1 .. Len(Functions[place[1]].blocks)
    BY DEF InFunction
<1>5. Functions[place[1]].blocks[place[2]] \in Blocks
    BY <1>3, <1>4, ElementsIn
<1> QED
    BY <1>5 DEF Code, Blocks

\* The instruction that comes next has a size.
LEMMA InstShape ==
    ASSUME PlaceInv, InFunction(place[1]), place[3] > 0,
           Code(place)[place[3]].kind # "Unencodable"
    PROVE  LengthOf(Code(place)[place[3]]) \in Nat
<1>4. Code(place) \in Seq(Insts)
    BY CodeShape
<1>5. Code(place)[place[3]] \in Insts
    BY <1>4 DEF PlaceInv
<1>6. target.riscv \in BOOLEAN
    BY TargetsAssumption DEF PlaceInv
<1> QED
    BY <1>5, <1>6 DEF LengthOf, Insts

\* The place that comes next is in the same function.
LEMMA NextPlaceShape ==
    ASSUME PlaceInv, InFunction(place[1])
    PROVE  LET q == NextPlace(place)
           IN  /\ q \in Nat \X Nat \X Nat /\ q[1] = place[1] /\ q[2] # 0
               /\ q[3] > 0 => q[2] = place[2] /\ q[3] \in DOMAIN Code(place)
<1>4. Code(place) \in Seq(Insts)
    BY CodeShape
<1>5. place[1] \in Nat /\ place[2] \in Nat /\ place[3] \in Nat /\ place[2] # 0
    BY DEF PlaceInv, InFunction
<1>6. CASE place[3] < Len(Code(place))
  <2>1. NextPlace(place) = <<place[1], place[2], place[3] + 1>>
    BY <1>6 DEF NextPlace
  <2>2. place[3] + 1 \in DOMAIN Code(place)
    BY <1>4, <1>5, <1>6
  <2> QED
    BY <1>5, <2>1, <2>2
<1>7. CASE ~(place[3] < Len(Code(place)))
  <2>1. NextPlace(place) = <<place[1], place[2] + 1, 0>>
    BY <1>7 DEF NextPlace
  <2> QED
    BY <1>5, <2>1
<1> QED
    BY <1>6, <1>7

-----------------------------------------------------------------------------
(* The steps.                                                              *)

\* The initial states satisfy the invariant of the symbols.
LEMMA InitEstablishesInv == Init => Inv
BY DEF Init, Inv, PlaceInv, OffsetInv, SymbolInv, RelocInv, SymbolsDisjoint, InFunction, ReadyFor

\* A step that leaves the symbols and the function alone, and moves no
\* section back, keeps the symbols where they are.
LEMMA GrowthKeepsSymbols ==
    ASSUME Inv, OffsetInv', UNCHANGED <<symbols, functionOffset>>,
           \A t \in SectionTypes : cursorOffset[t] <= cursorOffset'[t],
           place'[2] # 0 => place[2] # 0
    PROVE  SymbolInv' /\ SymbolsDisjoint'
<1>1. symbols \in Seq(SymbolSet) /\ symbols' = symbols
    BY DEF Inv, SymbolInv
<1>2. ASSUME NEW k \in DOMAIN symbols, symbols[k].section # "Undefined"
      PROVE  End(symbols[k]) <= cursorOffset'[symbols[k].section]
  <2>1. symbols[k] \in SymbolSet
      BY <1>1
  <2>2. symbols[k].section \in SectionTypes /\ End(symbols[k]) \in Nat
      BY <2>1, <1>2 DEF SymbolSet, End
  <2>3. End(symbols[k]) <= cursorOffset[symbols[k].section]
      BY <1>2 DEF Inv, SymbolInv
  <2>4. /\ cursorOffset[symbols[k].section] \in Nat
        /\ cursorOffset'[symbols[k].section] \in Nat
        /\ cursorOffset[symbols[k].section] <= cursorOffset'[symbols[k].section]
      BY <2>2 DEF Inv, OffsetInv
  <2> QED
      BY <2>2, <2>3, <2>4
<1>3. SymbolInv'
  <2>1. symbols' \in Seq(SymbolSet)
      BY <1>1
  <2>2. (\A k \in DOMAIN symbols : symbols[k].section # "Undefined" =>
            End(symbols[k]) <= cursorOffset[symbols[k].section])'
      BY <1>1, <1>2 DEF End
  <2>3. (place[2] # 0 => \A k \in DOMAIN symbols : symbols[k].section = "Text" =>
            End(symbols[k]) <= functionOffset)'
      BY <1>1 DEF Inv, SymbolInv, End
  <2> QED
      BY <2>1, <2>2, <2>3 DEF SymbolInv
<1>4. SymbolsDisjoint'
    BY <1>1 DEF Inv, SymbolsDisjoint
<1> QED
    BY <1>3, <1>4

\* An undefined symbol more disturbs no other.
LEMMA UndefinedKeepsSymbols ==
    ASSUME Inv, NEW s \in SymbolSet, s.section = "Undefined", symbols' = Append(symbols, s),
           UNCHANGED <<cursorOffset, functionOffset>>, place' = place
    PROVE  SymbolInv' /\ SymbolsDisjoint'
<1>1. /\ symbols \in Seq(SymbolSet) /\ symbols' \in Seq(SymbolSet)
      /\ DOMAIN symbols' = 1 .. Len(symbols) + 1 /\ DOMAIN symbols = 1 .. Len(symbols)
      /\ \A k \in DOMAIN symbols : symbols'[k] = symbols[k]
      /\ symbols'[Len(symbols) + 1] = s
    BY DEF Inv, SymbolInv
<1>2. SymbolsDisjoint'
    BY <1>1, AppendKeepsDisjoint DEF Inv
<1>3. SymbolInv'
    BY <1>1 DEF Inv, SymbolInv, End
<1> QED
    BY <1>2, <1>3

\* Relocations are only recorded for the instruction that is emitted.
LEMMA StepKeepsRelocs == Inv /\ [Next]_vars => RelocInv'
<1> SUFFICES ASSUME Inv, [Next]_vars PROVE RelocInv'
    OBVIOUS
<1> DEFINE R == RelocSet(Functions)
<1>1. funcRelocs \in Seq(R) /\ relocations \in Seq(R)
    BY DEF Inv, RelocInv
<1>2. module' = module
    BY DEF Next, EmitGlobal, SkipDeclaration, BeginFunction, BindBlock, EmitInst, RejectInst,
           EndFunction, Finalize, PatchBranch, ReferToFunction, ReferToGlobal, Write, vars
<1>3. R' = R
    BY <1>2 DEF Functions
<1>8. resolved' \in Nat
  <2>1. resolved \in Nat
      BY DEF Inv, RelocInv
  <2>2. CASE PatchBranch \/ ReferToFunction \/ ReferToGlobal
      BY <2>1, <2>2 DEF PatchBranch, ReferToFunction, ReferToGlobal, Resolving
  <2>3. CASE ~(PatchBranch \/ ReferToFunction \/ ReferToGlobal)
      BY <2>1, <2>3 DEF Next, EmitGlobal, SkipDeclaration, BeginFunction, BindBlock, EmitInst,
             RejectInst, EndFunction, Finalize, Write, resolution, vars
  <2> QED
      BY <2>2, <2>3
<1>4. SUFFICES funcRelocs' \in Seq(R) /\ relocations' \in Seq(R)
    BY <1>3, <1>8 DEF RelocInv
<1> HIDE DEF R
<1>5. CASE EmitInst
  <2> DEFINE inst == Code(place)[place[3]]
             reloc == RelocOf(inst, cursorOffset["Text"])
  <2>1. InFunction(place[1]) /\ place[3] > 0 /\ inst.kind # "Unencodable"
      BY <1>5 DEF EmitInst
  <2>2. LengthOf(inst) \in Nat
      BY <2>1, InstShape DEF Inv
  <2>3. inst \in Insts /\ place[3] \in DOMAIN Code(place)
      BY <2>1, CodeShape DEF Inv, PlaceInv
  <2>4. module \in Modules /\ place[1] \in DOMAIN Functions
        /\ place[2] \in DOMAIN Functions[place[1]].blocks
    <3>1. module \in Modules /\ Functions \in Seq(MirFunctions) /\ place[1] \in 1 .. Len(Functions)
        BY <2>1, ModulesAssumption DEF Inv, PlaceInv, InFunction, ReadyFor, Functions
    <3>2. Functions[place[1]] \in MirFunctions
        BY <3>1, ElementsIn
    <3>3. Functions[place[1]].blocks \in Seq(Blocks)
        BY <3>2 DEF MirFunctions
    <3> QED
        BY <2>1, <3>1, <3>3 DEF InFunction
  <2>5. inst.ref.to = "Function" => inst.ref.id \in DOMAIN Functions
      BY <2>3, <2>4, ReferencesAssumption DEF Code, Functions
  <2>6. inst.ref \in [to : {"None", "Block", "Function", "Global"}, id : Nat]
      BY <2>3 DEF Insts
  <2>7. place \in Nat \X Nat \X Nat /\ cursorOffset["Text"] \in Nat
      BY DEF Inv, PlaceInv, OffsetInv, SectionTypes
  <2>8. reloc \in R
    <3>1. reloc.type \in {"PCRel32", "BranchRel32"} /\ reloc.address \in Int
      <4>1. reloc.type \in {"PCRel32", "BranchRel32"}
          BY DEF RelocOf
      <4>2. reloc.address \in {cursorOffset["Text"], cursorOffset["Text"] + LengthOf(inst) - 4}
          BY DEF RelocOf
      <4> HIDE DEF reloc
      <4> QED
          BY <2>2, <2>7, <4>1, <4>2
    <3>2. reloc = [type |-> reloc.type, address |-> reloc.address, of |-> place, ref |-> inst.ref]
        BY DEF RelocOf
    <3> HIDE DEF reloc
    <3> QED
        BY <2>5, <2>6, <2>7, <3>1, <3>2 DEF R, RelocSet
  <2> QED
      BY <1>1, <1>5, <2>8 DEF EmitInst
<1>6. CASE EndFunction
    BY <1>1, <1>6 DEF EndFunction
<1>7. CASE ~EmitInst /\ ~EndFunction
    BY <1>1, <1>7 DEF Next, EmitGlobal, SkipDeclaration, BeginFunction, BindBlock, RejectInst,
           Finalize, PatchBranch, ReferToFunction, ReferToGlobal, Write, vars, emission, labelling
<1> QED
    BY <1>5, <1>6, <1>7

\* Every step keeps the invariant of the symbols.
LEMMA StepKeepsInv == Inv /\ [Next]_vars => Inv'
<1> SUFFICES ASSUME Inv, [Next]_vars PROVE Inv'
    OBVIOUS
<1>0. RelocInv'
    BY StepKeepsRelocs
<1> SUFFICES PlaceInv' /\ OffsetInv' /\ SymbolInv' /\ SymbolsDisjoint'
    BY <1>0 DEF Inv
<1> USE DEF Inv
<1>1. CASE EmitGlobal
  <2> DEFINE g == Globals[global]
             type == SectionOf(g)
             aligned == AlignUp(cursorOffset[type], AlignmentOf(g))
  <2>1. /\ g \in GlobalVars /\ type \in SectionTypes \ {"Text"}
        /\ SizeOf(g) \in Nat /\ AlignmentOf(g) \in Nat \ {0}
      BY <1>1, GlobalShape DEF EmitGlobal
  <2>2. PlaceInv'
    <3>1. place[2] = 0 /\ UNCHANGED <<module, target, place>> /\ global' = global + 1
        BY <1>1 DEF EmitGlobal, PlaceInv
    <3>2. ~InFunction(place[1])'
        BY <3>1 DEF InFunction
    <3> QED
        BY <3>1, <3>2 DEF PlaceInv
  <2>3. CASE g.isDeclaration
    <3>1. Symbol(g, "Undefined", 0, 0, FALSE) \in SymbolSet
        BY <2>1 DEF Symbol, SymbolSet, GlobalVars
    <3>2. SymbolInv' /\ SymbolsDisjoint'
        BY <1>1, <2>3, <3>1, UndefinedKeepsSymbols DEF EmitGlobal, Symbol
    <3> QED
        BY <1>1, <2>2, <2>3, <3>2 DEF EmitGlobal, OffsetInv
  <2>4. CASE ~g.isDeclaration
    <3> DEFINE s == Symbol(g, type, aligned, SizeOf(g), FALSE)
    <3>1. cursorOffset[type] \in Nat /\ aligned \in Nat /\ aligned >= cursorOffset[type]
        BY <2>1, AlignUpGrows DEF OffsetInv
    <3>2. /\ symbols' = Append(symbols, s)
          /\ cursorOffset' = [cursorOffset EXCEPT ![type] = aligned + SizeOf(g)]
          /\ UNCHANGED <<place, functionOffset>>
        BY <1>1, <2>4 DEF EmitGlobal, OffsetOf
    <3>3. s \in SymbolSet /\ s.section = type /\ s.offset = aligned /\ s.size = SizeOf(g)
        BY <2>1, <3>1 DEF Symbol, SymbolSet, GlobalVars
    <3>4. OffsetInv'
        BY <2>1, <3>1, <3>2 DEF OffsetInv
    <3> HIDE DEF s
    <3>5. /\ symbols \in Seq(SymbolSet) /\ symbols' \in Seq(SymbolSet)
          /\ DOMAIN symbols' = 1 .. Len(symbols) + 1 /\ DOMAIN symbols = 1 .. Len(symbols)
          /\ \A k \in DOMAIN symbols : symbols'[k] = symbols[k]
          /\ symbols'[Len(symbols) + 1] = s
        BY <3>2, <3>3 DEF SymbolInv
    <3>6. \A k \in DOMAIN symbols : symbols[k].section # "Undefined" =>
              /\ symbols[k].section \in SectionTypes
              /\ End(symbols[k]) \in Nat
              /\ End(symbols[k]) <= cursorOffset[symbols[k].section]
      <4>1. \A k \in DOMAIN symbols : symbols[k] \in SymbolSet
          BY <3>5
      <4> QED
          BY <4>1 DEF SymbolInv, SymbolSet, End
    <3>7. SymbolsDisjoint'
      <4>1. \A k \in DOMAIN symbols : symbols[k].section = s.section => End(symbols[k]) <= s.offset
        <5> SUFFICES ASSUME NEW k \in DOMAIN symbols, symbols[k].section = type
                     PROVE  End(symbols[k]) <= aligned
            BY <3>3
        <5>1. End(symbols[k]) \in Nat /\ End(symbols[k]) <= cursorOffset[type]
            BY <2>1, <3>6 DEF SectionTypes
        <5> HIDE DEF aligned, type
        <5> QED
            BY <3>1, <5>1
      <4> HIDE DEF type
      <4> QED
          BY <3>2, <3>3, <3>5, <4>1, AppendKeepsDisjoint
    <3>8. SymbolInv'
      <4>1. \A k \in DOMAIN symbols : symbols[k].section # "Undefined" =>
                End(symbols[k]) <= cursorOffset'[symbols[k].section]
        <5> SUFFICES ASSUME NEW k \in DOMAIN symbols, symbols[k].section # "Undefined"
                     PROVE  End(symbols[k]) <= cursorOffset'[symbols[k].section]
            OBVIOUS
        <5>1. CASE symbols[k].section = type
            BY <2>1, <3>1, <3>2, <3>6, <5>1 DEF OffsetInv
        <5>2. CASE symbols[k].section # type
            BY <3>2, <3>6, <5>2 DEF OffsetInv
        <5> QED
            BY <5>1, <5>2
      <4>2. End(s) = cursorOffset'[type]
          BY <2>1, <3>2, <3>3 DEF End, OffsetInv
      <4>3. (\A k \in DOMAIN symbols : symbols[k].section # "Undefined" =>
                End(symbols[k]) <= cursorOffset[symbols[k].section])'
        <5> HIDE DEF type, aligned
        <5>1. ASSUME NEW k \in DOMAIN symbols', symbols'[k].section # "Undefined"
              PROVE  End(symbols'[k]) <= cursorOffset'[symbols'[k].section]
          <6>1. CASE k \in DOMAIN symbols
              BY <3>5, <4>1, <5>1, <6>1
          <6>2. CASE k = Len(symbols) + 1
            <7>1. symbols'[k] = s
                BY <3>5, <6>2
            <7>2. cursorOffset'[type] \in Nat
                BY <2>1, <3>4 DEF OffsetInv
            <7> QED
                BY <3>3, <4>2, <7>1, <7>2
          <6> QED
              BY <3>5, <6>1, <6>2
        <5> QED
            BY <5>1 DEF End
      <4>4. (place[2] # 0 => \A k \in DOMAIN symbols : symbols[k].section = "Text" =>
                End(symbols[k]) <= functionOffset)'
        <5>1. place'[2] = 0
            BY <1>1 DEF EmitGlobal, PlaceInv
        <5> QED
            BY <5>1
      <4> QED
          BY <3>5, <4>3, <4>4 DEF SymbolInv
    <3> QED
        BY <2>2, <3>4, <3>7, <3>8
  <2> QED
      BY <2>3, <2>4
<1>2. CASE SkipDeclaration
  <2>1. PlaceInv'
      BY <1>2 DEF SkipDeclaration, PlaceInv, ReadyFor, Globals, InFunction
  <2>2. OffsetInv' /\ UNCHANGED <<symbols, functionOffset, cursorOffset>> /\ place'[2] = 0
      BY <1>2 DEF SkipDeclaration, OffsetInv, emission
  <2> QED
      BY <2>1, <2>2, GrowthKeepsSymbols DEF OffsetInv
<1>3. CASE BeginFunction
  <2> DEFINE aligned == AlignUp(cursorOffset["Text"], FunctionAlignment)
  <2>1. cursorOffset["Text"] \in Nat /\ aligned \in Nat /\ aligned >= cursorOffset["Text"]
      BY AlignUpGrows DEF OffsetInv, SectionTypes, FunctionAlignment
  <2>2. PlaceInv'
      BY <1>3 DEF BeginFunction, PlaceInv, ReadyFor, Globals
  <2>3. /\ functionOffset' = aligned /\ cursorOffset' = [cursorOffset EXCEPT !["Text"] = aligned]
        /\ UNCHANGED symbols
      BY <1>3 DEF BeginFunction
  <2>4. OffsetInv'
      BY <2>1, <2>3 DEF OffsetInv, SectionTypes
  <2>5. SymbolInv'
    <3>1. \A k \in DOMAIN symbols : symbols[k].section # "Undefined" =>
              /\ symbols[k].section \in SectionTypes
              /\ End(symbols[k]) \in Nat
              /\ End(symbols[k]) <= cursorOffset[symbols[k].section]
      <4>1. symbols \in Seq(SymbolSet)
          BY DEF SymbolInv
      <4>2. \A k \in DOMAIN symbols : symbols[k] \in SymbolSet
          BY <4>1
      <4> QED
          BY <4>2 DEF SymbolInv, SymbolSet, End
    <3>2. \A k \in DOMAIN symbols : symbols[k].section # "Undefined" =>
              End(symbols[k]) <= cursorOffset'[symbols[k].section]
      <4> SUFFICES ASSUME NEW k \in DOMAIN symbols, symbols[k].section # "Undefined"
                   PROVE  End(symbols[k]) <= cursorOffset'[symbols[k].section]
          OBVIOUS
      <4>1. CASE symbols[k].section = "Text"
          BY <2>1, <2>3, <3>1, <4>1 DEF OffsetInv, SectionTypes
      <4>2. CASE symbols[k].section # "Text"
          BY <2>3, <3>1, <4>2 DEF OffsetInv
      <4> QED
          BY <4>1, <4>2
    <3>3. \A k \in DOMAIN symbols : symbols[k].section = "Text" => End(symbols[k]) <= functionOffset'
        BY <2>1, <2>3, <3>1
    <3> QED
        BY <2>3, <3>2, <3>3 DEF SymbolInv, End
  <2> QED
      BY <2>2, <2>3, <2>4, <2>5 DEF SymbolsDisjoint
<1>4. CASE BindBlock
  <2>1. PlaceInv'
    <3>1. NextPlace(place) = place' /\ InFunction(place[1])
        BY <1>4 DEF BindBlock
    <3>2. /\ place' \in Nat \X Nat \X Nat /\ place'[1] = place[1] /\ place'[2] # 0
          /\ place'[3] > 0 => place'[2] = place[2] /\ place'[3] \in DOMAIN Code(place)
        BY <3>1, NextPlaceShape
    <3>3. place'[3] > 0 => Code(place)' = Code(place)
        BY <1>4, <3>2 DEF BindBlock, Code, Functions
    <3> QED
        BY <1>4, <3>2, <3>3 DEF BindBlock, PlaceInv, InFunction, ReadyFor, Globals
  <2>2. UNCHANGED <<symbols, functionOffset, cursorOffset>> /\ place[2] # 0
      BY <1>4 DEF BindBlock, InFunction
  <2>3. OffsetInv'
      BY <2>2 DEF OffsetInv
  <2> QED
      BY <2>1, <2>2, <2>3, GrowthKeepsSymbols DEF OffsetInv
<1>5. CASE EmitInst
  <2> DEFINE size == LengthOf(Code(place)[place[3]])
  <2>1. size \in Nat /\ InFunction(place[1]) /\ place' = NextPlace(place)
      BY <1>5, InstShape DEF EmitInst
  <2>2. PlaceInv'
    <3>1. /\ place' \in Nat \X Nat \X Nat /\ place'[1] = place[1] /\ place'[2] # 0
          /\ place'[3] > 0 => place'[2] = place[2] /\ place'[3] \in DOMAIN Code(place)
        BY <2>1, NextPlaceShape
    <3>2. place'[3] > 0 => Code(place)' = Code(place)
        BY <1>5, <3>1 DEF EmitInst, Code, Functions
    <3> QED
        BY <1>5, <3>1, <3>2 DEF EmitInst, PlaceInv, InFunction, ReadyFor, Globals
  <2>3. /\ cursorOffset' = [cursorOffset EXCEPT !["Text"] = cursorOffset["Text"] + size]
        /\ UNCHANGED <<symbols, functionOffset>> /\ place[2] # 0
      BY <1>5 DEF EmitInst, InFunction
  <2>4. OffsetInv' /\ \A t \in SectionTypes : cursorOffset[t] <= cursorOffset'[t]
      BY <2>1, <2>3 DEF OffsetInv, SectionTypes
  <2> QED
      BY <2>2, <2>3, <2>4, GrowthKeepsSymbols
<1>6. CASE RejectInst
  <2>1. PlaceInv'
      BY <1>6 DEF RejectInst, PlaceInv, InFunction, ReadyFor, Globals
  <2>2. UNCHANGED <<symbols, functionOffset, cursorOffset, place>>
      BY <1>6 DEF RejectInst, emission
  <2>3. OffsetInv'
      BY <2>2 DEF OffsetInv
  <2> QED
      BY <2>1, <2>2, <2>3, GrowthKeepsSymbols DEF OffsetInv
<1>7. CASE EndFunction
  <2> DEFINE f == Functions[place[1]]
             s == Symbol(f, "Text", functionOffset, cursorOffset["Text"] - functionOffset, TRUE)
  <2>1. f \in MirFunctions
      BY <1>7, ModulesAssumption, ElementsIn DEF EndFunction, PlaceInv, ReadyFor, Functions
  <2>2. PlaceInv'
      BY <1>7 DEF EndFunction, PlaceInv, ReadyFor, InFunction
  <2>3. /\ symbols' = Append(symbols, s) /\ UNCHANGED <<cursorOffset, functionOffset>>
        /\ place'[2] = 0
      BY <1>7 DEF EndFunction
  <2>4. place[2] # 0
    <3>1. f.blocks \in Seq(Blocks)
        BY <2>1 DEF MirFunctions
    <3>2. Len(f.blocks) \in Nat
        BY <3>1
    <3> QED
        BY <1>7, <3>2 DEF EndFunction, PlaceInv
  <2>5. /\ cursorOffset["Text"] \in Nat /\ functionOffset \in Nat
        /\ cursorOffset["Text"] - functionOffset \in Nat
      BY <2>4 DEF OffsetInv, SectionTypes
  <2>6. s \in SymbolSet /\ s.section = "Text" /\ s.offset = functionOffset
        /\ End(s) = cursorOffset["Text"]
      BY <2>1, <2>5 DEF Symbol, SymbolSet, MirFunctions, SectionTypes, End
  <2>7. /\ symbols \in Seq(SymbolSet) /\ symbols' \in Seq(SymbolSet)
        /\ DOMAIN symbols' = 1 .. Len(symbols) + 1 /\ DOMAIN symbols = 1 .. Len(symbols)
        /\ \A k \in DOMAIN symbols : symbols'[k] = symbols[k]
        /\ symbols'[Len(symbols) + 1] = s
    <3> HIDE DEF s
    <3> QED
        BY <2>3, <2>6 DEF SymbolInv
  <2>8. \A k \in DOMAIN symbols : symbols[k].section = "Text" => End(symbols[k]) <= functionOffset
      BY <2>4 DEF SymbolInv
  <2>9. SymbolsDisjoint'
      BY <2>3, <2>6, <2>7, <2>8, AppendKeepsDisjoint
  <2>10. SymbolInv'
    <3> HIDE DEF s, f
    <3>1. ASSUME NEW k \in DOMAIN symbols', symbols'[k].section # "Undefined"
          PROVE  End(symbols'[k]) <= cursorOffset'[symbols'[k].section]
      <4>1. CASE k \in DOMAIN symbols
          BY <2>3, <2>7, <3>1, <4>1 DEF SymbolInv
      <4>2. CASE k = Len(symbols) + 1
          BY <2>3, <2>5, <2>6, <2>7, <4>2
      <4> QED
          BY <2>7, <4>1, <4>2
    <3> QED
        BY <2>3, <2>7, <3>1 DEF SymbolInv, End
  <2> QED
      BY <2>2, <2>3, <2>9, <2>10 DEF OffsetInv
<1>8. CASE ReferToFunction
  <2>1. PlaceInv' /\ UNCHANGED <<cursorOffset, functionOffset, place>>
      BY <1>8 DEF ReferToFunction, Resolving, PlaceInv, InFunction, ReadyFor, Globals, emission
  <2>2. OffsetInv'
      BY <2>1 DEF OffsetInv
  <2>3. SymbolInv' /\ SymbolsDisjoint'
    <3> DEFINE f == Functions[NextReloc.ref.id]
    <3>1. CASE IsDefined(f.name)
        BY <1>8, <2>1, <2>2, <3>1, GrowthKeepsSymbols DEF ReferToFunction, OffsetInv
    <3>2. CASE ~IsDefined(f.name)
      <4>1. NextReloc \in RelocSet(Functions) /\ NextReloc.ref.to = "Function"
        <5>1. relocations \in Seq(RelocSet(Functions)) /\ resolved + 1 \in 1 .. Len(relocations)
            BY <1>8 DEF RelocInv, ReferToFunction, Resolving
        <5> QED
            BY <1>8, <5>1, ElementsIn DEF NextReloc, ReferToFunction, Resolving
      <4>2. f \in MirFunctions
        <5>1. Functions \in Seq(MirFunctions)
            BY ModulesAssumption DEF PlaceInv, Functions
        <5> QED
            BY <4>1, <5>1 DEF RelocSet
      <4>3. UndefinedFunction(f) \in SymbolSet /\ UndefinedFunction(f).section = "Undefined"
          BY <4>2 DEF UndefinedFunction, Symbol, SymbolSet, MirFunctions
      <4> QED
          BY <1>8, <2>1, <3>2, <4>3, UndefinedKeepsSymbols DEF ReferToFunction
    <3> QED
        BY <3>1, <3>2
  <2> QED
      BY <2>1, <2>2, <2>3
<1>9. CASE Finalize \/ PatchBranch \/ ReferToGlobal \/ Write \/ UNCHANGED vars
  <2>1. PlaceInv'
      BY <1>9 DEF Finalize, PatchBranch, ReferToGlobal, Write, Resolving, vars, PlaceInv, InFunction,
                  ReadyFor, Code, Functions, Globals
  <2>2. UNCHANGED <<symbols, functionOffset, cursorOffset, place>>
      BY <1>9 DEF Finalize, PatchBranch, ReferToGlobal, Write, vars, emission
  <2>3. OffsetInv'
      BY <2>2 DEF OffsetInv
  <2> QED
      BY <2>1, <2>2, <2>3, GrowthKeepsSymbols DEF OffsetInv
<1> QED
    BY <1>0, <1>1, <1>2, <1>3, <1>4, <1>5, <1>6, <1>7, <1>8, <1>9 DEF Next

\* emitModule: whatever a module holds, two symbols of one section never share
\* a byte, at any time while the object file is made.
THEOREM SymbolsAlwaysDisjoint == Spec => []SymbolsDisjoint
<1>1. Inv => SymbolsDisjoint
    BY DEF Inv
<1> QED
    BY <1>1, InitEstablishesInv, StepKeepsInv, PTL DEF Spec

-----------------------------------------------------------------------------
(* The laid out sections.                                                  *)

\* A set of numbers that has 0, and with a number the next one, has them all.
LEMMA Induction ==
    ASSUME NEW T, 0 \in T, \A n \in Nat : n \in T => n + 1 \in T
    PROVE  Nat \subseteq T
<1> DEFINE R == {p \in Nat \X Nat : p[1] < p[2]}
           Missing == {n \in Nat : n \notin T}
<1>1. IsWellFoundedOn(R, Nat)
  BY NatLessThanWellFounded DEF OpToRel
<1> SUFFICES ASSUME Missing # {} PROVE FALSE
  OBVIOUS
<1>2. PICK n \in Missing : \A m \in Missing : ~ (<<m, n>> \in R)
  <2> HIDE DEF R, Missing
  <2>1. Missing \subseteq Nat
    BY DEF Missing
  <2> QED BY <1>1, <2>1, WFMin
<1> HIDE DEF R
<1>3. n \in Nat /\ n \notin T
  OBVIOUS
<1>4. n # 0 /\ n - 1 \in Nat
  BY <1>3
<1>5. n - 1 \in T
  <2>1. <<n - 1, n>> \in R
    BY <1>4 DEF R
  <2> QED BY <1>2, <1>4, <2>1
<1>6. n = (n - 1) + 1
  BY <1>3
<1> QED BY <1>3, <1>4, <1>5, <1>6

\* f gives the starts of the first n places of a stream.
Places(f, nodes, n) ==
    f = [k \in 1 .. n |-> IF k = 1 THEN 0 ELSE After(f[k - 1], nodes[k - 1])]

\* Every stream has them.
LEMMA StartsExist == ASSUME NEW nodes, NEW n \in Nat PROVE \E f : Places(f, nodes, n)
<1> DEFINE T == {k \in Nat : \E f : Places(f, nodes, k)}
<1>1. 0 \in T
  <2>1. Places([m \in 1 .. 0 |-> 0], nodes, 0)
    BY DEF Places
  <2> QED
    BY <2>1
<1>2. ASSUME NEW k \in Nat, k \in T PROVE k + 1 \in T
  <2>1. PICK f : Places(f, nodes, k)
    BY <1>2
  <2> DEFINE g == [m \in 1 .. k + 1 |-> IF m <= k THEN f[m]
                                        ELSE IF m = 1 THEN 0 ELSE After(f[m - 1], nodes[m - 1])]
  <2>2. Places(g, nodes, k + 1)
    <3>1. ASSUME NEW m \in 1 .. k + 1
          PROVE  g[m] = IF m = 1 THEN 0 ELSE After(g[m - 1], nodes[m - 1])
      <4>1. CASE m <= k
        <5>1. g[m] = f[m] /\ m \in 1 .. k
          BY <4>1
        <5>2. f[m] = IF m = 1 THEN 0 ELSE After(f[m - 1], nodes[m - 1])
          BY <2>1, <5>1 DEF Places
        <5>3. m # 1 => g[m - 1] = f[m - 1]
          BY <4>1
        <5> QED
          BY <5>1, <5>2, <5>3
      <4>2. CASE m = k + 1
        <5>1. g[m] = IF m = 1 THEN 0 ELSE After(f[m - 1], nodes[m - 1])
          BY <4>2
        <5>2. m # 1 => g[m - 1] = f[m - 1]
          BY <4>2
        <5> QED
          BY <5>1, <5>2
      <4> QED
        BY <4>1, <4>2
    <3>2. g = [m \in 1 .. k + 1 |-> g[m]]
      OBVIOUS
    <3> HIDE DEF g
    <3>3. g = [m \in 1 .. k + 1 |-> IF m = 1 THEN 0 ELSE After(g[m - 1], nodes[m - 1])]
      BY <3>1, <3>2
    <3> QED
      BY <3>3 DEF Places
  <2> QED
    BY <2>2
<1> HIDE DEF T
<1>3. Nat \subseteq T
  BY <1>1, <1>2, Induction
<1> QED
  BY <1>3 DEF T

\* The starts of a stream are what they are defined by.
LEMMA StartsLaid ==
    ASSUME NEW nodes, Len(nodes) \in Nat
    PROVE  Places(Starts(nodes), nodes, Len(nodes) + 1)
<1>1. Starts(nodes) = CHOOSE f : Places(f, nodes, Len(nodes) + 1)
  BY DEF Starts, Places
<1> QED
  BY <1>1, StartsExist

\* A node starts where the one before it ends.
LEMMA StartsAre ==
    ASSUME NEW nodes, Len(nodes) \in Nat
    PROVE  /\ DOMAIN Starts(nodes) = 1 .. Len(nodes) + 1
           /\ Starts(nodes)[1] = 0
           /\ \A k \in 1 .. Len(nodes) : Starts(nodes)[k + 1] = After(Starts(nodes)[k], nodes[k])
<1>2. Places(Starts(nodes), nodes, Len(nodes) + 1)
  BY StartsLaid
<1>3. PICK s : s = Starts(nodes)
  OBVIOUS
<1>4. s = [k \in 1 .. Len(nodes) + 1 |-> IF k = 1 THEN 0 ELSE After(s[k - 1], nodes[k - 1])]
  BY <1>2, <1>3 DEF Places
<1>5. s[1] = 0 /\ DOMAIN s = 1 .. Len(nodes) + 1
  BY <1>4
<1>6. ASSUME NEW k \in 1 .. Len(nodes) PROVE s[k + 1] = After(s[k], nodes[k])
  <2>1. k + 1 \in 1 .. Len(nodes) + 1 /\ k + 1 # 1 /\ (k + 1) - 1 = k
    OBVIOUS
  <2>2. s[k + 1] = IF k + 1 = 1 THEN 0 ELSE After(s[(k + 1) - 1], nodes[(k + 1) - 1])
    BY <1>4, <2>1
  <2> QED BY <2>1, <2>2
<1> QED
  BY <1>3, <1>5, <1>6

Ofs == (Nat \X Nat \X Nat) \cup {<<g>> : g \in Nat} \cup {<<>>} \cup Nat
AllNodes == [kind : {"Data", "Align", "Label"}, size : Nat, of : Ofs]

\* A section is made of such nodes, and its running offset is where the stream
\* ends when it is laid out.
StreamInv ==
    /\ stream \in [SectionTypes -> Seq(AllNodes)]
    /\ \A t \in SectionTypes : \A k \in 1 .. Len(stream[t]) :
           stream[t][k].kind = "Align" => stream[t][k].size # 0
    /\ \A t \in SectionTypes : cursorOffset[t] = Starts(stream[t])[Len(stream[t]) + 1]

\* What a stream with one node more is.
LEMMA Appended ==
    ASSUME NEW nodes \in Seq(AllNodes), NEW n \in AllNodes
    PROVE  /\ Append(nodes, n) \in Seq(AllNodes) /\ Len(nodes) \in Nat
           /\ Len(Append(nodes, n)) = Len(nodes) + 1
           /\ \A k \in 1 .. Len(nodes) : Append(nodes, n)[k] = nodes[k]
           /\ Append(nodes, n)[Len(nodes) + 1] = n
OBVIOUS

\* A node more moves none of those before it.
LEMMA StartsAppend ==
    ASSUME NEW nodes \in Seq(AllNodes), NEW n \in AllNodes
    PROVE  /\ \A k \in 1 .. Len(nodes) + 1 : Starts(Append(nodes, n))[k] = Starts(nodes)[k]
           /\ Starts(Append(nodes, n))[Len(nodes) + 2] = After(Starts(nodes)[Len(nodes) + 1], n)
<1>1. PICK more : more = Append(nodes, n)
  OBVIOUS
<1>2. PICK size \in Nat : size = Len(nodes)
  OBVIOUS
<1>3. /\ Len(more) = size + 1 /\ more[size + 1] = n
      /\ \A k \in 1 .. size : more[k] = nodes[k]
  BY <1>1, <1>2, Appended
<1>4. PICK s : s = Starts(nodes)
  OBVIOUS
<1>5. PICK t : t = Starts(more)
  OBVIOUS
<1>6. s[1] = 0 /\ \A k \in 1 .. size : s[k + 1] = After(s[k], nodes[k])
  BY <1>2, <1>4, StartsAre
<1>7. t[1] = 0 /\ \A k \in 1 .. size + 1 : t[k + 1] = After(t[k], more[k])
  BY <1>2, <1>3, <1>5, StartsAre
<1> DEFINE T == {k \in Nat : k <= size => t[k + 1] = s[k + 1]}
<1>8. 0 \in T
  BY <1>6, <1>7
<1>9. ASSUME NEW k \in Nat, k \in T PROVE k + 1 \in T
  <2> SUFFICES ASSUME k + 1 <= size PROVE t[(k + 1) + 1] = s[(k + 1) + 1]
    OBVIOUS
  <2>1. k + 1 \in 1 .. size /\ k + 1 \in 1 .. size + 1 /\ t[k + 1] = s[k + 1]
    BY <1>9
  <2> QED
    BY <1>3, <1>6, <1>7, <2>1
<1> HIDE DEF T
<1>10. Nat \subseteq T
  BY <1>8, <1>9, Induction
<1>11. ASSUME NEW k \in 1 .. size + 1 PROVE t[k] = s[k]
  <2>1. k - 1 \in T /\ k - 1 <= size /\ (k - 1) + 1 = k
    BY <1>10
  <2> QED
    BY <2>1 DEF T
<1>12. t[size + 2] = After(t[size + 1], n)
  <2>1. size + 1 \in 1 .. size + 1 /\ (size + 1) + 1 = size + 2
    OBVIOUS
  <2> QED
    BY <1>3, <1>7, <2>1
<1>13. t[size + 1] = s[size + 1]
  BY <1>11
<1> QED
  BY <1>1, <1>2, <1>4, <1>5, <1>11, <1>12, <1>13

\* Two nodes are appended one after the other.
LEMMA ConcatTwo ==
    ASSUME NEW nodes \in Seq(AllNodes), NEW a \in AllNodes, NEW b \in AllNodes
    PROVE  nodes \o <<a, b>> = Append(Append(nodes, a), b)
OBVIOUS

\* A node ends at an offset.
LEMMA AfterIsNat ==
    ASSUME NEW offset \in Nat, NEW n \in AllNodes, n.kind = "Align" => n.size # 0
    PROVE  After(offset, n) \in Nat
<1>1. n.size \in Nat
  BY DEF AllNodes
<1>2. CASE n.kind = "Align"
  BY <1>1, <1>2, AlignUpGrows DEF After
<1>3. CASE n.kind # "Align"
  BY <1>1, <1>3 DEF After
<1> QED
  BY <1>2, <1>3

\* All nodes start at offsets.
LEMMA StartsAreNat ==
    ASSUME NEW nodes \in Seq(AllNodes),
           \A k \in 1 .. Len(nodes) : nodes[k].kind = "Align" => nodes[k].size # 0
    PROVE  Starts(nodes) \in [1 .. Len(nodes) + 1 -> Nat]
<1>1. PICK size \in Nat : size = Len(nodes)
  OBVIOUS
<1>2. PICK s : s = Starts(nodes)
  OBVIOUS
<1>3. s[1] = 0 /\ \A k \in 1 .. size : s[k + 1] = After(s[k], nodes[k])
  BY <1>1, <1>2, StartsAre
<1> DEFINE T == {k \in Nat : k <= size => s[k + 1] \in Nat}
<1>4. 0 \in T
  BY <1>3
<1>5. ASSUME NEW k \in Nat, k \in T PROVE k + 1 \in T
  <2> SUFFICES ASSUME k + 1 <= size PROVE s[(k + 1) + 1] \in Nat
    OBVIOUS
  <2>1. k + 1 \in 1 .. size /\ s[k + 1] \in Nat
    BY <1>5
  <2>2. nodes[k + 1] \in AllNodes /\ (nodes[k + 1].kind = "Align" => nodes[k + 1].size # 0)
    BY <1>1, <2>1
  <2>3. After(s[k + 1], nodes[k + 1]) \in Nat
    BY <2>1, <2>2, AfterIsNat
  <2> QED
    BY <1>3, <2>1, <2>3
<1> HIDE DEF T
<1>6. Nat \subseteq T
  BY <1>4, <1>5, Induction
<1>7. ASSUME NEW k \in 1 .. size + 1 PROVE s[k] \in Nat
  <2>1. k - 1 \in T /\ k - 1 <= size /\ (k - 1) + 1 = k
    BY <1>6
  <2> QED
    BY <2>1 DEF T
<1>8. Places(s, nodes, size + 1)
  BY <1>1, <1>2, StartsLaid
<1>9. s \in [1 .. size + 1 -> Nat]
  <2>1. s = [k \in 1 .. size + 1 |-> IF k = 1 THEN 0 ELSE After(s[k - 1], nodes[k - 1])]
    BY <1>8 DEF Places
  <2>2. s = [k \in 1 .. size + 1 |-> s[k]]
    BY <2>1
  <2> QED
    BY <1>7, <2>2
<1> QED
  BY <1>1, <1>2, <1>9

\* A text with one node more.
OneMore(text, at, end, n, text2, at2) ==
    /\ Len(text) \in Nat /\ Len(text2) = Len(text) + 1
    /\ \A k \in 1 .. Len(text) : text2[k] = text[k]
    /\ text2[Len(text) + 1] = n
    /\ \A k \in 1 .. Len(text) + 1 : at2[k] = at[k]
    /\ at[Len(text) + 1] = end

\* What an aligned section is with one node more.
SizesSet(nodes) == \A k \in 1 .. Len(nodes) : nodes[k].kind = "Align" => nodes[k].size # 0
EndOf(nodes) == Starts(nodes)[Len(nodes) + 1]

\* A section stays aligned with one node more, and ends where that one ends.
LEMMA OneNode ==
    ASSUME NEW nodes \in Seq(AllNodes), SizesSet(nodes),
           NEW n \in AllNodes, n.kind = "Align" => n.size # 0
    PROVE  /\ Append(nodes, n) \in Seq(AllNodes) /\ SizesSet(Append(nodes, n))
           /\ EndOf(Append(nodes, n)) = After(EndOf(nodes), n)
           /\ OneMore(nodes, Starts(nodes), EndOf(nodes), n, Append(nodes, n), Starts(Append(nodes, n)))
<1>1. PICK size \in Nat : size = Len(nodes)
  OBVIOUS
<1>2. PICK more : more = Append(nodes, n)
  OBVIOUS
<1>3. /\ more \in Seq(AllNodes) /\ Len(more) = size + 1 /\ more[size + 1] = n
      /\ \A k \in 1 .. size : more[k] = nodes[k]
  BY <1>1, <1>2, Appended
<1>4. SizesSet(more)
  BY <1>1, <1>3 DEF SizesSet
<1>5. /\ \A k \in 1 .. size + 1 : Starts(more)[k] = Starts(nodes)[k]
      /\ Starts(more)[size + 2] = After(Starts(nodes)[size + 1], n)
  BY <1>1, <1>2, StartsAppend
<1>6. (size + 1) + 1 = size + 2
  OBVIOUS
<1>7. EndOf(more) = After(EndOf(nodes), n)
  BY <1>1, <1>3, <1>5, <1>6 DEF EndOf
<1>8. OneMore(nodes, Starts(nodes), EndOf(nodes), n, more, Starts(more))
  BY <1>1, <1>3, <1>5 DEF OneMore, EndOf
<1> QED
  BY <1>2, <1>3, <1>4, <1>7, <1>8

\* The nodes of the engine are nodes.
LEMMA NodesAre ==
    /\ \A size \in Nat, p \in Nat \X Nat \X Nat : Data(size, p) \in AllNodes
    /\ \A size \in Nat, g \in Nat : Data(size, <<g>>) \in AllNodes
    /\ \A a \in Nat : Align(a) \in AllNodes
    /\ \A id \in Nat : Label(id) \in AllNodes
BY DEF Data, Align, Label, AllNodes, Ofs

\* Where each kind of node ends.
LEMMA AfterIs ==
    /\ \A offset, size, of : After(offset, Data(size, of)) = offset + size
    /\ \A offset, a : After(offset, Align(a)) = AlignUp(offset, a)
    /\ \A offset, id : After(offset, Label(id)) = offset + 0
BY DEF After, Data, Align, Label

\* The sections are empty at first.
LEMMA InitStream == Init => StreamInv
<1> SUFFICES ASSUME Init PROVE StreamInv
  OBVIOUS
<1>1. <<>> \in Seq(AllNodes) /\ Len(<<>>) = 0
  OBVIOUS
<1>2. Starts(<<>>)[1] = 0
  BY <1>1, StartsAre
<1> QED
  BY <1>1, <1>2 DEF Init, StreamInv

\* The text, and where its nodes start.
Text == stream["Text"]
At == Starts(Text)
EndOfText == cursorOffset["Text"]

\* The text is a section.
LEMMA TextSection == "Text" \in SectionTypes
BY DEF SectionTypes

\* The parts of StreamInv for one section.
LEMMA SectionIs ==
    ASSUME StreamInv, NEW t \in SectionTypes
    PROVE  stream[t] \in Seq(AllNodes) /\ SizesSet(stream[t]) /\ cursorOffset[t] = EndOf(stream[t])
BY DEF StreamInv, SizesSet, EndOf

\* A step that replaces what one section holds.
LEMMA ReplacedSection ==
    ASSUME StreamInv, OffsetInv, NEW type \in SectionTypes, NEW more \in Seq(AllNodes), SizesSet(more),
           stream' = [stream EXCEPT ![type] = more],
           cursorOffset' = [cursorOffset EXCEPT ![type] = EndOf(more)]
    PROVE  /\ StreamInv' /\ stream'[type] = more
           /\ \A t \in SectionTypes \ {type} : stream'[t] = stream[t] /\ cursorOffset'[t] = cursorOffset[t]
<1>1. stream \in [SectionTypes -> Seq(AllNodes)] /\ cursorOffset \in [SectionTypes -> Nat]
  BY DEF StreamInv, OffsetInv
<1>2. /\ stream'[type] = more /\ cursorOffset'[type] = EndOf(more)
      /\ \A t \in SectionTypes \ {type} : stream'[t] = stream[t] /\ cursorOffset'[t] = cursorOffset[t]
  BY <1>1
<1>3. ASSUME NEW t \in SectionTypes
      PROVE  /\ stream'[t] \in Seq(AllNodes)
             /\ \A k \in 1 .. Len(stream'[t]) : stream'[t][k].kind = "Align" => stream'[t][k].size # 0
             /\ cursorOffset'[t] = Starts(stream'[t])[Len(stream'[t]) + 1]
  <2>1. CASE t = type
    BY <1>2, <2>1 DEF SizesSet, EndOf
  <2>2. CASE t # type
    BY <1>1, <1>2, <2>2 DEF StreamInv
  <2> QED
    BY <2>1, <2>2
<1>4. stream' \in [SectionTypes -> Seq(AllNodes)]
  <2>1. PICK w : w = stream'
    OBVIOUS
  <2>2. w = [t \in SectionTypes |-> w[t]]
    BY <1>1, <2>1
  <2>3. \A t \in SectionTypes : w[t] \in Seq(AllNodes)
    BY <1>3, <2>1
  <2>4. w \in [SectionTypes -> Seq(AllNodes)]
    BY <2>2, <2>3
  <2> QED
    BY <2>1, <2>4
<1> QED
  BY <1>2, <1>3, <1>4 DEF StreamInv

\* One that adds a node to the text.
LEMMA TextGrows ==
    ASSUME StreamInv, OffsetInv, NEW n \in AllNodes, n.kind = "Align" => n.size # 0,
           stream' = [stream EXCEPT !["Text"] = Append(@, n)],
           cursorOffset' = [cursorOffset EXCEPT !["Text"] = After(@, n)]
    PROVE  StreamInv' /\ OneMore(Text, At, EndOfText, n, Text', At')
<1>1. Text \in Seq(AllNodes) /\ SizesSet(Text) /\ EndOfText = EndOf(Text) /\ "Text" \in SectionTypes
  BY TextSection, SectionIs DEF Text, EndOfText
<1>2. PICK more : more = Append(Text, n)
  OBVIOUS
<1>3. /\ more \in Seq(AllNodes) /\ SizesSet(more) /\ EndOf(more) = After(EndOfText, n)
      /\ OneMore(Text, At, EndOfText, n, more, Starts(more))
  BY <1>1, <1>2, OneNode DEF At
<1>4. /\ stream' = [stream EXCEPT !["Text"] = more]
      /\ cursorOffset' = [cursorOffset EXCEPT !["Text"] = EndOf(more)]
  <2>1. stream \in [SectionTypes -> Seq(AllNodes)] /\ cursorOffset \in [SectionTypes -> Nat]
    BY DEF StreamInv, OffsetInv
  <2>2. stream["Text"] = Text /\ cursorOffset["Text"] = EndOfText
    BY DEF Text, EndOfText
  <2> QED
    BY <1>2, <1>3, <2>1, <2>2
<1>5. StreamInv' /\ stream'["Text"] = more
  BY <1>1, <1>3, <1>4, ReplacedSection
<1> QED
  BY <1>3, <1>5 DEF Text, At

\* One that adds two nodes to a section.
LEMMA SectionGrowsByTwo ==
    ASSUME StreamInv, OffsetInv, NEW type \in SectionTypes,
           NEW first \in AllNodes, first.kind = "Align" => first.size # 0,
           NEW second \in AllNodes, second.kind = "Align" => second.size # 0,
           stream' = [stream EXCEPT ![type] = @ \o <<first, second>>],
           cursorOffset' = [cursorOffset EXCEPT ![type] = After(After(@, first), second)]
    PROVE  /\ StreamInv'
           /\ stream'[type] = Append(Append(stream[type], first), second)
           /\ \A t \in SectionTypes \ {type} : stream'[t] = stream[t] /\ cursorOffset'[t] = cursorOffset[t]
<1>1. PICK nodes \in Seq(AllNodes) : nodes = stream[type] /\ SizesSet(nodes) /\ cursorOffset[type] = EndOf(nodes)
  BY SectionIs
<1>2. PICK mid : mid = Append(nodes, first)
  OBVIOUS
<1>3. mid \in Seq(AllNodes) /\ SizesSet(mid) /\ EndOf(mid) = After(EndOf(nodes), first)
  BY <1>1, <1>2, OneNode
<1>4. PICK more : more = Append(mid, second)
  OBVIOUS
<1>5. more \in Seq(AllNodes) /\ SizesSet(more) /\ EndOf(more) = After(EndOf(mid), second)
  BY <1>3, <1>4, OneNode
<1>6. nodes \o <<first, second>> = more
  BY <1>2, <1>4, ConcatTwo
<1>7. /\ stream' = [stream EXCEPT ![type] = more]
      /\ cursorOffset' = [cursorOffset EXCEPT ![type] = EndOf(more)]
  <2>1. stream \in [SectionTypes -> Seq(AllNodes)] /\ cursorOffset \in [SectionTypes -> Nat]
    BY DEF StreamInv, OffsetInv
  <2> QED
    BY <1>1, <1>3, <1>5, <1>6, <2>1
<1>8. /\ StreamInv' /\ stream'[type] = more
      /\ \A t \in SectionTypes \ {type} : stream'[t] = stream[t] /\ cursorOffset'[t] = cursorOffset[t]
  BY <1>5, <1>7, ReplacedSection
<1> QED
  BY <1>1, <1>2, <1>4, <1>8

\* A global leaves the text alone.
LEMMA GlobalKeepsStream ==
    ASSUME Inv, StreamInv, EmitGlobal
    PROVE  StreamInv' /\ Text' = Text /\ EndOfText' = EndOfText
<1>0. PICK g : g = Globals[global]
  OBVIOUS
<1>1. PICK type : type = SectionOf(g)
  OBVIOUS
<1>2. PICK size : size = SizeOf(g)
  OBVIOUS
<1>3. PICK a : a = AlignmentOf(g)
  OBVIOUS
<1>4. /\ size \in Nat /\ a \in Nat \ {0} /\ type \in SectionTypes \ {"Text"} /\ global \in Nat
  BY <1>0, <1>1, <1>2, <1>3, GlobalShape DEF EmitGlobal, Inv, PlaceInv
<1>5. CASE g.isDeclaration
  <2>1. UNCHANGED <<stream, cursorOffset>>
    BY <1>0, <1>5 DEF EmitGlobal
  <2> QED
    BY <2>1 DEF StreamInv, Text, EndOfText
<1>6. CASE ~g.isDeclaration
  <2>1. /\ stream' = [stream EXCEPT ![type] = @ \o <<Align(a), Data(size, <<global>>)>>]
        /\ cursorOffset' = [cursorOffset EXCEPT ![type] = AlignUp(@, a) + size]
    BY <1>0, <1>1, <1>2, <1>3, <1>6 DEF EmitGlobal
  <2>2. PICK first \in AllNodes : first = Align(a)
    BY <1>4, NodesAre
  <2>3. PICK second \in AllNodes : second = Data(size, <<global>>)
    BY <1>4, NodesAre
  <2>4. (first.kind = "Align" => first.size # 0) /\ (second.kind = "Align" => second.size # 0)
    BY <1>4, <2>2, <2>3 DEF Align, Data
  <2>5. /\ stream' = [stream EXCEPT ![type] = @ \o <<first, second>>]
        /\ cursorOffset' = [cursorOffset EXCEPT ![type] = After(After(@, first), second)]
    BY <2>1, <2>2, <2>3, AfterIs
  <2>6. /\ StreamInv'
        /\ \A t \in SectionTypes \ {type} : stream'[t] = stream[t] /\ cursorOffset'[t] = cursorOffset[t]
    BY <1>4, <2>4, <2>5, SectionGrowsByTwo DEF Inv
  <2> QED
    BY <1>4, <2>6, TextSection DEF Text, EndOfText
<1> QED
  BY <1>5, <1>6

-----------------------------------------------------------------------------
(* The text that has been emitted.  The parts of its invariant are stated   *)
(* for any functions fs, any text with the starts at of its nodes and the   *)
(* offset end where it stops, and any place pl of the emission.             *)

\* The order of emission.
Before(p, q) ==
    \/ p[1] < q[1]
    \/ p[1] = q[1] /\ p[2] < q[2]
    \/ p[1] = q[1] /\ p[2] = q[2] /\ p[3] < q[3]

IsBlock(fs, f, b) == f \in DOMAIN fs /\ b \in DOMAIN fs[f].blocks
IsInst(fs, p) ==
    /\ p \in Nat \X Nat \X Nat /\ IsBlock(fs, p[1], p[2])
    /\ p[3] \in DOMAIN fs[p[1]].blocks[p[2]].code
InstAt(fs, p) == fs[p[1]].blocks[p[2]].code[p[3]]
IdOf(fs, f, b) == fs[f].blocks[b].id

\* What the assumptions say of the functions of a module.
WellFormed(fs) ==
    /\ fs \in Seq(MirFunctions)
    /\ \A f \in DOMAIN fs :
           /\ fs[f].isDeclaration <=> fs[f].blocks = <<>>
           /\ fs[f].blocks # <<>> => fs[f].blocks[Len(fs[f].blocks)].code # <<>>
    /\ \A f, b \in Nat : IsBlock(fs, f, b) =>
           /\ IdOf(fs, f, b) # 0
           /\ \A g, c \in Nat : IsBlock(fs, g, c) /\ IdOf(fs, g, c) = IdOf(fs, f, b) => g = f /\ c = b
    /\ \A p : IsInst(fs, p) /\ InstAt(fs, p).ref.to = "Block" =>
           /\ InstAt(fs, p).kind \in {"Jump", "Jcc"}
           /\ \E t \in Nat : IsBlock(fs, p[1], t) /\ IdOf(fs, p[1], t) = InstAt(fs, p).ref.id

Bound(fs, pl, f, b) == IsBlock(fs, f, b) /\ Before(<<f, b, 0>>, pl)

\* What is in the text are the instructions before the place, in their order.
DataIn(fs, text, pl) ==
    /\ \A k \in 1 .. Len(text) : text[k].kind = "Data" =>
           IsInst(fs, text[k].of) /\ Before(text[k].of, pl)
    /\ \A j, k \in 1 .. Len(text) : j < k /\ text[j].kind = "Data" /\ text[k].kind = "Data" =>
           Before(text[j].of, text[k].of)

\* All of them are, and a branch among them has its relocation.
EmittedIn(fs, text, recs, pl) ==
    \A p : IsInst(fs, p) /\ Before(p, pl) =>
        /\ \E k \in 1 .. Len(text) : text[k].kind = "Data" /\ text[k].of = p
        /\ InstAt(fs, p).ref.to = "Block" => \E r \in recs : r.of = p /\ r.ref.to = "Block"

\* The relocation of a branch says where the branch is and what it names.
RecordsIn(fs, text, at, recs) ==
    \A r \in recs : r.ref.to = "Block" =>
        /\ IsInst(fs, r.of) /\ r.ref = InstAt(fs, r.of).ref
        /\ \E k \in 1 .. Len(text) : text[k].kind = "Data" /\ text[k].of = r.of /\ at[k] = r.address

\* The first instruction from a block on is where the label is, or it is still
\* to come and will be put there.
NothingFrom(text, f, b, n) ==
    \A j \in 1 .. n : text[j].kind = "Data" => ~(text[j].of[1] = f /\ text[j].of[2] >= b)
Landed(text, at, k, f, b) ==
    \E n \in 1 .. Len(text) :
        /\ text[n].kind = "Data" /\ text[n].of[1] = f /\ text[n].of[2] >= b /\ at[n] = at[k]
        /\ NothingFrom(text, f, b, n - 1)
Pending(text, at, end, pl, k, f, b) ==
    pl[1] = f /\ end = at[k] /\ NothingFrom(text, f, b, Len(text))

\* A block has its label once it is bound.
BoundIn(fs, text, labels, pl) ==
    \A f, b \in Nat : Bound(fs, pl, f, b) =>
        /\ IdOf(fs, f, b) \in labels
        /\ \E k \in 1 .. Len(text) : text[k].kind = "Label" /\ text[k].of = IdOf(fs, f, b)

\* The labels are those of the blocks, one for each, in front of their code.
LabelsIn(fs, text, at, end, pl) ==
    /\ \A k \in 1 .. Len(text) : text[k].kind = "Label" /\ text[k].of # 0 =>
           \E f, b \in Nat :
               /\ Bound(fs, pl, f, b) /\ IdOf(fs, f, b) = text[k].of
               /\ Landed(text, at, k, f, b) \/ Pending(text, at, end, pl, k, f, b)
    /\ \A j, k \in 1 .. Len(text) :
           /\ text[j].kind = "Label" /\ text[k].kind = "Label"
           /\ text[j].of = text[k].of /\ text[k].of # 0
           => j = k

\* A node that is no instruction disturbs none of them.
LEMMA OtherKeepsData ==
    ASSUME NEW fs, NEW text, NEW at, NEW end, NEW text2, NEW at2, NEW recs, NEW pl, NEW n,
           OneMore(text, at, end, n, text2, at2), n.kind # "Data",
           DataIn(fs, text, pl), EmittedIn(fs, text, recs, pl), RecordsIn(fs, text, at, recs)
    PROVE  DataIn(fs, text2, pl) /\ EmittedIn(fs, text2, recs, pl) /\ RecordsIn(fs, text2, at2, recs)
<1>0. PICK len \in Nat : len = Len(text)
  BY DEF OneMore
<1>1. /\ Len(text2) = len + 1
      /\ \A k \in 1 .. len : text2[k] = text[k]
      /\ text2[len + 1].kind # "Data"
      /\ \A k \in 1 .. len + 1 : at2[k] = at[k]
  BY <1>0 DEF OneMore
<1>2. \A k \in 1 .. len + 1 : text2[k].kind = "Data" => k \in 1 .. len /\ text2[k] = text[k]
  BY <1>1
<1>3. DataIn(fs, text2, pl)
  BY <1>0, <1>1, <1>2 DEF DataIn
<1>4. EmittedIn(fs, text2, recs, pl)
  <2> SUFFICES ASSUME NEW p, IsInst(fs, p), Before(p, pl)
               PROVE  \E k \in 1 .. Len(text2) : text2[k].kind = "Data" /\ text2[k].of = p
    BY DEF EmittedIn
  <2>1. PICK k \in 1 .. len : text[k].kind = "Data" /\ text[k].of = p
    BY <1>0 DEF EmittedIn
  <2> QED
    BY <1>1, <2>1
<1>5. RecordsIn(fs, text2, at2, recs)
  <2> SUFFICES ASSUME NEW r \in recs, r.ref.to = "Block"
               PROVE  \E k \in 1 .. Len(text2) : text2[k].kind = "Data" /\ text2[k].of = r.of
                                                 /\ at2[k] = r.address
    BY DEF RecordsIn
  <2>1. PICK k \in 1 .. len : text[k].kind = "Data" /\ text[k].of = r.of /\ at[k] = r.address
    BY <1>0 DEF RecordsIn
  <2> QED
    BY <1>1, <2>1
<1> QED
  BY <1>3, <1>4, <1>5

\* Any node leaves the code that a label has found where it is.
LEMMA LandedStays ==
    ASSUME NEW text, NEW at, NEW end, NEW text2, NEW at2, NEW n, NEW f, NEW b,
           OneMore(text, at, end, n, text2, at2), NEW k \in 1 .. Len(text), Landed(text, at, k, f, b)
    PROVE  Landed(text2, at2, k, f, b)
<1>0. PICK len \in Nat : len = Len(text)
  BY DEF OneMore
<1>1. PICK m \in 1 .. len :
        /\ text[m].kind = "Data" /\ text[m].of[1] = f /\ text[m].of[2] >= b /\ at[m] = at[k]
        /\ NothingFrom(text, f, b, m - 1)
  BY <1>0 DEF Landed
<1>2. /\ Len(text2) = len + 1
      /\ \A j \in 1 .. len : text2[j] = text[j]
      /\ at2[m] = at[m] /\ at2[k] = at[k]
  BY <1>0 DEF OneMore
<1>3. NothingFrom(text2, f, b, m - 1)
  BY <1>1, <1>2 DEF NothingFrom
<1>4. m \in 1 .. Len(text2)
  BY <1>2
<1> QED
  BY <1>1, <1>2, <1>3, <1>4 DEF Landed

\* A label that waits for its code still does behind a node that is no code.
LEMMA PendingStays ==
    ASSUME NEW text, NEW at, NEW end, NEW text2, NEW at2, NEW n, NEW pl, NEW f, NEW b,
           OneMore(text, at, end, n, text2, at2), n.kind # "Data",
           NEW k \in 1 .. Len(text), Pending(text, at, end, pl, k, f, b)
    PROVE  Pending(text2, at2, end, pl, k, f, b)
<1>0. PICK len \in Nat : len = Len(text)
  BY DEF OneMore
<1>1. /\ Len(text2) = len + 1 /\ text2[len + 1].kind # "Data"
      /\ \A j \in 1 .. len : text2[j] = text[j]
      /\ at2[k] = at[k]
  BY <1>0 DEF OneMore
<1>2. NothingFrom(text2, f, b, len + 1)
  <2>1. NothingFrom(text, f, b, len)
    BY <1>0 DEF Pending
  <2>2. ASSUME NEW j \in 1 .. len + 1, text2[j].kind = "Data"
        PROVE  j \in 1 .. len /\ text2[j] = text[j]
    <3>1. j # len + 1
      BY <1>1, <2>2
    <3>2. j \in 1 .. len
      BY <3>1
    <3> QED
      BY <1>1, <3>2
  <2> QED
    BY <2>1, <2>2 DEF NothingFrom
<1> QED
  BY <1>1, <1>2 DEF Pending

\* Nor does such a node disturb the labels, unless it is the label of a block.
LEMMA OtherKeepsLabels ==
    ASSUME NEW fs, NEW text, NEW at, NEW end, NEW text2, NEW at2, NEW labels, NEW pl, NEW n, NEW end2,
           OneMore(text, at, end, n, text2, at2), n.kind = "Align" \/ n = Label(0),
           end2 = end \/ pl[2] = 0, pl \in Nat \X Nat \X Nat, fs \in Seq(MirFunctions),
           BoundIn(fs, text, labels, pl), LabelsIn(fs, text, at, end, pl)
    PROVE  BoundIn(fs, text2, labels, pl) /\ LabelsIn(fs, text2, at2, end2, pl)
<1>0. PICK len \in Nat : len = Len(text)
  BY DEF OneMore
<1>1. /\ Len(text2) = len + 1
      /\ \A k \in 1 .. len : text2[k] = text[k]
      /\ text2[len + 1].kind # "Data" /\ (text2[len + 1].kind = "Label" => text2[len + 1].of = 0)
      /\ n.kind # "Data"
  BY <1>0 DEF OneMore, Label
<1>2. BoundIn(fs, text2, labels, pl)
  <2> SUFFICES ASSUME NEW f \in Nat, NEW b \in Nat, Bound(fs, pl, f, b)
               PROVE  \E k \in 1 .. Len(text2) : text2[k].kind = "Label" /\ text2[k].of = IdOf(fs, f, b)
    BY DEF BoundIn
  <2>1. PICK k \in 1 .. len : text[k].kind = "Label" /\ text[k].of = IdOf(fs, f, b)
    BY <1>0 DEF BoundIn
  <2> QED
    BY <1>1, <2>1
<1>3. ASSUME NEW k \in 1 .. Len(text2), text2[k].kind = "Label", text2[k].of # 0
      PROVE  k \in 1 .. len /\ text2[k] = text[k]
  <2>1. k # len + 1
    BY <1>1, <1>3
  <2>2. k \in 1 .. len
    BY <1>1, <2>1
  <2> QED
    BY <1>1, <2>2
<1>4. ASSUME NEW k \in 1 .. Len(text2), text2[k].kind = "Label", text2[k].of # 0
      PROVE  \E f, b \in Nat :
               /\ Bound(fs, pl, f, b) /\ IdOf(fs, f, b) = text2[k].of
               /\ Landed(text2, at2, k, f, b) \/ Pending(text2, at2, end2, pl, k, f, b)
  <2>1. k \in 1 .. Len(text) /\ text2[k] = text[k]
    BY <1>0, <1>3, <1>4
  <2>2. PICK f, b \in Nat :
               /\ Bound(fs, pl, f, b) /\ IdOf(fs, f, b) = text[k].of
               /\ Landed(text, at, k, f, b) \/ Pending(text, at, end, pl, k, f, b)
    BY <1>4, <2>1 DEF LabelsIn
  <2>3. CASE Landed(text, at, k, f, b)
    BY <2>1, <2>2, <2>3, LandedStays
  <2>4. CASE Pending(text, at, end, pl, k, f, b)
    <3>1. pl[1] = f /\ pl[1] \in Nat /\ pl[2] \in Nat
      BY <2>4 DEF Pending
    <3>2. fs[f] \in MirFunctions
      BY <2>2 DEF Bound, IsBlock
    <3>3. b \in 1 .. Len(fs[f].blocks)
      BY <2>2, <3>2 DEF Bound, IsBlock, MirFunctions
    <3>4. pl[2] # 0
      BY <2>2, <3>1, <3>3 DEF Bound, Before
    <3>5. Pending(text2, at2, end2, pl, k, f, b)
      BY <1>1, <2>1, <2>4, <3>4, PendingStays
    <3> QED
      BY <2>1, <2>2, <3>5
  <2> QED
    BY <2>2, <2>3, <2>4
<1>5. ASSUME NEW j \in 1 .. Len(text2), NEW k \in 1 .. Len(text2), text2[j].kind = "Label",
             text2[k].kind = "Label", text2[j].of = text2[k].of, text2[k].of # 0
      PROVE  j = k
  <2>1. /\ j \in 1 .. Len(text) /\ text2[j] = text[j]
        /\ k \in 1 .. Len(text) /\ text2[k] = text[k]
    BY <1>0, <1>3, <1>5
  <2> QED
    BY <1>5, <2>1 DEF LabelsIn
<1> QED
  BY <1>2, <1>4, <1>5 DEF LabelsIn

TextIn(fs, text, at, end, recs, labels, pl) ==
    /\ DataIn(fs, text, pl) /\ EmittedIn(fs, text, recs, pl) /\ RecordsIn(fs, text, at, recs)
    /\ BoundIn(fs, text, labels, pl) /\ LabelsIn(fs, text, at, end, pl)

SameInsts(fs, pl, pl2) == \A p : IsInst(fs, p) => (Before(p, pl2) <=> Before(p, pl))
SameBlocks(fs, pl, pl2) ==
    \A f, b \in Nat : IsBlock(fs, f, b) => (Before(<<f, b, 0>>, pl2) <=> Before(<<f, b, 0>>, pl))

\* Where the emission stands matters only by what is in front of it.
LEMMA MoveKeepsData ==
    ASSUME NEW fs, NEW text, NEW recs, NEW pl, NEW pl2, SameInsts(fs, pl, pl2),
           DataIn(fs, text, pl), EmittedIn(fs, text, recs, pl)
    PROVE  DataIn(fs, text, pl2) /\ EmittedIn(fs, text, recs, pl2)
<1>1. DataIn(fs, text, pl2)
  BY DEF DataIn, SameInsts
<1>2. EmittedIn(fs, text, recs, pl2)
  BY DEF EmittedIn, SameInsts
<1> QED
  BY <1>1, <1>2

\* Another place with the same instructions and blocks in front of it, in the
\* same function unless no label waits for its code.
LEMMA MoveKeepsText ==
    ASSUME NEW fs, NEW text, NEW at, NEW end, NEW recs, NEW labels, NEW pl, NEW pl2,
           SameInsts(fs, pl, pl2), SameBlocks(fs, pl, pl2),
           \/ pl2[1] = pl[1]
           \/ \A f, b \in Nat : \A k : Bound(fs, pl, f, b) => ~Pending(text, at, end, pl, k, f, b),
           TextIn(fs, text, at, end, recs, labels, pl)
    PROVE  TextIn(fs, text, at, end, recs, labels, pl2)
<1>1. DataIn(fs, text, pl2) /\ EmittedIn(fs, text, recs, pl2) /\ RecordsIn(fs, text, at, recs)
  BY MoveKeepsData DEF TextIn
<1>2. ASSUME NEW f \in Nat, NEW b \in Nat PROVE Bound(fs, pl2, f, b) <=> Bound(fs, pl, f, b)
  BY DEF SameBlocks, Bound
<1>3. BoundIn(fs, text, labels, pl2)
  BY <1>2 DEF TextIn, BoundIn
<1>4. ASSUME NEW k \in 1 .. Len(text), text[k].kind = "Label", text[k].of # 0
      PROVE  \E f, b \in Nat :
               /\ Bound(fs, pl2, f, b) /\ IdOf(fs, f, b) = text[k].of
               /\ Landed(text, at, k, f, b) \/ Pending(text, at, end, pl2, k, f, b)
  <2>1. PICK f, b \in Nat :
               /\ Bound(fs, pl, f, b) /\ IdOf(fs, f, b) = text[k].of
               /\ Landed(text, at, k, f, b) \/ Pending(text, at, end, pl, k, f, b)
    BY <1>4 DEF TextIn, LabelsIn
  <2>2. Pending(text, at, end, pl, k, f, b) => Pending(text, at, end, pl2, k, f, b)
    BY <2>1 DEF Pending
  <2> QED
    BY <1>2, <2>1, <2>2
<1>5. LabelsIn(fs, text, at, end, pl2)
  BY <1>4 DEF TextIn, LabelsIn
<1> QED
  BY <1>1, <1>3, <1>5 DEF TextIn

\* A padding, or the label of a function, disturbs nothing of the text.
LEMMA OtherKeepsText ==
    ASSUME NEW fs, NEW text, NEW at, NEW end, NEW text2, NEW at2, NEW recs, NEW labels, NEW pl,
           NEW n, NEW end2,
           OneMore(text, at, end, n, text2, at2), n.kind = "Align" \/ n = Label(0),
           end2 = end \/ pl[2] = 0, pl \in Nat \X Nat \X Nat, fs \in Seq(MirFunctions),
           TextIn(fs, text, at, end, recs, labels, pl)
    PROVE  TextIn(fs, text2, at2, end2, recs, labels, pl)
<1>0. n.kind # "Data"
  BY DEF Label
<1>1. DataIn(fs, text2, pl) /\ EmittedIn(fs, text2, recs, pl) /\ RecordsIn(fs, text2, at2, recs)
  BY <1>0, OtherKeepsData DEF TextIn
<1>2. BoundIn(fs, text2, labels, pl) /\ LabelsIn(fs, text2, at2, end2, pl)
  BY OtherKeepsLabels DEF TextIn
<1> QED
  BY <1>1, <1>2 DEF TextIn

\* The label of a block is bound where its code will start.
LEMMA BindKeepsText ==
    ASSUME NEW fs, NEW text, NEW at, NEW end, NEW text2, NEW at2, NEW recs, NEW labels,
           NEW f \in Nat, NEW b \in Nat, NEW pl, NEW pl2,
           WellFormed(fs), IsBlock(fs, f, b), pl = <<f, b, 0>>, pl2[1] = f,
           OneMore(text, at, end, Label(IdOf(fs, f, b)), text2, at2),
           SameInsts(fs, pl, pl2),
           \A g, c \in Nat : IsBlock(fs, g, c) =>
               (Before(<<g, c, 0>>, pl2) <=> Before(<<g, c, 0>>, pl) \/ (g = f /\ c = b)),
           TextIn(fs, text, at, end, recs, labels, pl)
    PROVE  TextIn(fs, text2, at2, end, recs, labels \cup {IdOf(fs, f, b)}, pl2)
<1> DEFINE id == IdOf(fs, f, b)
           n == Label(id)
<1>0. PICK len \in Nat : len = Len(text)
  BY DEF OneMore
<1>1. /\ Len(text2) = len + 1
      /\ \A k \in 1 .. len : text2[k] = text[k]
      /\ text2[len + 1].kind = "Label" /\ text2[len + 1].of = id /\ n.kind # "Data"
      /\ at2[len + 1] = end
  BY <1>0 DEF OneMore, Label
<1>2. DataIn(fs, text2, pl) /\ EmittedIn(fs, text2, recs, pl) /\ RecordsIn(fs, text2, at2, recs)
  BY <1>1, OtherKeepsData DEF TextIn
<1>3. DataIn(fs, text2, pl2) /\ EmittedIn(fs, text2, recs, pl2)
  BY <1>2, MoveKeepsData
<1>4. ASSUME NEW g \in Nat, NEW c \in Nat
      PROVE  Bound(fs, pl2, g, c) <=> Bound(fs, pl, g, c) \/ (g = f /\ c = b)
  BY DEF Bound
<1>5. BoundIn(fs, text2, labels \cup {id}, pl2)
  <2> SUFFICES ASSUME NEW g \in Nat, NEW c \in Nat, Bound(fs, pl2, g, c)
               PROVE  /\ IdOf(fs, g, c) \in labels \cup {id}
                      /\ \E k \in 1 .. Len(text2) : text2[k].kind = "Label" /\ text2[k].of = IdOf(fs, g, c)
    BY DEF BoundIn
  <2>1. CASE Bound(fs, pl, g, c)
    <3>1. IdOf(fs, g, c) \in labels
      BY <2>1 DEF TextIn, BoundIn
    <3>2. PICK k \in 1 .. len : text[k].kind = "Label" /\ text[k].of = IdOf(fs, g, c)
      BY <1>0, <2>1 DEF TextIn, BoundIn
    <3> QED
      BY <1>1, <3>1, <3>2
  <2>2. CASE g = f /\ c = b
    <3>1. len + 1 \in 1 .. Len(text2)
      BY <1>1
    <3> QED
      BY <1>1, <2>2, <3>1
  <2> QED
    BY <1>4, <2>1, <2>2
<1>6. ASSUME NEW k \in 1 .. len, text[k].kind = "Label" PROVE text[k].of # id
  <2> SUFFICES ASSUME text[k].of = id PROVE FALSE
    OBVIOUS
  <2>1. id # 0
    BY DEF WellFormed
  <2>2. PICK g, c \in Nat : Bound(fs, pl, g, c) /\ IdOf(fs, g, c) = id
    BY <1>0, <1>6, <2>1 DEF TextIn, LabelsIn
  <2>3. g = f /\ c = b
    BY <2>2 DEF WellFormed, Bound
  <2> QED
    BY <2>2, <2>3 DEF Bound, Before
<1>7. ASSUME NEW k \in 1 .. Len(text2), text2[k].kind = "Label", text2[k].of # 0
      PROVE  \E g, c \in Nat :
               /\ Bound(fs, pl2, g, c) /\ IdOf(fs, g, c) = text2[k].of
               /\ Landed(text2, at2, k, g, c) \/ Pending(text2, at2, end, pl2, k, g, c)
  <2>1. CASE k \in 1 .. len
    <3>1. text2[k] = text[k] /\ k \in 1 .. Len(text)
      BY <1>0, <1>1, <2>1
    <3>2. PICK g, c \in Nat :
               /\ Bound(fs, pl, g, c) /\ IdOf(fs, g, c) = text[k].of
               /\ Landed(text, at, k, g, c) \/ Pending(text, at, end, pl, k, g, c)
      BY <1>7, <3>1 DEF TextIn, LabelsIn
    <3>3. CASE Landed(text, at, k, g, c)
      <4>1. Landed(text2, at2, k, g, c)
        BY <3>1, <3>3, LandedStays
      <4> QED
        BY <1>4, <3>1, <3>2, <4>1
    <3>4. CASE Pending(text, at, end, pl, k, g, c)
      <4>1. Pending(text2, at2, end, pl, k, g, c)
        BY <1>1, <3>1, <3>4, PendingStays
      <4>2. Pending(text2, at2, end, pl2, k, g, c)
        BY <4>1 DEF Pending
      <4> QED
        BY <1>4, <3>1, <3>2, <4>2
    <3> QED
      BY <3>2, <3>3, <3>4
  <2>2. CASE k = len + 1
    <3>1. ASSUME NEW j \in 1 .. Len(text2), text2[j].kind = "Data"
          PROVE  ~(text2[j].of[1] = f /\ text2[j].of[2] >= b)
      <4>1. IsInst(fs, text2[j].of) /\ Before(text2[j].of, pl)
        BY <1>2, <3>1 DEF DataIn
      <4>2. text2[j].of \in Nat \X Nat \X Nat
        BY <4>1 DEF IsInst
      <4>3. PICK q \in Nat \X Nat \X Nat : q = text2[j].of
        BY <4>2
      <4>4. q[1] \in Nat /\ q[2] \in Nat /\ q[3] \in Nat
        OBVIOUS
      <4>5. Before(q, <<f, b, 0>>)
        BY <4>1, <4>3
      <4>6. ~(q[1] = f /\ q[2] >= b)
        BY <4>4, <4>5 DEF Before
      <4> QED
        BY <4>3, <4>6
    <3>2. Pending(text2, at2, end, pl2, k, f, b)
      BY <1>1, <2>2, <3>1 DEF Pending, NothingFrom
    <3> QED
      BY <1>1, <1>4, <2>2, <3>2 DEF Bound
  <2> QED
    BY <1>1, <2>1, <2>2
<1>8. ASSUME NEW j \in 1 .. Len(text2), NEW k \in 1 .. Len(text2), text2[j].kind = "Label",
             text2[k].kind = "Label", text2[j].of = text2[k].of, text2[k].of # 0
      PROVE  j = k
  <2>1. (j \in 1 .. len \/ j = len + 1) /\ (k \in 1 .. len \/ k = len + 1)
    BY <1>1
  <2>2. CASE j \in 1 .. len /\ k \in 1 .. len
    BY <1>0, <1>1, <1>8, <2>2 DEF TextIn, LabelsIn
  <2>3. CASE j \in 1 .. len /\ k = len + 1
    BY <1>1, <1>6, <1>8, <2>3
  <2>4. CASE j = len + 1 /\ k \in 1 .. len
    BY <1>1, <1>6, <1>8, <2>4
  <2> QED
    BY <2>1, <2>2, <2>3, <2>4
<1>9. LabelsIn(fs, text2, at2, end, pl2)
  BY <1>7, <1>8 DEF LabelsIn
<1> QED
  BY <1>2, <1>3, <1>5, <1>9 DEF TextIn

\* An instruction goes to the end of the text, with its relocation; labels that
\* waited for it have found it.
LEMMA EmitKeepsText ==
    ASSUME NEW fs, NEW text, NEW at, NEW end, NEW text2, NEW at2, NEW end2, NEW recs, NEW recs2,
           NEW labels, NEW pl, NEW pl2, NEW size,
           fs \in Seq(MirFunctions), IsInst(fs, pl), pl2 \in Nat \X Nat \X Nat,
           OneMore(text, at, end, Data(size, pl), text2, at2),
           SameBlocks(fs, pl, pl2),
           \A p : IsInst(fs, p) => (Before(p, pl2) <=> Before(p, pl) \/ p = pl),
           recs \subseteq recs2,
           \A r \in recs2 \ recs : r.of = pl /\ r.ref = InstAt(fs, pl).ref
                                   /\ (r.ref.to = "Block" => r.address = end),
           InstAt(fs, pl).ref.to = "Block" => \E r \in recs2 : r.of = pl /\ r.ref.to = "Block",
           TextIn(fs, text, at, end, recs, labels, pl)
    PROVE  TextIn(fs, text2, at2, end2, recs2, labels, pl2)
<1>0. PICK len \in Nat : len = Len(text)
  BY DEF OneMore
<1>1. /\ Len(text2) = len + 1
      /\ \A k \in 1 .. len : text2[k] = text[k] /\ at2[k] = at[k]
      /\ text2[len + 1].kind = "Data" /\ text2[len + 1].of = pl
      /\ at2[len + 1] = end
  BY <1>0 DEF OneMore, Data
<1>2. \A k \in 1 .. Len(text2) : k \in 1 .. len \/ k = len + 1
  BY <1>1
<1>3. len + 1 \in 1 .. Len(text2) /\ 1 .. len \subseteq 1 .. Len(text2)
  BY <1>1
<1>4. DataIn(fs, text2, pl2)
  <2>1. ASSUME NEW k \in 1 .. Len(text2), text2[k].kind = "Data"
        PROVE  IsInst(fs, text2[k].of) /\ Before(text2[k].of, pl2)
    <3>1. CASE k \in 1 .. len
      BY <1>0, <1>1, <2>1, <3>1 DEF TextIn, DataIn
    <3>2. CASE k = len + 1
      BY <1>1, <3>2
    <3> QED
      BY <1>2, <3>1, <3>2
  <2>2. ASSUME NEW j \in 1 .. Len(text2), NEW k \in 1 .. Len(text2), j < k,
               text2[j].kind = "Data", text2[k].kind = "Data"
        PROVE  Before(text2[j].of, text2[k].of)
    <3>1. j \in 1 .. len
      BY <1>1, <2>2
    <3>2. CASE k \in 1 .. len
      BY <1>0, <1>1, <2>2, <3>1, <3>2 DEF TextIn, DataIn
    <3>3. CASE k = len + 1
      BY <1>0, <1>1, <2>2, <3>1, <3>3 DEF TextIn, DataIn
    <3> QED
      BY <1>2, <3>2, <3>3
  <2> QED
    BY <2>1, <2>2 DEF DataIn
<1>5. EmittedIn(fs, text2, recs2, pl2)
  <2> SUFFICES ASSUME NEW p, IsInst(fs, p), Before(p, pl2)
               PROVE  /\ \E k \in 1 .. Len(text2) : text2[k].kind = "Data" /\ text2[k].of = p
                      /\ InstAt(fs, p).ref.to = "Block" => \E r \in recs2 : r.of = p /\ r.ref.to = "Block"
    BY DEF EmittedIn
  <2>1. CASE Before(p, pl)
    <3>1. PICK k \in 1 .. len : text[k].kind = "Data" /\ text[k].of = p
      BY <1>0, <2>1 DEF TextIn, EmittedIn
    <3>2. InstAt(fs, p).ref.to = "Block" => \E r \in recs : r.of = p /\ r.ref.to = "Block"
      BY <2>1 DEF TextIn, EmittedIn
    <3> QED
      BY <1>1, <1>3, <3>1, <3>2
  <2>2. CASE p = pl
    BY <1>1, <1>3, <2>2
  <2> QED
    BY <2>1, <2>2
<1>6. RecordsIn(fs, text2, at2, recs2)
  <2> SUFFICES ASSUME NEW r \in recs2, r.ref.to = "Block"
               PROVE  /\ IsInst(fs, r.of) /\ r.ref = InstAt(fs, r.of).ref
                      /\ \E k \in 1 .. Len(text2) : text2[k].kind = "Data" /\ text2[k].of = r.of
                                                    /\ at2[k] = r.address
    BY DEF RecordsIn
  <2>1. CASE r \in recs
    <3>1. IsInst(fs, r.of) /\ r.ref = InstAt(fs, r.of).ref
      BY <2>1 DEF TextIn, RecordsIn
    <3>2. PICK k \in 1 .. len : text[k].kind = "Data" /\ text[k].of = r.of /\ at[k] = r.address
      BY <1>0, <2>1 DEF TextIn, RecordsIn
    <3> QED
      BY <1>1, <1>3, <3>1, <3>2
  <2>2. CASE r \notin recs
    BY <1>1, <1>3, <2>2
  <2> QED
    BY <2>1, <2>2
<1>7. ASSUME NEW f \in Nat, NEW b \in Nat PROVE Bound(fs, pl2, f, b) <=> Bound(fs, pl, f, b)
  BY DEF SameBlocks, Bound
<1>8. BoundIn(fs, text2, labels, pl2)
  <2> SUFFICES ASSUME NEW f \in Nat, NEW b \in Nat, Bound(fs, pl, f, b)
               PROVE  /\ IdOf(fs, f, b) \in labels
                      /\ \E k \in 1 .. Len(text2) : text2[k].kind = "Label" /\ text2[k].of = IdOf(fs, f, b)
    BY <1>7 DEF BoundIn
  <2>1. PICK k \in 1 .. len : text[k].kind = "Label" /\ text[k].of = IdOf(fs, f, b)
    BY <1>0 DEF TextIn, BoundIn
  <2>2. IdOf(fs, f, b) \in labels
    BY DEF TextIn, BoundIn
  <2> QED
    BY <1>1, <1>3, <2>1, <2>2
<1>9. ASSUME NEW k \in 1 .. Len(text2), text2[k].kind = "Label", text2[k].of # 0
      PROVE  \E g, c \in Nat :
               /\ Bound(fs, pl2, g, c) /\ IdOf(fs, g, c) = text2[k].of
               /\ Landed(text2, at2, k, g, c) \/ Pending(text2, at2, end2, pl2, k, g, c)
  <2>0. k # len + 1
    BY <1>1, <1>9
  <2>1. k \in 1 .. len /\ text2[k] = text[k] /\ k \in 1 .. Len(text)
    BY <1>0, <1>1, <1>2, <2>0
  <2>2. PICK g, c \in Nat :
               /\ Bound(fs, pl, g, c) /\ IdOf(fs, g, c) = text[k].of
               /\ Landed(text, at, k, g, c) \/ Pending(text, at, end, pl, k, g, c)
    BY <1>9, <2>1 DEF TextIn, LabelsIn
  <2>3. CASE Landed(text, at, k, g, c)
    BY <1>7, <2>1, <2>2, <2>3, LandedStays
  <2>4. CASE Pending(text, at, end, pl, k, g, c)
    <3>1. pl \in Nat \X Nat \X Nat
      BY DEF IsInst
    <3>2. PICK p1, p2, p3 \in Nat : pl = <<p1, p2, p3>>
      BY <3>1
    <3>3. p1 = g /\ p2 >= c
      BY <2>2, <2>4, <3>2 DEF Pending, Bound, Before
    <3>4. NothingFrom(text2, g, c, len)
      BY <1>0, <1>1, <2>4 DEF Pending, NothingFrom
    <3>5. at2[len + 1] = at2[k]
      BY <1>1, <2>1, <2>4 DEF Pending
    <3>6. (len + 1) - 1 = len
      OBVIOUS
    <3>7. text2[len + 1].of[1] = g /\ text2[len + 1].of[2] >= c
      BY <1>1, <3>2, <3>3
    <3>8. PICK m \in 1 .. Len(text2) : m = len + 1
      BY <1>3
    <3>9. Landed(text2, at2, k, g, c)
      BY <1>1, <3>4, <3>5, <3>6, <3>7, <3>8 DEF Landed
    <3> QED
      BY <1>7, <2>1, <2>2, <3>9
  <2> QED
    BY <2>2, <2>3, <2>4
<1>10. ASSUME NEW j \in 1 .. Len(text2), NEW k \in 1 .. Len(text2), text2[j].kind = "Label",
              text2[k].kind = "Label", text2[j].of = text2[k].of, text2[k].of # 0
       PROVE  j = k
  <2>1. j # len + 1 /\ k # len + 1
    BY <1>1, <1>10
  <2>2. j \in 1 .. len /\ k \in 1 .. len
    BY <1>2, <2>1
  <2> QED
    BY <1>0, <1>1, <1>10, <2>2 DEF TextIn, LabelsIn
<1>11. LabelsIn(fs, text2, at2, end2, pl2)
  BY <1>9, <1>10 DEF LabelsIn
<1> QED
  BY <1>4, <1>5, <1>6, <1>8, <1>11 DEF TextIn

\* The place after an instruction or a label has those before it and that one
\* in front of it.
LEMMA NextPlaceAfter ==
    ASSUME NEW fs, fs \in Seq(MirFunctions), NEW pl \in Nat \X Nat \X Nat, NEW pl2,
           IsBlock(fs, pl[1], pl[2]),
           pl[3] > 0 => pl[3] \in DOMAIN fs[pl[1]].blocks[pl[2]].code,
           pl2 = IF pl[3] < Len(fs[pl[1]].blocks[pl[2]].code) THEN <<pl[1], pl[2], pl[3] + 1>>
                 ELSE <<pl[1], pl[2] + 1, 0>>
    PROVE  /\ pl2 \in Nat \X Nat \X Nat /\ pl2[1] = pl[1]
           /\ \A p : IsInst(fs, p) => (Before(p, pl2) <=> Before(p, pl) \/ p = pl)
           /\ \A g, c \in Nat : IsBlock(fs, g, c) =>
                  (Before(<<g, c, 0>>, pl2) <=>
                       Before(<<g, c, 0>>, pl) \/ (g = pl[1] /\ c = pl[2] /\ pl[3] = 0))
<1>1. PICK f, b, i \in Nat : f = pl[1] /\ b = pl[2] /\ i = pl[3] /\ pl = <<f, b, i>>
  OBVIOUS
<1>2. fs[f] \in MirFunctions
  BY <1>1 DEF IsBlock
<1>3. fs[f].blocks[b] \in Blocks
  BY <1>1, <1>2 DEF IsBlock, MirFunctions
<1>4. PICK code \in Seq(Insts) : code = fs[f].blocks[b].code
  BY <1>3 DEF Blocks
<1>5. PICK len \in Nat : len = Len(code)
  OBVIOUS
<1>6. pl2 = IF i < len THEN <<f, b, i + 1>> ELSE <<f, b + 1, 0>>
  BY <1>1, <1>4, <1>5
<1>7. i > 0 => i \in 1 .. len
  <2>1. DOMAIN code = 1 .. len
    BY <1>5
  <2>2. i > 0 => i \in DOMAIN code
    BY <1>1, <1>4
  <2> QED
    BY <2>1, <2>2
<1>8. ASSUME NEW p, IsInst(fs, p) PROVE Before(p, pl2) <=> Before(p, pl) \/ p = pl
  <2>1. PICK p1, p2, p3 \in Nat : p = <<p1, p2, p3>>
    BY <1>8 DEF IsInst
  <2>2. p1 = f /\ p2 = b => p3 \in 1 .. len
    BY <1>4, <1>5, <1>8, <2>1 DEF IsInst
  <2>3. p = pl <=> p1 = f /\ p2 = b /\ p3 = i
    BY <1>1, <2>1
  <2>4. Before(p, pl) <=> p1 < f \/ (p1 = f /\ p2 < b) \/ (p1 = f /\ p2 = b /\ p3 < i)
    BY <1>1, <2>1 DEF Before
  <2>5. CASE i < len
    <3>1. Before(p, pl2) <=> p1 < f \/ (p1 = f /\ p2 < b) \/ (p1 = f /\ p2 = b /\ p3 < i + 1)
      BY <1>6, <2>1, <2>5 DEF Before
    <3> QED
      BY <2>3, <2>4, <3>1
  <2>6. CASE ~(i < len)
    <3>1. Before(p, pl2) <=> p1 < f \/ (p1 = f /\ p2 < b + 1)
      BY <1>6, <2>1, <2>6 DEF Before
    <3> QED
      BY <1>7, <2>2, <2>3, <2>4, <2>6, <3>1
  <2> QED
    BY <2>5, <2>6
<1>9. ASSUME NEW g \in Nat, NEW c \in Nat
      PROVE  Before(<<g, c, 0>>, pl2) <=>
                 Before(<<g, c, 0>>, pl) \/ (g = pl[1] /\ c = pl[2] /\ pl[3] = 0)
  <2>1. Before(<<g, c, 0>>, pl) <=> g < f \/ (g = f /\ c < b) \/ (g = f /\ c = b /\ 0 < i)
    BY <1>1 DEF Before
  <2>2. CASE i < len
    <3>1. Before(<<g, c, 0>>, pl2) <=> g < f \/ (g = f /\ c < b) \/ (g = f /\ c = b /\ 0 < i + 1)
      BY <1>6, <2>2 DEF Before
    <3> QED
      BY <1>1, <2>1, <3>1
  <2>3. CASE ~(i < len)
    <3>1. Before(<<g, c, 0>>, pl2) <=> g < f \/ (g = f /\ c < b + 1)
      BY <1>6, <2>3 DEF Before
    <3> QED
      BY <1>1, <2>1, <3>1
  <2> QED
    BY <2>2, <2>3
<1>10. pl2 \in Nat \X Nat \X Nat /\ pl2[1] = pl[1]
  <2>1. CASE i < len
    <3>1. pl2 = <<f, b, i + 1>> /\ i + 1 \in Nat
      BY <1>6, <2>1
    <3> QED
      BY <1>1, <3>1
  <2>2. CASE ~(i < len)
    <3>1. pl2 = <<f, b + 1, 0>> /\ b + 1 \in Nat
      BY <1>6, <2>2
    <3> QED
      BY <1>1, <3>1
  <2> QED
    BY <2>1, <2>2
<1> QED
  BY <1>8, <1>9, <1>10

\* Functions and blocks are numbered from 1.
LEMMA DomainsAre ==
    ASSUME NEW fs, fs \in Seq(MirFunctions), NEW f \in DOMAIN fs
    PROVE  /\ f \in Nat /\ f > 0 /\ Len(fs[f].blocks) \in Nat
           /\ DOMAIN fs[f].blocks = 1 .. Len(fs[f].blocks)
<1>1. fs[f] \in MirFunctions /\ f \in Nat /\ f > 0
  OBVIOUS
<1>2. fs[f].blocks \in Seq(Blocks)
  BY <1>1 DEF MirFunctions
<1> QED
  BY <1>1, <1>2

\* In front of a function is what is in front of its first block.
LEMMA EnterFunction ==
    ASSUME NEW fs, fs \in Seq(MirFunctions), NEW pl \in Nat \X Nat \X Nat, pl[2] = 0
    PROVE  SameInsts(fs, pl, <<pl[1], 1, 0>>) /\ SameBlocks(fs, pl, <<pl[1], 1, 0>>)
<1>1. ASSUME NEW p, IsInst(fs, p) PROVE Before(p, <<pl[1], 1, 0>>) <=> Before(p, pl)
  <2>1. PICK p1, p2, p3 \in Nat : p = <<p1, p2, p3>>
    BY <1>1 DEF IsInst
  <2>2. p2 > 0
    BY <1>1, <2>1, DomainsAre DEF IsInst, IsBlock
  <2> QED
    BY <2>1, <2>2 DEF Before
<1>2. ASSUME NEW f \in Nat, NEW b \in Nat, IsBlock(fs, f, b)
      PROVE  Before(<<f, b, 0>>, <<pl[1], 1, 0>>) <=> Before(<<f, b, 0>>, pl)
  <2>1. b > 0
    BY <1>2, DomainsAre DEF IsBlock
  <2> QED
    BY <2>1 DEF Before
<1> QED
  BY <1>1, <1>2 DEF SameInsts, SameBlocks

\* Behind its last block is what is in front of the next function.
LEMMA LeaveFunction ==
    ASSUME NEW fs, fs \in Seq(MirFunctions), NEW pl \in Nat \X Nat \X Nat,
           pl[1] \in DOMAIN fs, \A b \in DOMAIN fs[pl[1]].blocks : b < pl[2]
    PROVE  SameInsts(fs, pl, <<pl[1] + 1, 0, 0>>) /\ SameBlocks(fs, pl, <<pl[1] + 1, 0, 0>>)
<1>1. ASSUME NEW p, IsInst(fs, p) PROVE Before(p, <<pl[1] + 1, 0, 0>>) <=> Before(p, pl)
  <2>1. PICK p1, p2, p3 \in Nat : p = <<p1, p2, p3>>
    BY <1>1 DEF IsInst
  <2>2. p1 = pl[1] => p2 < pl[2]
    BY <1>1, <2>1 DEF IsInst, IsBlock
  <2> QED
    BY <2>1, <2>2 DEF Before
<1>2. ASSUME NEW f \in Nat, NEW b \in Nat, IsBlock(fs, f, b)
      PROVE  Before(<<f, b, 0>>, <<pl[1] + 1, 0, 0>>) <=> Before(<<f, b, 0>>, pl)
  <2>1. f = pl[1] => b < pl[2]
    BY <1>2 DEF IsBlock
  <2> QED
    BY <2>1 DEF Before
<1> QED
  BY <1>1, <1>2 DEF SameInsts, SameBlocks

\* There no label waits for its code: the last block has some.
LEMMA NothingPending ==
    ASSUME NEW fs, NEW text, NEW at, NEW end, NEW recs, NEW pl \in Nat \X Nat \X Nat, WellFormed(fs),
           EmittedIn(fs, text, recs, pl), \A b \in DOMAIN fs[pl[1]].blocks : b < pl[2],
           NEW f \in Nat, NEW b \in Nat, NEW k, Bound(fs, pl, f, b)
    PROVE  ~Pending(text, at, end, pl, k, f, b)
<1> SUFFICES ASSUME Pending(text, at, end, pl, k, f, b) PROVE FALSE
  OBVIOUS
<1>1. f = pl[1] /\ f \in DOMAIN fs /\ b \in DOMAIN fs[f].blocks /\ fs \in Seq(MirFunctions)
  BY DEF Pending, Bound, IsBlock, WellFormed
<1>2. fs[f] \in MirFunctions
  BY <1>1
<1>3. PICK blocks \in Seq(Blocks) : blocks = fs[f].blocks
  BY <1>2 DEF MirFunctions
<1>4. blocks # <<>> /\ Len(blocks) \in DOMAIN blocks /\ b <= Len(blocks)
  BY <1>1, <1>3
<1>5. PICK last \in Nat : last = Len(blocks)
  OBVIOUS
<1>6. blocks[last].code # <<>> /\ blocks[last] \in Blocks
  BY <1>1, <1>3, <1>4, <1>5 DEF WellFormed
<1>7. PICK code \in Seq(Insts) : code = blocks[last].code /\ code # <<>>
  BY <1>6 DEF Blocks
<1>8. 1 \in DOMAIN code
  BY <1>7
<1>9. PICK p : p = <<f, last, 1>>
  OBVIOUS
<1>10. p \in Nat \X Nat \X Nat /\ p[1] = f /\ p[2] = last /\ p[3] = 1
  BY <1>9
<1>11. IsInst(fs, p)
  BY <1>1, <1>3, <1>4, <1>5, <1>7, <1>8, <1>10 DEF IsInst, IsBlock
<1>12. last < pl[2]
  BY <1>1, <1>3, <1>4, <1>5
<1>13. Before(p, pl)
  BY <1>1, <1>10, <1>12 DEF Before
<1>14. PICK j \in 1 .. Len(text) : text[j].kind = "Data" /\ text[j].of = p
  BY <1>11, <1>13 DEF EmittedIn
<1>15. text[j].of[1] = f /\ text[j].of[2] >= b
  BY <1>4, <1>5, <1>10, <1>14
<1> QED
  BY <1>14, <1>15 DEF Pending, NothingFrom

-----------------------------------------------------------------------------
(* The steps keep the text what it is.                                     *)

\* The relocations that have been recorded.
Recorded ==
    {relocations[k] : k \in DOMAIN relocations} \cup {funcRelocs[k] : k \in DOMAIN funcRelocs}

\* Outside of a function all of them have been flushed.
FlushInv ==
    /\ place[2] = 0 => funcRelocs = <<>>
    /\ place[1] \notin DOMAIN Functions => place[2] = 0

TextInv ==
    /\ StreamInv
    /\ TextIn(Functions, Text, At, EndOfText, Recorded, allLabels, place)
    /\ FlushInv

\* The functions of the module are as the assumptions say.
LEMMA FunctionsWellFormed == Inv => WellFormed(Functions)
<1> SUFFICES ASSUME Inv PROVE WellFormed(Functions)
  OBVIOUS
<1>1. PICK m \in Modules : m = module
  BY DEF Inv, PlaceInv
<1>2. PICK fs : fs = Functions /\ fs = m.functions
  BY <1>1 DEF Functions
<1>3. fs \in Seq(MirFunctions)
  BY <1>1, <1>2, ModulesAssumption
<1>4. ASSUME NEW f \in DOMAIN fs
      PROVE  /\ fs[f].isDeclaration <=> fs[f].blocks = <<>>
             /\ fs[f].blocks # <<>> => fs[f].blocks[Len(fs[f].blocks)].code # <<>>
  BY <1>2, BlocksAssumption
<1>5. ASSUME NEW f \in Nat, NEW b \in Nat, IsBlock(fs, f, b)
      PROVE  /\ IdOf(fs, f, b) # 0
             /\ \A g, c \in Nat : IsBlock(fs, g, c) /\ IdOf(fs, g, c) = IdOf(fs, f, b) => g = f /\ c = b
  BY <1>2, <1>5, BlocksAssumption DEF IsBlock, IdOf
<1>6. ASSUME NEW p, IsInst(fs, p), InstAt(fs, p).ref.to = "Block"
      PROVE  /\ InstAt(fs, p).kind \in {"Jump", "Jcc"}
             /\ \E t \in Nat : IsBlock(fs, p[1], t) /\ IdOf(fs, p[1], t) = InstAt(fs, p).ref.id
  <2>1. PICK f : f = p[1]
    OBVIOUS
  <2>2. PICK b : b = p[2]
    OBVIOUS
  <2>3. PICK i : i = p[3]
    OBVIOUS
  <2>4. f \in DOMAIN fs /\ b \in DOMAIN fs[f].blocks /\ i \in DOMAIN fs[f].blocks[b].code
    BY <1>6, <2>1, <2>2, <2>3 DEF IsInst, IsBlock
  <2>5. PICK inst : inst = fs[f].blocks[b].code[i] /\ inst = InstAt(fs, p)
    BY <2>1, <2>2, <2>3 DEF InstAt
  <2>6. inst.kind \in {"Jump", "Jcc"} /\ \E t \in DOMAIN fs[f].blocks : fs[f].blocks[t].id = inst.ref.id
    <3>1. \A j \in DOMAIN fs[f].blocks[b].code :
              LET other == fs[f].blocks[b].code[j]
              IN  other.ref.to = "Block" =>
                      /\ other.kind \in {"Jump", "Jcc"}
                      /\ \E t \in DOMAIN fs[f].blocks : fs[f].blocks[t].id = other.ref.id
      BY <1>2, <2>4, BlocksAssumption
    <3> QED
      BY <1>6, <2>4, <2>5, <3>1
  <2>7. DOMAIN fs[f].blocks \subseteq Nat
    BY <1>3, <2>4, DomainsAre
  <2> QED
    BY <2>1, <2>4, <2>5, <2>6, <2>7 DEF IsBlock, IdOf
<1> QED
  BY <1>2, <1>3, <1>4, <1>5, <1>6 DEF WellFormed

\* The text is empty at first, and nothing is in front of its place.
LEMMA InitText == Init => TextInv
<1> SUFFICES ASSUME Init PROVE TextInv
  OBVIOUS
<1>0. Inv /\ StreamInv
  BY InitEstablishesInv, InitStream
<1>1. PICK fs : fs = Functions
  OBVIOUS
<1>2. fs \in Seq(MirFunctions)
  BY <1>0, <1>1, FunctionsWellFormed DEF WellFormed
<1>3. Text = <<>> /\ place = <<1, 0, 0>> /\ Len(Text) = 0 /\ Recorded = {} /\ funcRelocs = <<>>
  BY TextSection DEF Init, Text, Recorded
<1>4. ASSUME NEW f \in DOMAIN fs, NEW b \in DOMAIN fs[f].blocks PROVE f > 0 /\ b > 0
  BY <1>2, DomainsAre
<1>5. ASSUME NEW f \in Nat, NEW b \in Nat PROVE ~Bound(fs, place, f, b)
  BY <1>3, <1>4 DEF Bound, Before, IsBlock
<1>6. ASSUME NEW p, IsInst(fs, p) PROVE ~Before(p, place)
  <2>1. p[1] > 0 /\ p[2] > 0 /\ p[1] \in Nat /\ p[2] \in Nat
    BY <1>4, <1>6 DEF IsInst, IsBlock
  <2> QED
    BY <1>3, <2>1 DEF Before
<1>7. TextIn(fs, Text, At, EndOfText, Recorded, allLabels, place)
  <2>1. \A k \in 1 .. Len(Text) : FALSE
    BY <1>3
  <2>2. DataIn(fs, Text, place) /\ LabelsIn(fs, Text, At, EndOfText, place)
    BY <2>1 DEF DataIn, LabelsIn
  <2>3. EmittedIn(fs, Text, Recorded, place)
    BY <1>6 DEF EmittedIn
  <2>4. RecordsIn(fs, Text, At, Recorded)
    BY <1>3 DEF RecordsIn
  <2>5. BoundIn(fs, Text, allLabels, place)
    BY <1>5 DEF BoundIn
  <2> QED
    BY <2>2, <2>3, <2>4, <2>5 DEF TextIn
<1> QED
  BY <1>0, <1>1, <1>3, <1>7 DEF TextInv, FlushInv

\* A step that touches neither the text nor what was recorded of it.
LEMMA TextKept ==
    ASSUME TextInv, StreamInv', UNCHANGED <<module, Text, EndOfText, place, labelling>>
    PROVE  TextInv'
<1>1. Functions' = Functions /\ At' = At /\ Recorded' = Recorded
  BY DEF Functions, At, Recorded, labelling
<1>2. TextIn(Functions, Text, At, EndOfText, Recorded, allLabels, place)'
  BY <1>1 DEF TextInv, labelling
<1>3. FlushInv'
  BY <1>1 DEF TextInv, FlushInv, labelling
<1> QED
  BY <1>2, <1>3 DEF TextInv

\* Nothing waits at the end of a function, or where a declaration is.
LEMMA FunctionLeft ==
    ASSUME Inv, TextInv, place[1] \in DOMAIN Functions,
           \A b \in DOMAIN Functions[place[1]].blocks : b < place[2]
    PROVE  TextIn(Functions, Text, At, EndOfText, Recorded, allLabels, <<place[1] + 1, 0, 0>>)
<1>1. PICK fs : fs = Functions
  OBVIOUS
<1>2. WellFormed(fs) /\ fs \in Seq(MirFunctions) /\ place \in Nat \X Nat \X Nat
  BY <1>1, FunctionsWellFormed DEF WellFormed, Inv, PlaceInv
<1>3. TextIn(fs, Text, At, EndOfText, Recorded, allLabels, place)
  BY <1>1 DEF TextInv
<1>4. SameInsts(fs, place, <<place[1] + 1, 0, 0>>) /\ SameBlocks(fs, place, <<place[1] + 1, 0, 0>>)
  BY <1>1, <1>2, LeaveFunction
<1>5. ASSUME NEW f \in Nat, NEW b \in Nat, NEW k, Bound(fs, place, f, b)
      PROVE  ~Pending(Text, At, EndOfText, place, k, f, b)
  BY <1>1, <1>2, <1>3, <1>5, NothingPending DEF TextIn
<1> QED
  BY <1>1, <1>3, <1>4, <1>5, MoveKeepsText

\* SkipDeclaration: a declaration has no code.
LEMMA SkipKeepsText == ASSUME Inv, TextInv, SkipDeclaration PROVE TextInv'
<1>1. /\ place[1] \in DOMAIN Functions /\ place' = <<place[1] + 1, 0, 0>> /\ place[2] = 0
      /\ Functions[place[1]].isDeclaration /\ UNCHANGED <<module, emission>>
  BY FunctionsWellFormed DEF SkipDeclaration, ReadyFor, WellFormed
<1>2. Functions[place[1]].blocks = <<>>
  BY <1>1, FunctionsWellFormed DEF WellFormed
<1>3. TextIn(Functions, Text, At, EndOfText, Recorded, allLabels, <<place[1] + 1, 0, 0>>)
  BY <1>1, <1>2, FunctionLeft
<1>4. /\ Functions' = Functions /\ Text' = Text /\ At' = At /\ EndOfText' = EndOfText
      /\ Recorded' = Recorded /\ allLabels' = allLabels
  BY <1>1 DEF Functions, Text, At, EndOfText, Recorded, emission, labelling
<1>5. StreamInv'
  BY <1>1 DEF TextInv, StreamInv, emission
<1>6. FlushInv'
  BY <1>1 DEF TextInv, FlushInv, emission, labelling
<1> QED
  BY <1>1, <1>3, <1>4, <1>5, <1>6 DEF TextInv

\* EndFunction: the relocations move, and no label waits any more.
LEMMA EndKeepsText == ASSUME Inv, TextInv, EndFunction PROVE TextInv'
<1>1. /\ place[1] \in DOMAIN Functions /\ place' = <<place[1] + 1, 0, 0>>
      /\ place[2] > Len(Functions[place[1]].blocks)
      /\ relocations' = relocations \o funcRelocs /\ funcRelocs' = <<>>
      /\ UNCHANGED <<module, stream, cursorOffset, allLabels>>
  BY FunctionsWellFormed DEF EndFunction, ReadyFor, WellFormed
<1>2. \A b \in DOMAIN Functions[place[1]].blocks : b < place[2]
  <2>1. PICK fs \in Seq(MirFunctions) : fs = Functions
    BY FunctionsWellFormed DEF WellFormed
  <2>2. PICK len \in Nat : len = Len(fs[place[1]].blocks) /\ DOMAIN fs[place[1]].blocks = 1 .. len
    BY <1>1, <2>1, DomainsAre
  <2>3. place[2] \in Nat
    BY DEF Inv, PlaceInv
  <2> QED
    BY <1>1, <2>1, <2>2, <2>3
<1>3. TextIn(Functions, Text, At, EndOfText, Recorded, allLabels, <<place[1] + 1, 0, 0>>)
  BY <1>1, <1>2, FunctionLeft
<1>4. Recorded' = Recorded
  <2>1. PICK R : relocations \in Seq(R) /\ funcRelocs \in Seq(R)
    BY DEF Inv, RelocInv
  <2>2. {relocations'[k] : k \in DOMAIN relocations'} =
            {relocations[k] : k \in DOMAIN relocations} \cup {funcRelocs[k] : k \in DOMAIN funcRelocs}
    <3>1. PICK m, n \in Nat : m = Len(relocations) /\ n = Len(funcRelocs)
      BY <2>1
    <3>2. DOMAIN relocations = 1 .. m /\ DOMAIN funcRelocs = 1 .. n
      BY <2>1, <3>1
    <3>3. /\ DOMAIN relocations' = 1 .. m + n
          /\ \A k \in 1 .. m : relocations'[k] = relocations[k]
          /\ \A k \in 1 .. n : relocations'[m + k] = funcRelocs[k]
      BY <1>1, <2>1, <3>1
    <3>4. ASSUME NEW k \in 1 .. m + n
          PROVE  k \in 1 .. m \/ \E j \in 1 .. n : k = m + j
      <4>1. k \in 1 .. m \/ (k - m \in 1 .. n /\ k = m + (k - m))
        OBVIOUS
      <4> QED
        BY <4>1
    <3>5. \A k \in 1 .. m : k \in 1 .. m + n
      OBVIOUS
    <3>6. \A k \in 1 .. n : m + k \in 1 .. m + n
      OBVIOUS
    <3>7. ASSUME NEW k \in 1 .. m + n
          PROVE  \/ \E j \in 1 .. m : relocations'[k] = relocations[j]
                 \/ \E j \in 1 .. n : relocations'[k] = funcRelocs[j]
      BY <3>3, <3>4
    <3>8. ASSUME NEW k \in 1 .. m PROVE \E j \in 1 .. m + n : relocations'[j] = relocations[k]
      BY <3>3, <3>5
    <3>9. ASSUME NEW k \in 1 .. n PROVE \E j \in 1 .. m + n : relocations'[j] = funcRelocs[k]
      BY <3>3, <3>6
    <3>10. DOMAIN relocations' = 1 .. m + n
      BY <3>3
    <3>11. PICK r : r = relocations'
      OBVIOUS
    <3>12. {r[k] : k \in 1 .. m + n} =
               {relocations[k] : k \in 1 .. m} \cup {funcRelocs[k] : k \in 1 .. n}
      <4>1. \A k \in 1 .. m + n :
                r[k] \in {relocations[j] : j \in 1 .. m} \cup {funcRelocs[j] : j \in 1 .. n}
        BY <3>7, <3>11
      <4>2. \A k \in 1 .. m : relocations[k] \in {r[j] : j \in 1 .. m + n}
        BY <3>8, <3>11
      <4>3. \A k \in 1 .. n : funcRelocs[k] \in {r[j] : j \in 1 .. m + n}
        BY <3>9, <3>11
      <4> QED
        BY <4>1, <4>2, <4>3
    <3> QED
      BY <3>2, <3>10, <3>11, <3>12
  <2>3. {funcRelocs'[k] : k \in DOMAIN funcRelocs'} = {}
    BY <1>1
  <2> QED
    BY <2>2, <2>3 DEF Recorded
<1>5. /\ Functions' = Functions /\ Text' = Text /\ At' = At /\ EndOfText' = EndOfText
  BY <1>1 DEF Functions, Text, At, EndOfText
<1>6. StreamInv'
  BY <1>1 DEF TextInv, StreamInv
<1>7. FlushInv'
  BY <1>1 DEF FlushInv
<1> QED
  BY <1>1, <1>3, <1>4, <1>5, <1>6, <1>7 DEF TextInv

\* BeginFunction: padding and the label of the function.
LEMMA BeginKeepsText == ASSUME Inv, TextInv, BeginFunction PROVE TextInv'
<1>1. PICK fs \in Seq(MirFunctions) : fs = Functions
  BY FunctionsWellFormed DEF WellFormed
<1>2. /\ place[1] \in DOMAIN Functions /\ place[2] = 0 /\ place' = <<place[1], 1, 0>>
      /\ UNCHANGED <<module, labelling>> /\ place \in Nat \X Nat \X Nat
  BY <1>1 DEF BeginFunction, ReadyFor, Inv, PlaceInv
<1>3. PICK first \in AllNodes : first = Align(16)
  BY NodesAre
<1>4. PICK second \in AllNodes : second = Label(0)
  BY NodesAre
<1>5. /\ first.kind = "Align" /\ (first.kind = "Align" => first.size # 0)
      /\ (second.kind = "Align" => second.size # 0)
  BY <1>3, <1>4 DEF Align, Label
<1>6. /\ stream \in [SectionTypes -> Seq(AllNodes)] /\ cursorOffset \in [SectionTypes -> Nat]
      /\ "Text" \in SectionTypes
  BY TextSection DEF TextInv, StreamInv, Inv, OffsetInv
<1>7. AlignUp(cursorOffset["Text"], 16) \in Nat
  <2>1. PICK offset \in Nat : offset = cursorOffset["Text"]
    BY <1>6
  <2>2. 16 \in Nat \ {0}
    OBVIOUS
  <2>3. AlignUp(offset, 16) \in Nat
    BY <2>2, AlignUpGrows
  <2> QED
    BY <2>1, <2>3
<1>8. /\ stream' = [stream EXCEPT !["Text"] = @ \o <<first, second>>]
      /\ cursorOffset' = [cursorOffset EXCEPT !["Text"] = After(After(@, first), second)]
  <2>1. After(After(cursorOffset["Text"], first), second) = AlignUp(cursorOffset["Text"], 16)
    BY <1>3, <1>4, <1>7, AfterIs
  <2>2. cursorOffset' = [cursorOffset EXCEPT !["Text"] = AlignUp(cursorOffset["Text"], 16)]
    BY DEF BeginFunction, FunctionAlignment
  <2>3. stream' = [stream EXCEPT !["Text"] = @ \o <<first, second>>]
    BY <1>3, <1>4 DEF BeginFunction, FunctionAlignment
  <2> QED
    BY <2>1, <2>2, <2>3
<1>9. StreamInv' /\ stream'["Text"] = Append(Append(stream["Text"], first), second)
  BY <1>5, <1>6, <1>8, SectionGrowsByTwo DEF TextInv, Inv
<1>10. Text \in Seq(AllNodes) /\ SizesSet(Text) /\ EndOfText = EndOf(Text)
  BY <1>6, SectionIs DEF TextInv, Text, EndOfText
<1>11. PICK mid : mid = Append(Text, first)
  OBVIOUS
<1>12. /\ mid \in Seq(AllNodes) /\ SizesSet(mid)
       /\ OneMore(Text, At, EndOfText, first, mid, Starts(mid))
  BY <1>5, <1>10, <1>11, OneNode DEF At
<1>13. Text' = Append(mid, second)
  BY <1>9, <1>11 DEF Text
<1>14. OneMore(mid, Starts(mid), EndOf(mid), second, Text', At')
  <2>1. OneMore(mid, Starts(mid), EndOf(mid), second, Append(mid, second), Starts(Append(mid, second)))
    BY <1>5, <1>12, OneNode
  <2> QED
    BY <1>13, <2>1 DEF At
<1>15. TextIn(fs, Text, At, EndOfText, Recorded, allLabels, place)
  BY <1>1 DEF TextInv
<1>16. TextIn(fs, mid, Starts(mid), EndOf(mid), Recorded, allLabels, place)
  BY <1>2, <1>5, <1>12, <1>15, OtherKeepsText
<1>17. TextIn(fs, Text', At', EndOfText', Recorded, allLabels, place)
  BY <1>2, <1>4, <1>14, <1>16, OtherKeepsText
<1>18. SameInsts(fs, place, <<place[1], 1, 0>>) /\ SameBlocks(fs, place, <<place[1], 1, 0>>)
  BY <1>2, EnterFunction
<1>19. TextIn(fs, Text', At', EndOfText', Recorded, allLabels, place')
  <2>1. place'[1] = place[1]
    BY <1>2
  <2> QED
    BY <1>2, <1>17, <1>18, <2>1, MoveKeepsText
<1>20. Functions' = fs /\ Recorded' = Recorded /\ allLabels' = allLabels
  BY <1>1, <1>2 DEF Functions, Recorded, labelling
<1>21. FlushInv'
  BY <1>1, <1>2, <1>20 DEF FlushInv
<1> QED
  BY <1>9, <1>19, <1>20, <1>21 DEF TextInv

\* The place that follows the one in a function.
LEMMA NextPlaceIs ==
    ASSUME Inv, InFunction(place[1]), NEW pl2, pl2 = NextPlace(place)
    PROVE  /\ pl2 \in Nat \X Nat \X Nat /\ pl2[1] = place[1]
           /\ \A p : IsInst(Functions, p) => (Before(p, pl2) <=> Before(p, place) \/ p = place)
           /\ \A g, c \in Nat : IsBlock(Functions, g, c) =>
                  (Before(<<g, c, 0>>, pl2) <=>
                       Before(<<g, c, 0>>, place) \/ (g = place[1] /\ c = place[2] /\ place[3] = 0))
           /\ IsBlock(Functions, place[1], place[2]) /\ place[2] # 0
           /\ place[3] > 0 => IsInst(Functions, place)
<1>1. PICK fs \in Seq(MirFunctions) : fs = Functions
  BY FunctionsWellFormed DEF WellFormed
<1>2. place \in Nat \X Nat \X Nat /\ place[1] \in DOMAIN fs /\ place[2] \in 1 .. Len(fs[place[1]].blocks)
  BY <1>1 DEF Inv, PlaceInv, InFunction, ReadyFor
<1>3. IsBlock(fs, place[1], place[2]) /\ place[2] # 0
  BY <1>2, DomainsAre DEF IsBlock
<1>4. place[3] > 0 => place[3] \in DOMAIN fs[place[1]].blocks[place[2]].code
  BY <1>1 DEF Inv, PlaceInv, Code
<1>5. pl2 = IF place[3] < Len(fs[place[1]].blocks[place[2]].code)
            THEN <<place[1], place[2], place[3] + 1>> ELSE <<place[1], place[2] + 1, 0>>
  BY <1>1 DEF NextPlace, Code
<1>6. place[3] > 0 => IsInst(fs, place)
  BY <1>2, <1>3, <1>4 DEF IsInst
<1>7. /\ pl2 \in Nat \X Nat \X Nat /\ pl2[1] = place[1]
      /\ \A p : IsInst(fs, p) => (Before(p, pl2) <=> Before(p, place) \/ p = place)
      /\ \A g, c \in Nat : IsBlock(fs, g, c) =>
             (Before(<<g, c, 0>>, pl2) <=>
                  Before(<<g, c, 0>>, place) \/ (g = place[1] /\ c = place[2] /\ place[3] = 0))
  BY <1>2, <1>3, <1>4, <1>5, NextPlaceAfter
<1> QED
  BY <1>1, <1>3, <1>6, <1>7

\* BindBlock: the label of a block goes where its code will start.
LEMMA BindKeeps == ASSUME Inv, TextInv, BindBlock PROVE TextInv'
<1>1. PICK fs : fs = Functions
  OBVIOUS
<1>2. WellFormed(fs) /\ fs \in Seq(MirFunctions)
  BY <1>1, FunctionsWellFormed DEF WellFormed
<1>3. InFunction(place[1]) /\ place[3] = 0 /\ place' = NextPlace(place)
      /\ UNCHANGED <<module, cursorOffset, funcRelocs, relocations>>
  BY DEF BindBlock
<1>4. /\ place' \in Nat \X Nat \X Nat /\ place'[1] = place[1]
      /\ \A p : IsInst(fs, p) => (Before(p, place') <=> Before(p, place) \/ p = place)
      /\ \A g, c \in Nat : IsBlock(fs, g, c) =>
             (Before(<<g, c, 0>>, place') <=>
                  Before(<<g, c, 0>>, place) \/ (g = place[1] /\ c = place[2] /\ place[3] = 0))
      /\ IsBlock(fs, place[1], place[2]) /\ place[2] # 0
  BY <1>1, <1>3, NextPlaceIs
<1>5. PICK f, b \in Nat : f = place[1] /\ b = place[2] /\ place = <<f, b, 0>>
  <2>1. place \in Nat \X Nat \X Nat
    BY DEF Inv, PlaceInv
  <2> QED
    BY <1>3, <2>1
<1>6. PICK id : id = IdOf(fs, f, b)
  OBVIOUS
<1>7. stream' = [stream EXCEPT !["Text"] = Append(@, Label(id))] /\ allLabels' = allLabels \cup {id}
  BY <1>1, <1>5, <1>6 DEF BindBlock, IdOf
<1>8. id \in Nat
  <2>1. fs[f] \in MirFunctions
    BY <1>2, <1>4, <1>5 DEF IsBlock
  <2>2. fs[f].blocks[b] \in Blocks
    BY <1>4, <1>5, <2>1 DEF IsBlock, MirFunctions
  <2> QED
    BY <1>6, <2>2 DEF IdOf, Blocks
<1>9. PICK n \in AllNodes : n = Label(id)
  BY <1>8, NodesAre
<1>10. n.kind = "Label" /\ (n.kind = "Align" => n.size # 0)
  BY <1>9 DEF Label
<1>11. /\ stream' = [stream EXCEPT !["Text"] = Append(@, n)]
       /\ cursorOffset' = [cursorOffset EXCEPT !["Text"] = After(@, n)]
  <2>1. cursorOffset \in [SectionTypes -> Nat]
    BY DEF Inv, OffsetInv
  <2>2. cursorOffset["Text"] \in Nat
    BY <2>1, TextSection
  <2>3. After(cursorOffset["Text"], n) = cursorOffset["Text"]
    BY <1>9, <2>2, AfterIs
  <2> QED
    BY <1>3, <1>7, <1>9, <2>1, <2>3
<1>12. StreamInv' /\ OneMore(Text, At, EndOfText, n, Text', At')
  BY <1>10, <1>11, TextGrows DEF TextInv, Inv
<1>13. SameInsts(fs, place, place')
  <2>1. ASSUME NEW p, IsInst(fs, p) PROVE p # place
    <3>1. p[3] # 0
      <4>1. fs[p[1]] \in MirFunctions
        BY <1>2, <2>1 DEF IsInst, IsBlock
      <4>2. fs[p[1]].blocks[p[2]] \in Blocks
        BY <2>1, <4>1 DEF IsInst, IsBlock, MirFunctions
      <4>3. PICK code \in Seq(Insts) : code = fs[p[1]].blocks[p[2]].code
        BY <4>2 DEF Blocks
      <4> QED
        BY <2>1, <4>3 DEF IsInst
    <3> QED
      BY <1>3, <3>1
  <2> QED
    BY <1>4, <2>1 DEF SameInsts
<1>14. \A g, c \in Nat : IsBlock(fs, g, c) =>
           (Before(<<g, c, 0>>, place') <=> Before(<<g, c, 0>>, place) \/ (g = f /\ c = b))
  BY <1>3, <1>4, <1>5
<1>15. TextIn(fs, Text, At, EndOfText, Recorded, allLabels, place)
  BY <1>1 DEF TextInv
<1>16. TextIn(fs, Text', At', EndOfText, Recorded, allLabels', place')
  <2>1. IsBlock(fs, f, b) /\ place'[1] = f
    BY <1>4, <1>5
  <2>2. OneMore(Text, At, EndOfText, Label(IdOf(fs, f, b)), Text', At')
    BY <1>6, <1>9, <1>12
  <2>3. TextIn(fs, Text', At', EndOfText, Recorded, allLabels \cup {IdOf(fs, f, b)}, place')
    <3>1. PICK pl, pl2 : pl = place /\ pl2 = place'
      OBVIOUS
    <3>2. pl = <<f, b, 0>> /\ pl2[1] = f /\ SameInsts(fs, pl, pl2)
      BY <1>5, <1>13, <2>1, <3>1
    <3>3. \A g, c \in Nat : IsBlock(fs, g, c) =>
              (Before(<<g, c, 0>>, pl2) <=> Before(<<g, c, 0>>, pl) \/ (g = f /\ c = b))
      BY <1>14, <3>1
    <3>4. TextIn(fs, Text, At, EndOfText, Recorded, allLabels, pl)
      BY <1>15, <3>1
    <3>5. TextIn(fs, Text', At', EndOfText, Recorded, allLabels \cup {IdOf(fs, f, b)}, pl2)
      BY <1>2, <2>1, <2>2, <3>2, <3>3, <3>4, BindKeepsText
    <3> QED
      BY <3>1, <3>5
  <2> QED
    BY <1>6, <1>7, <2>3
<1>17. Functions' = fs /\ Recorded' = Recorded /\ EndOfText' = EndOfText
  BY <1>1, <1>3 DEF Functions, Recorded, EndOfText
<1>18. FlushInv'
  <2>1. place'[1] \in DOMAIN Functions'
    BY <1>4, <1>17 DEF IsBlock
  <2>2. place'[2] # 0
    <3>1. place' = <<f, b, 1>> \/ place' = <<f, b + 1, 0>>
      BY <1>3, <1>5 DEF NextPlace
    <3> QED
      BY <1>4, <1>5, <3>1
  <2> QED
    BY <2>1, <2>2 DEF FlushInv
<1> QED
  BY <1>12, <1>16, <1>17, <1>18 DEF TextInv

\* EmitInst: an instruction with its relocation.
LEMMA EmitKeeps == ASSUME Inv, TextInv, EmitInst PROVE TextInv'
<1>1. PICK fs : fs = Functions
  OBVIOUS
<1>2. WellFormed(fs) /\ fs \in Seq(MirFunctions)
  BY <1>1, FunctionsWellFormed DEF WellFormed
<1>3. InFunction(place[1]) /\ place[3] > 0 /\ place' = NextPlace(place)
      /\ UNCHANGED <<module, target, allLabels, relocations>>
  BY DEF EmitInst
<1>4. /\ place' \in Nat \X Nat \X Nat /\ place'[1] = place[1]
      /\ \A p : IsInst(fs, p) => (Before(p, place') <=> Before(p, place) \/ p = place)
      /\ \A g, c \in Nat : IsBlock(fs, g, c) =>
             (Before(<<g, c, 0>>, place') <=>
                  Before(<<g, c, 0>>, place) \/ (g = place[1] /\ c = place[2] /\ place[3] = 0))
      /\ IsBlock(fs, place[1], place[2]) /\ place[2] # 0 /\ IsInst(fs, place)
  BY <1>1, <1>3, NextPlaceIs
<1>5. PICK inst : inst = Code(place)[place[3]]
  OBVIOUS
<1>6. inst = InstAt(fs, place)
  BY <1>1, <1>5 DEF Code, InstAt
<1>7. PICK size \in Nat : size = LengthOf(inst)
  <2>1. Code(place)[place[3]].kind # "Unencodable"
    BY DEF EmitInst
  <2> QED
    BY <1>3, <1>5, <2>1, InstShape DEF Inv
<1>8. place \in Nat \X Nat \X Nat
  BY DEF Inv, PlaceInv
<1>9. PICK n \in AllNodes : n = Data(size, place)
  BY <1>8, NodesAre
<1>10. n.kind = "Align" => n.size # 0
  BY <1>9 DEF Data
<1>11. /\ stream' = [stream EXCEPT !["Text"] = Append(@, n)]
       /\ cursorOffset' = [cursorOffset EXCEPT !["Text"] = After(@, n)]
  <2>1. After(cursorOffset["Text"], n) = cursorOffset["Text"] + size
    BY <1>9, AfterIs
  <2>2. cursorOffset' = [cursorOffset EXCEPT !["Text"] = cursorOffset["Text"] + size]
    BY <1>5, <1>7 DEF EmitInst
  <2>3. stream' = [stream EXCEPT !["Text"] = Append(@, n)]
    BY <1>5, <1>7, <1>9 DEF EmitInst
  <2> QED
    BY <2>1, <2>2, <2>3
<1>12. StreamInv' /\ OneMore(Text, At, EndOfText, n, Text', At')
  BY <1>10, <1>11, TextGrows DEF TextInv, Inv
<1>13. PICK reloc : reloc = RelocOf(inst, cursorOffset["Text"])
  OBVIOUS
<1>14. /\ reloc.of = place /\ reloc.ref = inst.ref
       /\ reloc.ref.to = "Block" => reloc.address = EndOfText
  <2>1. reloc.of = place /\ reloc.ref = inst.ref
    BY <1>13 DEF RelocOf
  <2>2. inst.kind # "Access" => reloc.address = EndOfText
    BY <1>13 DEF RelocOf, EndOfText
  <2>3. inst.ref.to = "Block" => inst.kind \in {"Jump", "Jcc"}
    BY <1>2, <1>4, <1>6 DEF WellFormed
  <2> QED
    BY <2>1, <2>2, <2>3
<1>15. /\ inst.ref.to = "None" => funcRelocs' = funcRelocs
       /\ inst.ref.to # "None" => funcRelocs' = Append(funcRelocs, reloc)
  BY <1>5, <1>13 DEF EmitInst
<1>16. /\ inst.ref.to = "None" => Recorded' = Recorded
       /\ inst.ref.to # "None" => Recorded' = Recorded \cup {reloc}
  <2>1. CASE inst.ref.to = "None"
    BY <1>3, <1>15, <2>1 DEF Recorded
  <2>2. CASE inst.ref.to # "None"
    <3>1. PICK R : funcRelocs \in Seq(R)
      BY DEF Inv, RelocInv
    <3>2. PICK k \in Nat : k = Len(funcRelocs) /\ DOMAIN funcRelocs = 1 .. k
      BY <3>1
    <3>3. PICK r : r = funcRelocs'
      OBVIOUS
    <3>4. DOMAIN r = 1 .. k + 1 /\ r[k + 1] = reloc /\ \A j \in 1 .. k : r[j] = funcRelocs[j]
      BY <1>15, <2>2, <3>1, <3>2, <3>3
    <3>5. {r[j] : j \in 1 .. k + 1} = {funcRelocs[j] : j \in 1 .. k} \cup {reloc}
      <4>1. \A j \in 1 .. k + 1 : j \in 1 .. k \/ j = k + 1
        OBVIOUS
      <4>2. \A j \in 1 .. k + 1 : r[j] \in {funcRelocs[i] : i \in 1 .. k} \cup {reloc}
        BY <3>4, <4>1
      <4>3. \A j \in 1 .. k : j \in 1 .. k + 1
        OBVIOUS
      <4>4. \A j \in 1 .. k : funcRelocs[j] \in {r[i] : i \in 1 .. k + 1}
        BY <3>4, <4>3
      <4>5. k + 1 \in 1 .. k + 1
        OBVIOUS
      <4>6. reloc \in {r[i] : i \in 1 .. k + 1}
        BY <3>4, <4>5
      <4> QED
        BY <4>2, <4>4, <4>6
    <3>6. {funcRelocs'[j] : j \in DOMAIN funcRelocs'} = {funcRelocs[j] : j \in DOMAIN funcRelocs} \cup {reloc}
      BY <3>2, <3>3, <3>4, <3>5
    <3>7. Recorded' = Recorded \cup {reloc}
      BY <1>3, <3>6 DEF Recorded
    <3> QED
      BY <2>2, <3>7
  <2> QED
    BY <2>1, <2>2
<1>17. /\ Recorded \subseteq Recorded'
       /\ \A r \in Recorded' \ Recorded : r.of = place /\ r.ref = InstAt(fs, place).ref
                                          /\ (r.ref.to = "Block" => r.address = EndOfText)
       /\ InstAt(fs, place).ref.to = "Block" => \E r \in Recorded' : r.of = place /\ r.ref.to = "Block"
  <2>1. CASE inst.ref.to = "None"
    BY <1>6, <1>16, <2>1
  <2>2. CASE inst.ref.to # "None"
    BY <1>6, <1>14, <1>16, <2>2
  <2> QED
    BY <2>1, <2>2
<1>18. SameBlocks(fs, place, place')
  BY <1>3, <1>4, <1>8 DEF SameBlocks
<1>19. TextIn(fs, Text, At, EndOfText, Recorded, allLabels, place)
  BY <1>1 DEF TextInv
<1>20. TextIn(fs, Text', At', EndOfText', Recorded', allLabels, place')
  <2>1. OneMore(Text, At, EndOfText, Data(size, place), Text', At')
    BY <1>9, <1>12
  <2> QED
    BY <1>2, <1>4, <1>17, <1>18, <1>19, <2>1, EmitKeepsText
<1>21. Functions' = fs
  BY <1>1, <1>3 DEF Functions
<1>22. FlushInv'
  <2>1. place'[1] \in DOMAIN Functions'
    BY <1>4, <1>21 DEF IsBlock
  <2>2. place'[2] # 0
    <3>1. PICK f, b, i \in Nat : place = <<f, b, i>> /\ b # 0
      BY <1>4, <1>8
    <3>2. place' = <<f, b, i + 1>> \/ place' = <<f, b + 1, 0>>
      BY <1>3, <3>1 DEF NextPlace
    <3> QED
      BY <3>1, <3>2
  <2> QED
    BY <2>1, <2>2 DEF FlushInv
<1> QED
  BY <1>3, <1>12, <1>20, <1>21, <1>22 DEF TextInv

\* Every step keeps the text what it is.
LEMMA StepKeepsText == Inv /\ TextInv /\ [Next]_vars => TextInv'
<1> SUFFICES ASSUME Inv, TextInv, [Next]_vars PROVE TextInv'
  OBVIOUS
<1>1. CASE EmitGlobal
  <2>1. UNCHANGED <<module, place, labelling>>
    BY <1>1 DEF EmitGlobal
  <2>2. StreamInv' /\ UNCHANGED <<Text, EndOfText>>
    BY <1>1, GlobalKeepsStream DEF TextInv
  <2> QED
    BY <2>1, <2>2, TextKept
<1>2. CASE RejectInst \/ Finalize \/ PatchBranch \/ ReferToFunction \/ ReferToGlobal \/ Write
           \/ UNCHANGED vars
  <2>1. UNCHANGED <<module, place, stream, cursorOffset, labelling>>
    BY <1>2 DEF RejectInst, Finalize, PatchBranch, ReferToFunction, ReferToGlobal, Write, emission, vars
  <2>2. StreamInv' /\ UNCHANGED <<Text, EndOfText>>
    BY <2>1 DEF TextInv, StreamInv, Text, EndOfText
  <2> QED
    BY <2>1, <2>2, TextKept
<1> QED
  BY <1>1, <1>2, SkipKeepsText, BeginKeepsText, BindKeeps, EmitKeeps, EndKeepsText DEF Next

-----------------------------------------------------------------------------
(* Resolution, and where the branches lead.                                *)

\* What a relocation of a branch puts into the text.
Patch(r) == [of |-> r.of, value |-> Displacement(r, address[r.ref.id])]
Patches == {Patch(relocations[j]) : j \in {i \in 1 .. resolved : relocations[i].ref.to = "Block"}}

\* Once the text is complete the labels have their addresses, and the branches
\* among the relocations that are resolved have been patched.
ResolveInv ==
    /\ status \in {"Emitting", "Failed", "Resolving", "Written"}
    /\ status \in {"Emitting", "Failed"} => resolved = 0 /\ displacement = <<>>
    /\ status \in {"Resolving", "Written"} =>
           place[1] > Len(Functions) /\ address = [id \in allLabels |-> AddressOf(id)]
    /\ resolved \in 0 .. Len(relocations)
    /\ displacement \in Seq(Patches)
    /\ \A j \in 1 .. resolved : relocations[j].ref.to = "Block" =>
           \E k \in DOMAIN displacement : displacement[k].of = relocations[j].of
    /\ status = "Written" => resolved = Len(relocations)

\* Nothing is resolved at first.
LEMMA InitResolve == Init => ResolveInv
<1> SUFFICES ASSUME Init PROVE ResolveInv
  OBVIOUS
<1>1. status = "Emitting" /\ resolved = 0 /\ displacement = <<>> /\ relocations = <<>>
  BY DEF Init
<1>2. \A j \in 1 .. resolved : FALSE
  BY <1>1
<1>3. resolved \in 0 .. Len(relocations) /\ displacement \in Seq(Patches)
  BY <1>1
<1> QED
  BY <1>1, <1>2, <1>3 DEF ResolveInv

\* While the text is emitted nothing is resolved.
LEMMA EmissionKeepsResolve ==
    ASSUME Inv', status' \in {"Emitting", "Failed"}, resolved' = 0, displacement' = <<>>
    PROVE  ResolveInv'
<1>1. \A j \in 1 .. resolved' : FALSE
  OBVIOUS
<1>2. resolved' \in 0 .. Len(relocations')
  BY DEF Inv, RelocInv
<1>3. displacement' \in Seq(Patches')
  OBVIOUS
<1> QED
  BY <1>1, <1>2, <1>3 DEF ResolveInv

\* A relocation is resolved: a branch has its patch now.
LEMMA ResolutionKeeps ==
    ASSUME Inv, ResolveInv, PatchBranch \/ ReferToFunction \/ ReferToGlobal
    PROVE  ResolveInv'
<1>1. /\ UNCHANGED <<module, target, status, place, stream, allLabels, relocations, address>>
      /\ resolved' = resolved + 1 /\ status = "Resolving" /\ resolved < Len(relocations)
  BY DEF PatchBranch, ReferToFunction, ReferToGlobal, Resolving, emission, labelling
<1>2. PICK size \in Nat : size = Len(relocations)
  BY DEF Inv, RelocInv
<1>3. PICK m \in Nat : m = resolved /\ m < size
  BY <1>1, <1>2 DEF Inv, RelocInv
<1>4. ASSUME NEW r PROVE Patch(r)' = Patch(r)
  BY <1>1 DEF Patch, Displacement, InstOf, Code, Functions, LengthOf
<1>5. PICK relocs : relocs = relocations
  OBVIOUS
<1>6. PICK P : P = Patches
  OBVIOUS
<1>7. PICK Q : Q = Patches'
  OBVIOUS
<1>8. P = {Patch(relocs[j]) : j \in {i \in 1 .. m : relocs[i].ref.to = "Block"}}
  BY <1>3, <1>5, <1>6 DEF Patches
<1>9. Q = {Patch(relocs[j]) : j \in {i \in 1 .. m + 1 : relocs[i].ref.to = "Block"}}
  BY <1>1, <1>3, <1>4, <1>5, <1>7 DEF Patches
<1>10. P \subseteq Q
  <2>1. 1 .. m \subseteq 1 .. m + 1
    OBVIOUS
  <2> QED
    BY <1>8, <1>9, <2>1
<1>11. displacement \in Seq(P)
  BY <1>6 DEF ResolveInv
<1>12. displacement \in Seq(Q)
  BY <1>10, <1>11
<1>13. \A j \in 1 .. m : relocs[j].ref.to = "Block" =>
           \E k \in DOMAIN displacement : displacement[k].of = relocs[j].of
  BY <1>3, <1>5 DEF ResolveInv
<1>14. /\ displacement' \in Seq(Q)
       /\ \A j \in 1 .. m + 1 : relocs[j].ref.to = "Block" =>
              \E k \in DOMAIN displacement' : displacement'[k].of = relocs[j].of
  <2>0. \A j \in 1 .. m + 1 : j \in 1 .. m \/ j = m + 1
    OBVIOUS
  <2>1. CASE PatchBranch
    <3>1. relocs[m + 1].ref.to = "Block" /\ m + 1 \in 1 .. m + 1
      BY <1>3, <1>5, <2>1 DEF PatchBranch, Resolving, NextReloc
    <3>2. PICK patch : patch = Patch(relocs[m + 1])
      OBVIOUS
    <3>3. patch \in Q /\ patch.of = relocs[m + 1].of
      BY <1>9, <3>1, <3>2 DEF Patch
    <3>4. displacement' = Append(displacement, patch)
      BY <1>3, <1>5, <2>1, <3>2 DEF PatchBranch, NextReloc, Patch
    <3>5. PICK len \in Nat : len = Len(displacement) /\ DOMAIN displacement = 1 .. len
      BY <1>12
    <3>6. PICK more : more = displacement'
      OBVIOUS
    <3>7. /\ more \in Seq(Q) /\ DOMAIN more = 1 .. len + 1 /\ more[len + 1] = patch
          /\ \A k \in 1 .. len : more[k] = displacement[k]
      BY <1>12, <3>3, <3>4, <3>5, <3>6
    <3>8. ASSUME NEW j \in 1 .. m + 1, relocs[j].ref.to = "Block"
          PROVE  \E k \in DOMAIN more : more[k].of = relocs[j].of
      <4>1. CASE j \in 1 .. m
        <5>1. PICK k \in 1 .. len : displacement[k].of = relocs[j].of
          BY <1>13, <3>5, <3>8, <4>1
        <5>2. k \in 1 .. len + 1 /\ more[k] = displacement[k]
          BY <3>7
        <5> QED
          BY <3>7, <5>1, <5>2
      <4>2. CASE j = m + 1
        <5>1. len + 1 \in 1 .. len + 1
          OBVIOUS
        <5> QED
          BY <3>3, <3>7, <4>2, <5>1
      <4> QED
        BY <2>0, <4>1, <4>2
    <3> QED
      BY <3>6, <3>7, <3>8
  <2>2. CASE ReferToFunction \/ ReferToGlobal
    <3>1. displacement' = displacement /\ relocs[m + 1].ref.to # "Block"
      BY <1>3, <1>5, <2>2 DEF ReferToFunction, ReferToGlobal, Resolving, NextReloc
    <3> QED
      BY <1>12, <1>13, <2>0, <3>1
  <2> QED
    BY <2>1, <2>2
<1>15. /\ status' \in {"Emitting", "Failed", "Resolving", "Written"}
       /\ status' \notin {"Emitting", "Failed", "Written"}
  BY <1>1
<1>16. (status \in {"Resolving", "Written"} =>
           place[1] > Len(Functions) /\ address = [id \in allLabels |-> AddressOf(id)])'
  <2>1. place[1] > Len(Functions) /\ address = [id \in allLabels |-> AddressOf(id)]
    BY <1>1 DEF ResolveInv
  <2>2. (place[1] > Len(Functions) /\ address = [id \in allLabels |-> AddressOf(id)])'
    BY <1>1, <2>1 DEF AddressOf, Functions
  <2> QED
    BY <2>2
<1>17. resolved' \in 0 .. Len(relocations')
  BY <1>1, <1>2, <1>3
<1>18. displacement' \in Seq(Patches')
  BY <1>7, <1>14
<1>19. \A j \in 1 .. resolved' : relocations'[j].ref.to = "Block" =>
           \E k \in DOMAIN displacement' : displacement'[k].of = relocations'[j].of
  BY <1>1, <1>3, <1>5, <1>14
<1> QED
  BY <1>15, <1>16, <1>17, <1>18, <1>19 DEF ResolveInv

\* Every step keeps the resolution what it is.
LEMMA StepKeepsResolve == Inv /\ ResolveInv /\ [Next]_vars => ResolveInv'
<1> SUFFICES ASSUME Inv, ResolveInv, [Next]_vars PROVE ResolveInv'
  OBVIOUS
<1>0. Inv'
  BY StepKeepsInv
<1>1. CASE EmitGlobal \/ SkipDeclaration \/ BeginFunction \/ BindBlock \/ EmitInst \/ RejectInst
           \/ EndFunction
  <2>1. status = "Emitting" /\ status' \in {"Emitting", "Failed"} /\ UNCHANGED <<resolved, displacement>>
    BY <1>1 DEF EmitGlobal, SkipDeclaration, BeginFunction, BindBlock, EmitInst, RejectInst,
                EndFunction, InFunction, ReadyFor, resolution
  <2>2. resolved' = 0 /\ displacement' = <<>>
    BY <2>1 DEF ResolveInv
  <2> QED
    BY <1>0, <2>1, <2>2, EmissionKeepsResolve
<1>2. CASE Finalize
  <2>1. /\ status = "Emitting" /\ status' = "Resolving" /\ place[1] > Len(Functions)
        /\ address' = [id \in allLabels |-> AddressOf(id)]
        /\ UNCHANGED <<module, place, stream, allLabels, relocations, resolved, displacement>>
    BY <1>2 DEF Finalize, emission, labelling
  <2>2. resolved = 0 /\ displacement = <<>>
    BY <2>1 DEF ResolveInv
  <2>3. \A j \in 1 .. resolved' : FALSE
    BY <2>1, <2>2
  <2>4. resolved' \in 0 .. Len(relocations')
    BY <2>1 DEF ResolveInv
  <2>5. displacement' \in Seq(Patches')
    BY <2>1, <2>2
  <2>6. (place[1] > Len(Functions) /\ address = [id \in allLabels |-> AddressOf(id)])'
    BY <2>1 DEF Functions, AddressOf
  <2> QED
    BY <2>1, <2>3, <2>4, <2>5, <2>6 DEF ResolveInv
<1>3. CASE Write \/ UNCHANGED vars
  <2>1. /\ UNCHANGED <<module, target, place, stream, allLabels, relocations, address, resolved, displacement>>
        /\ status' = status \/ (status = "Resolving" /\ status' = "Written" /\ resolved = Len(relocations))
    BY <1>3 DEF Write, vars, emission, labelling, resolution
  <2>2. \A r : Patch(r)' = Patch(r)
    BY <2>1 DEF Patch, Displacement, InstOf, Code, Functions, LengthOf
  <2>3. Patches' = Patches
    BY <2>1, <2>2 DEF Patches
  <2>4. (place[1] > Len(Functions) /\ address = [id \in allLabels |-> AddressOf(id)])'
            <=> place[1] > Len(Functions) /\ address = [id \in allLabels |-> AddressOf(id)]
    BY <2>1 DEF Functions, AddressOf
  <2> QED
    BY <2>1, <2>3, <2>4 DEF ResolveInv
<1> QED
  BY <1>1, <1>2, <1>3, ResolutionKeeps DEF Next

\* The instructions of the model are those of the functions.
LEMMA InstructionsAre ==
    ASSUME Inv
    PROVE  \A p : p \in Instructions <=> IsInst(Functions, p)
<1>1. PICK fs \in Seq(MirFunctions) : fs = Functions
  BY FunctionsWellFormed DEF WellFormed
<1>2. ASSUME NEW f \in DOMAIN fs, NEW b \in DOMAIN fs[f].blocks, NEW i \in DOMAIN fs[f].blocks[b].code
      PROVE  f \in Nat /\ b \in Nat /\ i \in Nat
  <2>1. fs[f] \in MirFunctions
    OBVIOUS
  <2>2. fs[f].blocks[b] \in Blocks
    BY <2>1 DEF MirFunctions
  <2>3. fs[f].blocks[b].code \in Seq(Insts)
    BY <2>2 DEF Blocks
  <2>4. f \in Nat /\ b \in Nat
    BY DomainsAre
  <2> QED
    BY <2>3, <2>4
<1>3. ASSUME NEW p, p \in Instructions PROVE IsInst(fs, p)
  <2>1. PICK f \in DOMAIN fs : \E b \in DOMAIN fs[f].blocks :
            \E i \in DOMAIN fs[f].blocks[b].code : p = <<f, b, i>>
    BY <1>1, <1>3 DEF Instructions
  <2>2. PICK b \in DOMAIN fs[f].blocks : \E i \in DOMAIN fs[f].blocks[b].code : p = <<f, b, i>>
    BY <2>1
  <2>3. PICK i \in DOMAIN fs[f].blocks[b].code : p = <<f, b, i>>
    BY <2>2
  <2>4. f \in Nat /\ b \in Nat /\ i \in Nat
    BY <1>2
  <2>5. p \in Nat \X Nat \X Nat /\ p[1] = f /\ p[2] = b /\ p[3] = i
    BY <2>3, <2>4
  <2> QED
    BY <2>5 DEF IsInst, IsBlock
<1>4. ASSUME NEW p, IsInst(fs, p) PROVE p \in Instructions
  <2>1. PICK f, b, i \in Nat : p = <<f, b, i>> /\ p[1] = f /\ p[2] = b /\ p[3] = i
    BY <1>4 DEF IsInst
  <2>2. f \in DOMAIN fs /\ b \in DOMAIN fs[f].blocks /\ i \in DOMAIN fs[f].blocks[b].code
    BY <1>4, <2>1 DEF IsInst, IsBlock
  <2>3. p \in {<<f, b, j>> : j \in DOMAIN fs[f].blocks[b].code}
    BY <2>1, <2>2
  <2>4. p \in UNION {{<<f, c, j>> : j \in DOMAIN fs[f].blocks[c].code} : c \in DOMAIN fs[f].blocks}
    BY <2>2, <2>3
  <2> QED
    BY <1>1, <2>2, <2>4 DEF Instructions
<1> QED
  BY <1>1, <1>3, <1>4

\* An instruction is where its node is: nothing else was emitted for it.
LEMMA StartOfIs ==
    ASSUME NEW p, NEW n \in 1 .. Len(Text), Len(Text) \in Nat,
           Text[n].kind = "Data", Text[n].of = p,
           \A j \in 1 .. Len(Text) : Text[j].kind = "Data" /\ Text[j].of = p => j = n
    PROVE  StartOf(p) = At[n]
<1> DEFINE I == {i \in 1 .. Len(Text) : Text[i].kind = "Data" /\ Text[i].of = p}
<1>1. StartOf(p) = At[IF I # {} THEN CHOOSE x \in I : \A y \in I : x =< y ELSE 0]
  BY DEF StartOf, StartIn, SelectInSeq, Min, Text, At
<1>2. I = {n}
  OBVIOUS
<1> HIDE DEF I
<1>3. (CHOOSE x \in I : \A y \in I : x =< y) = n
  BY <1>2
<1> QED
  BY <1>1, <1>2, <1>3

\* The code from a block on starts at the first node of it.
LEMMA CodeStartIs ==
    ASSUME NEW f, NEW b, NEW n \in 1 .. Len(Text), Len(Text) \in Nat,
           Text[n].kind = "Data", Text[n].of[1] = f, Text[n].of[2] >= b,
           NothingFrom(Text, f, b, n - 1)
    PROVE  CodeStart(f, b) = At[n]
<1> DEFINE I == {i \in 1 .. Len(Text) : Text[i].kind = "Data" /\ Text[i].of[1] = f /\ Text[i].of[2] >= b}
<1>1. CodeStart(f, b) = At[IF I # {} THEN CHOOSE x \in I : \A y \in I : x =< y ELSE 0]
  BY DEF CodeStart, StartIn, SelectInSeq, Min, Text, At
<1>2. n \in I /\ \A y \in I : n <= y
  BY DEF NothingFrom
<1>3. \A x \in I : (\A y \in I : x =< y) => x = n
  BY <1>2
<1> HIDE DEF I
<1>4. (CHOOSE x \in I : \A y \in I : x =< y) = n
  BY <1>2, <1>3
<1> QED
  BY <1>1, <1>2, <1>4

\* What has been emitted of an instruction is there once.
LEMMA EmittedOnce ==
    ASSUME NEW fs, NEW text, Len(text) \in Nat, NEW pl, DataIn(fs, text, pl),
           NEW j \in 1 .. Len(text), NEW k \in 1 .. Len(text),
           text[j].kind = "Data", text[k].kind = "Data", text[j].of = text[k].of
    PROVE  j = k
<1>1. \A p : IsInst(fs, p) => ~Before(p, p)
  BY DEF IsInst, Before
<1>2. IsInst(fs, text[j].of)
  BY DEF DataIn
<1>3. ~(j < k) /\ ~(k < j)
  BY <1>1, <1>2 DEF DataIn
<1> QED
  BY <1>3

\* The label of a block is where the code from the block on starts.
LEMMA LabelsLead ==
    ASSUME Inv, TextInv, place[1] > Len(Functions), NEW f \in Nat, NEW b \in Nat,
           IsBlock(Functions, f, b), NEW id, id = IdOf(Functions, f, b)
    PROVE  id \in allLabels /\ AddressOf(id) = BlockStart(f, id) /\ AddressOf(id) \in Nat
<1>1. PICK fs : fs = Functions
  OBVIOUS
<1>2. WellFormed(fs) /\ fs \in Seq(MirFunctions) /\ place \in Nat \X Nat \X Nat
  BY <1>1, FunctionsWellFormed DEF WellFormed, Inv, PlaceInv
<1>3. f \in 1 .. Len(fs) /\ place[1] \in Nat /\ Len(fs) \in Nat /\ place[1] > Len(fs)
  BY <1>1, <1>2 DEF IsBlock
<1>4. Bound(fs, place, f, b)
  <2>1. f < place[1]
    BY <1>3
  <2> QED
    BY <1>1, <2>1 DEF Bound, Before
<1>5. TextIn(fs, Text, At, EndOfText, Recorded, allLabels, place)
  BY <1>1 DEF TextInv
<1>6. id \in allLabels /\ \E k \in 1 .. Len(Text) : Text[k].kind = "Label" /\ Text[k].of = id
  BY <1>1, <1>4, <1>5 DEF TextIn, BoundIn
<1>7. PICK k \in 1 .. Len(Text) : Text[k].kind = "Label" /\ Text[k].of = id
  BY <1>6
<1>8. id # 0
  BY <1>1, <1>2 DEF WellFormed
<1>9. Text \in Seq(AllNodes) /\ SizesSet(Text)
  BY TextSection, SectionIs DEF TextInv, Text
<1>10. PICK len \in Nat : len = Len(Text) /\ DOMAIN Text = 1 .. len
  BY <1>9
<1>11. \A j \in 1 .. Len(Text) : Text[j].kind = "Label" /\ Text[j].of = id => j = k
  BY <1>5, <1>7, <1>8 DEF TextIn, LabelsIn
<1>12. AddressOf(id) = At[k]
  <2>1. AddressOf(id) = At[CHOOSE j \in DOMAIN Text : Text[j].kind = "Label" /\ Text[j].of = id]
    BY DEF AddressOf, At, Text
  <2>2. (CHOOSE j \in DOMAIN Text : Text[j].kind = "Label" /\ Text[j].of = id) = k
    BY <1>7, <1>10, <1>11
  <2> QED
    BY <2>1, <2>2
<1>13. At \in [1 .. Len(Text) + 1 -> Nat]
  BY <1>9, StartsAreNat DEF SizesSet, At
<1>14. At[k] \in Nat
  BY <1>10, <1>13
<1>15. PICK g, c \in Nat :
         /\ Bound(fs, place, g, c) /\ IdOf(fs, g, c) = id
         /\ Landed(Text, At, k, g, c) \/ Pending(Text, At, EndOfText, place, k, g, c)
  BY <1>5, <1>7, <1>8 DEF TextIn, LabelsIn
<1>16. g = f /\ c = b
  BY <1>1, <1>2, <1>15 DEF WellFormed, Bound
<1>17. ~Pending(Text, At, EndOfText, place, k, f, b)
  BY <1>3 DEF Pending
<1>18. PICK n \in 1 .. Len(Text) :
         /\ Text[n].kind = "Data" /\ Text[n].of[1] = f /\ Text[n].of[2] >= b /\ At[n] = At[k]
         /\ NothingFrom(Text, f, b, n - 1)
  BY <1>15, <1>16, <1>17 DEF Landed
<1>19. CodeStart(f, b) = At[n]
  BY <1>10, <1>18, CodeStartIs
<1>20. BlockStart(f, id) = CodeStart(f, b)
  <2>1. b \in DOMAIN fs[f].blocks /\ fs[f].blocks[b].id = id
    BY <1>1 DEF IsBlock, IdOf
  <2>2. ASSUME NEW t \in DOMAIN fs[f].blocks, fs[f].blocks[t].id = id PROVE t = b
    <3>1. t \in Nat /\ IsBlock(fs, f, t) /\ IdOf(fs, f, t) = id
      BY <1>1, <1>2, <2>2, DomainsAre DEF IsBlock, IdOf
    <3> QED
      BY <1>1, <1>2, <3>1 DEF WellFormed
  <2>3. (CHOOSE t \in DOMAIN fs[f].blocks : fs[f].blocks[t].id = id) = b
    BY <2>1, <2>2
  <2> QED
    BY <1>1, <2>3 DEF BlockStart
<1> QED
  BY <1>6, <1>12, <1>14, <1>18, <1>19, <1>20

\* The field of a branch holds the distance to where the branch leads.  On
\* RISC-V it has 13 bits, or 21 for a jump; the 32 of x86-64 hold them all.
Bits(p) == IF InstOf(p).kind = "Jcc" THEN 13 ELSE 21
Distance(p) == BlockStart(p[1], InstOf(p).ref.id) - StartOf(p)
DistancesFit ==
    target.riscv => \A p \in Referring("Block") :
                        /\ -(2 ^ (Bits(p) - 1)) <= Distance(p)
                        /\ Distance(p) < 2 ^ (Bits(p) - 1)

\* A small number is its own remainder.
LEMMA RemainderOfSmall == ASSUME NEW m \in Nat \ {0}, NEW x \in 0 .. m - 1 PROVE x % m = x
OBVIOUS

\* The fields of RISC-V branches, and half of what they hold.
LEMMA FieldSizes == 2 ^ 12 \in Nat /\ 2 ^ 20 \in Nat /\ 2 ^ 13 = 2 * 2 ^ 12 /\ 2 ^ 21 = 2 * 2 ^ 20
<1>1. 2 ^ 12 \in Nat
  BY SMT
<1>2. 2 ^ 20 \in Nat
  BY SMT
<1>3. 2 ^ 13 = 2 * 2 ^ 12
  BY SMT
<1>4. 2 ^ 21 = 2 * 2 ^ 20
  BY SMT
<1> QED
  BY <1>1, <1>2, <1>3, <1>4, Zenon

\* Truncation keeps what the field holds.
LEMMA TruncatedFits ==
    ASSUME NEW d \in Int, NEW bits \in {13, 21}, -(2 ^ (bits - 1)) <= d, d < 2 ^ (bits - 1)
    PROVE  Truncated(d, bits) = d
<1>1. PICK half \in Nat : half = 2 ^ (bits - 1) /\ 2 ^ bits = 2 * half
  <2>1. CASE bits = 13
    <3>1. bits - 1 = 12
      BY <2>1
    <3> QED
      BY <2>1, <3>1, FieldSizes, Zenon
  <2>2. CASE bits = 21
    <3>1. bits - 1 = 20
      BY <2>2
    <3> QED
      BY <2>2, <3>1, FieldSizes, Zenon
  <2> QED
    BY <2>1, <2>2, Zenon
<1>2. half > 0 /\ d + half \in 0 .. 2 * half - 1
  <2>1. -half <= d /\ d < half
    BY <1>1, Zenon
  <2> QED
    BY <2>1
<1>3. (d + half) % (2 * half) = d + half
  BY <1>2, RemainderOfSmall
<1>4. Truncated(d, bits) = ((d + half) % (2 * half)) - half
  BY <1>1, Zenon DEF Truncated
<1> QED
  BY <1>3, <1>4

\* The invariants say where the branches of a finished text lead.
LEMMA BranchesLandThen == Inv /\ TextInv /\ ResolveInv => (DistancesFit => BranchesLand)
<1> SUFFICES ASSUME Inv, TextInv, ResolveInv, DistancesFit, status = "Written",
                    NEW p \in Referring("Block")
             PROVE  LET patches == {k \in DOMAIN displacement : displacement[k].of = p}
                        base == IF target.riscv THEN StartOf(p) ELSE StartOf(p) + LengthOf(InstOf(p))
                    IN  /\ patches # {}
                        /\ \A k \in patches : base + displacement[k].value
                                                  = BlockStart(p[1], InstOf(p).ref.id)
  BY DEF BranchesLand
<1>1. PICK fs : fs = Functions
  OBVIOUS
<1>2. WellFormed(fs) /\ fs \in Seq(MirFunctions) /\ place \in Nat \X Nat \X Nat
  BY <1>1, FunctionsWellFormed DEF WellFormed, Inv, PlaceInv
<1>3. IsInst(fs, p) /\ InstAt(fs, p).ref.to = "Block" /\ InstOf(p) = InstAt(fs, p)
  BY <1>1, InstructionsAre DEF Referring, InstOf, InstAt, Code
<1>4. place[1] > Len(fs) /\ resolved = Len(relocations) /\ address = [id \in allLabels |-> AddressOf(id)]
  BY <1>1 DEF ResolveInv
<1>5. Before(p, place)
  <2>1. p[1] \in 1 .. Len(fs) /\ Len(fs) \in Nat /\ place[1] \in Nat
    BY <1>2, <1>3 DEF IsInst, IsBlock
  <2>2. p[1] < place[1]
    BY <1>4, <2>1
  <2> QED
    BY <2>2 DEF Before
<1>6. TextIn(fs, Text, At, EndOfText, Recorded, allLabels, place)
  BY <1>1 DEF TextInv
<1>7. PICK n \in 1 .. Len(Text) : Text[n].kind = "Data" /\ Text[n].of = p
  BY <1>3, <1>5, <1>6 DEF TextIn, EmittedIn
<1>8. Text \in Seq(AllNodes) /\ SizesSet(Text) /\ Len(Text) \in Nat
  BY TextSection, SectionIs DEF TextInv, Text
<1>9. \A j \in 1 .. Len(Text) : Text[j].kind = "Data" /\ Text[j].of = p => j = n
  BY <1>6, <1>7, <1>8, EmittedOnce DEF TextIn
<1>10. StartOf(p) = At[n]
  BY <1>7, <1>8, <1>9, StartOfIs
<1>11. At[n] \in Nat
  <2>1. At \in [1 .. Len(Text) + 1 -> Nat]
    BY <1>8, StartsAreNat DEF SizesSet, At
  <2>2. n \in 1 .. Len(Text) + 1
    BY <1>8
  <2> QED
    BY <2>1, <2>2
<1>12. PICK inst : inst = InstOf(p)
  OBVIOUS
<1>13. inst.kind \in {"Jump", "Jcc"}
  BY <1>2, <1>3, <1>12 DEF WellFormed
<1>14. LengthOf(inst) \in Nat
  <2>1. target.riscv \in BOOLEAN
    BY TargetsAssumption DEF Inv, PlaceInv
  <2> QED
    BY <1>13, <2>1 DEF LengthOf
<1>15. PICK f, t \in Nat : f = p[1] /\ IsBlock(fs, f, t) /\ IdOf(fs, f, t) = inst.ref.id
  <2>1. p[1] \in Nat
    BY <1>3 DEF IsInst
  <2> QED
    BY <1>2, <1>3, <1>12, <2>1 DEF WellFormed
<1>16. PICK id : id = inst.ref.id
  OBVIOUS
<1>17. id \in allLabels /\ AddressOf(id) = BlockStart(f, id) /\ AddressOf(id) \in Nat
  BY <1>1, <1>4, <1>15, <1>16, LabelsLead
<1>18. address[id] = BlockStart(f, id) /\ address[id] \in Nat
  BY <1>4, <1>17
\* The relocation of the branch.
<1>19. PICK m \in Nat : m = Len(relocations) /\ DOMAIN relocations = 1 .. m /\ resolved = m
  BY <1>4 DEF Inv, RelocInv
<1>20. funcRelocs = <<>>
  <2>1. place[1] \notin DOMAIN fs
    BY <1>2, <1>4
  <2> QED
    BY <1>1, <2>1 DEF TextInv, FlushInv
<1>21. Recorded = {relocations[j] : j \in 1 .. m}
  BY <1>19, <1>20 DEF Recorded
<1>22. PICK r \in Recorded : r.of = p /\ r.ref.to = "Block"
  BY <1>3, <1>5, <1>6 DEF TextIn, EmittedIn
<1>23. PICK j \in 1 .. m : r = relocations[j]
  BY <1>21, <1>22
<1>24. \E k \in DOMAIN displacement : displacement[k].of = p
  BY <1>19, <1>22, <1>23 DEF ResolveInv
<1>25. ASSUME NEW k \in DOMAIN displacement, displacement[k].of = p
       PROVE  (IF target.riscv THEN At[n] ELSE At[n] + LengthOf(inst)) + displacement[k].value
                  = BlockStart(f, id)
  <2>1. displacement[k] \in Patches
    BY DEF ResolveInv
  <2>2. PICK i \in 1 .. resolved : relocations[i].ref.to = "Block" /\ displacement[k] = Patch(relocations[i])
    BY <2>1 DEF Patches
  <2>3. PICK s \in Recorded : s = relocations[i]
    BY <1>19, <1>21, <2>2
  <2>4. s.ref.to = "Block" /\ s.of = p
    BY <1>25, <2>2, <2>3 DEF Patch
  <2>5. s.ref = inst.ref /\ \E l \in 1 .. Len(Text) : Text[l].kind = "Data" /\ Text[l].of = p /\ At[l] = s.address
    BY <1>3, <1>6, <1>12, <2>4 DEF TextIn, RecordsIn
  <2>6. s.address = At[n]
    BY <1>9, <2>5
  <2>7. displacement[k].value = Displacement(s, address[s.ref.id])
    BY <2>2, <2>3 DEF Patch
  <2>8. PICK a \in Nat : a = At[n]
    BY <1>11
  <2>9. PICK size \in Nat : size = LengthOf(inst)
    BY <1>14
  <2>10. PICK to \in Nat : to = address[id]
    BY <1>18
  <2>11. InstOf(s.of) = inst /\ s.ref.id = id /\ s.address = a
    BY <1>12, <1>16, <2>4, <2>5, <2>6, <2>8
  <2>12. CASE ~target.riscv
    <3>1. displacement[k].value = to - (a + size)
      BY <2>7, <2>9, <2>10, <2>11, <2>12 DEF Displacement
    <3>2. a + size + (to - (a + size)) = to
      OBVIOUS
    <3> QED
      BY <1>18, <2>8, <2>9, <2>10, <2>12, <3>1, <3>2
  <2>13. CASE target.riscv
    <3>1. PICK bits \in {13, 21} : bits = Bits(p)
      BY DEF Bits
    <3>2. displacement[k].value = Truncated(to - a, bits)
      BY <1>12, <2>7, <2>10, <2>11, <2>13, <3>1, Zenon DEF Displacement, Bits
    <3>3. Distance(p) = to - a
      BY <1>10, <1>12, <1>15, <1>16, <1>18, <2>8, <2>10, Zenon DEF Distance
    <3>4. PICK d \in Int : d = to - a
      OBVIOUS
    <3>5. -(2 ^ (bits - 1)) <= d /\ d < 2 ^ (bits - 1)
      BY <2>13, <3>1, <3>3, <3>4, Zenon DEF DistancesFit
    <3>6. Truncated(d, bits) = d
      BY <3>5, TruncatedFits, Zenon
    <3>7. displacement[k].value = to - a
      BY <3>2, <3>4, <3>6, Zenon
    <3>8. a + (to - a) = to
      OBVIOUS
    <3> QED
      BY <1>18, <2>8, <2>10, <2>13, <3>7, <3>8, Zenon
  <2> QED
    BY <2>12, <2>13
<1> QED
  BY <1>10, <1>12, <1>15, <1>16, <1>24, <1>25

\* patch, the labels and the relocations of branches: whatever a module holds,
\* once the object file is written every branch to a block has been patched,
\* and leads to where the code from that block on starts, as long as the field
\* of the branch holds the distance.
THEOREM BranchesAlwaysLand == Spec => [](DistancesFit => BranchesLand)
<1>1. Init => Inv /\ TextInv /\ ResolveInv
  BY InitEstablishesInv, InitText, InitResolve
<1>2. Inv /\ TextInv /\ ResolveInv /\ [Next]_vars => Inv' /\ TextInv' /\ ResolveInv'
  BY StepKeepsInv, StepKeepsText, StepKeepsResolve
<1> QED
  BY <1>1, <1>2, BranchesLandThen, PTL DEF Spec

-----------------------------------------------------------------------------
(* The file: the order of the symbols, and the layout of the parts.        *)

\* f is what a recursion over the first n numbers yields.
Recursion(f, n, base, step) ==
    f = [k \in 0 .. n |-> IF k = 0 THEN base ELSE step[k][f[k - 1]]]

\* Every such recursion yields something, of the type that its steps keep.
LEMMA RecursionExists ==
    ASSUME NEW V, NEW base \in V, NEW n \in Nat, NEW step \in [1 .. n -> [V -> V]]
    PROVE  \E f \in [0 .. n -> V] : Recursion(f, n, base, step)
<1> DEFINE T == {m \in Nat : m <= n => \E f \in [0 .. m -> V] : Recursion(f, m, base, step)}
<1>1. 0 \in T
  <2> DEFINE f == [k \in 0 .. 0 |-> base]
  <2>1. f \in [0 .. 0 -> V] /\ Recursion(f, 0, base, step)
    BY DEF Recursion
  <2> QED BY <2>1
<1>2. ASSUME NEW m \in Nat, m \in T PROVE m + 1 \in T
  <2> SUFFICES ASSUME m + 1 <= n PROVE \E f \in [0 .. m + 1 -> V] : Recursion(f, m + 1, base, step)
    OBVIOUS
  <2>1. PICK f \in [0 .. m -> V] : Recursion(f, m, base, step)
    BY <1>2
  <2>2. m + 1 \in 1 .. n /\ m \in 0 .. m /\ f[m] \in V
    BY <2>1
  <2>3. PICK new \in V : new = step[m + 1][f[m]]
    BY <2>2
  <2>4. f = [k \in 0 .. m |-> IF k = 0 THEN base ELSE step[k][f[k - 1]]]
    BY <2>1 DEF Recursion
  <2> DEFINE g == [k \in 0 .. m + 1 |-> IF k <= m THEN f[k] ELSE new]
  <2>5. g \in [0 .. m + 1 -> V]
    BY <2>1, <2>3
  <2>6. ASSUME NEW k \in 0 .. m + 1
        PROVE  g[k] = IF k = 0 THEN base ELSE step[k][g[k - 1]]
    <3>1. CASE k <= m
      <4>1. k \in 0 .. m /\ g[k] = f[k] /\ (k # 0 => g[k - 1] = f[k - 1])
        BY <3>1
      <4>2. f[k] = IF k = 0 THEN base ELSE step[k][f[k - 1]]
        BY <2>4, <4>1
      <4> QED BY <4>1, <4>2
    <3>2. CASE k = m + 1
      <4>1. g[k] = new /\ g[k - 1] = f[m] /\ k # 0
        BY <3>2
      <4> QED BY <2>3, <3>2, <4>1
    <3> QED BY <3>1, <3>2
  <2> HIDE DEF g
  <2>7. g = [k \in 0 .. m + 1 |-> IF k = 0 THEN base ELSE step[k][g[k - 1]]]
    <3>1. g = [k \in 0 .. m + 1 |-> g[k]]
      BY <2>5
    <3> QED BY <2>6, <3>1
  <2> QED BY <2>5, <2>7 DEF Recursion
<1> HIDE DEF T
<1>3. n \in T
  BY <1>1, <1>2, Induction
<1> QED BY <1>3 DEF T

\* What the parts of a file are.
PartNames == {"FileHeader", "Relocations", "Symbols", "Names", "SectionNames", "SectionHeaders"}
PartSet == [name : PartNames \cup SectionTypes, size : Nat, align : Nat \ {0}]

\* A part ends where padding and its own size end.
LEMMA EndsAre ==
    ASSUME NEW parts \in Seq(PartSet)
    PROVE  /\ Ends(parts) \in [0 .. Len(parts) -> Nat] /\ Ends(parts)[0] = 0
           /\ \A k \in 1 .. Len(parts) : Ends(parts)[k] = EndAfter(Ends(parts)[k - 1], parts[k])
<1>1. PICK n \in Nat : n = Len(parts)
  OBVIOUS
<1> DEFINE step == [k \in 1 .. n |-> [before \in Nat |-> EndAfter(before, parts[k])]]
           Is(f) == f = [k \in 0 .. n |-> IF k = 0 THEN 0 ELSE EndAfter(f[k - 1], parts[k])]
<1>2. \A k \in 1 .. n, before \in Nat : EndAfter(before, parts[k]) \in Nat
  <2> SUFFICES ASSUME NEW k \in 1 .. n, NEW before \in Nat PROVE EndAfter(before, parts[k]) \in Nat
    OBVIOUS
  <2>1. parts[k] \in PartSet
    BY <1>1
  <2>2. parts[k].align \in Nat \ {0} /\ parts[k].size \in Nat
    BY <2>1 DEF PartSet
  <2>3. AlignUp(before, parts[k].align) \in Nat
    BY <2>2, AlignUpGrows
  <2> QED BY <2>2, <2>3 DEF EndAfter
<1>3. step \in [1 .. n -> [Nat -> Nat]]
  BY <1>2
<1>4. \A k \in 1 .. n, before \in Nat : step[k][before] = EndAfter(before, parts[k])
  OBVIOUS
<1> HIDE DEF step
<1>5. PICK f \in [0 .. n -> Nat] : Recursion(f, n, 0, step)
  BY <1>3, RecursionExists
<1>6. Is(f)
  <2>1. f = [k \in 0 .. n |-> IF k = 0 THEN 0 ELSE step[k][f[k - 1]]]
    BY <1>5 DEF Recursion
  <2>2. \A k \in 0 .. n : k # 0 => k \in 1 .. n /\ k - 1 \in 0 .. n
    OBVIOUS
  <2>3. \A k \in 0 .. n : k # 0 => step[k][f[k - 1]] = EndAfter(f[k - 1], parts[k])
    BY <1>4, <1>5, <2>2
  <2>4. \A k \in 0 .. n : f[k] = IF k = 0 THEN 0 ELSE EndAfter(f[k - 1], parts[k])
    BY <2>1, <2>3
  <2>5. f = [k \in 0 .. n |-> f[k]]
    BY <2>1
  <2> QED BY <2>4, <2>5
<1>7. Ends(parts) = CHOOSE g : Is(g)
  BY <1>1 DEF Ends
<1>8. Is(Ends(parts))
  <2> HIDE DEF Is
  <2> QED BY <1>6, <1>7
<1>9. PICK g : g = Ends(parts)
  OBVIOUS
<1>10. g = [k \in 0 .. n |-> IF k = 0 THEN 0 ELSE EndAfter(g[k - 1], parts[k])]
  BY <1>8, <1>9
<1>11. DOMAIN g = 0 .. n /\ g[0] = 0 /\ \A k \in 1 .. n : g[k] = EndAfter(g[k - 1], parts[k])
  BY <1>10
<1> DEFINE T == {k \in Nat : k <= n => g[k] \in Nat}
<1>12. 0 \in T
  BY <1>11
<1>13. ASSUME NEW k \in Nat, k \in T PROVE k + 1 \in T
  <2> SUFFICES ASSUME k + 1 <= n PROVE g[k + 1] \in Nat
    OBVIOUS
  <2>1. k + 1 \in 1 .. n /\ (k + 1) - 1 = k /\ g[k] \in Nat
    BY <1>13
  <2> QED BY <1>2, <1>11, <2>1
<1> HIDE DEF T
<1>14. Nat \subseteq T
  BY <1>12, <1>13, Induction
<1>15. \A k \in 0 .. n : g[k] \in Nat
  BY <1>14 DEF T
<1>16. g \in [0 .. n -> Nat]
  <2>1. g = [k \in 0 .. n |-> g[k]]
    BY <1>10
  <2> QED BY <1>15, <2>1
<1> QED BY <1>1, <1>9, <1>11, <1>16

\* Parts that are laid out follow one another.
LEMMA LaidInOrder ==
    ASSUME NEW parts \in Seq(PartSet), parts # <<>>
    PROVE  /\ \A j, k \in DOMAIN Laid(parts) :
                  j < k => Laid(parts)[j].at + Laid(parts)[j].size <= Laid(parts)[k].at
           /\ Ends(parts)[Len(parts)] = Last(Laid(parts)).at + Last(Laid(parts)).size
<1>1. PICK n \in Nat \ {0} : n = Len(parts) /\ DOMAIN parts = 1 .. n
  OBVIOUS
<1>2. PICK g : g = Ends(parts)
  OBVIOUS
<1>3. g \in [0 .. n -> Nat] /\ \A k \in 1 .. n : g[k] = EndAfter(g[k - 1], parts[k])
  BY <1>1, <1>2, EndsAre
<1>4. PICK laid : laid = Laid(parts)
  OBVIOUS
<1>5. laid = [k \in 1 .. n |-> [name |-> parts[k].name, at |-> AlignUp(g[k - 1], parts[k].align),
                                size |-> parts[k].size]]
  BY <1>1, <1>2, <1>4 DEF Laid
<1>6. ASSUME NEW k \in 1 .. n
      PROVE  /\ laid[k].at \in Nat /\ laid[k].size \in Nat /\ g[k - 1] \in Nat
             /\ g[k - 1] <= laid[k].at /\ laid[k].at + laid[k].size = g[k]
  <2>1. parts[k] \in PartSet
    BY <1>1
  <2>2. parts[k].align \in Nat \ {0} /\ parts[k].size \in Nat
    BY <2>1 DEF PartSet
  <2>3. k - 1 \in 0 .. n /\ g[k - 1] \in Nat
    BY <1>3
  <2>4. AlignUp(g[k - 1], parts[k].align) \in Nat /\ AlignUp(g[k - 1], parts[k].align) >= g[k - 1]
    BY <2>2, <2>3, AlignUpGrows
  <2>5. laid[k].at = AlignUp(g[k - 1], parts[k].align) /\ laid[k].size = parts[k].size
    BY <1>5
  <2>6. g[k] = AlignUp(g[k - 1], parts[k].align) + parts[k].size
    BY <1>3 DEF EndAfter
  <2> QED BY <2>2, <2>3, <2>4, <2>5, <2>6
<1>7. ASSUME NEW j \in 1 .. n PROVE \A k \in Nat : j + k <= n => g[j] <= g[j + k]
  <2> DEFINE T == {k \in Nat : j + k <= n => g[j] <= g[j + k]}
  <2>0. g[j] \in Nat
    BY <1>3
  <2>1. 0 \in T
    BY <2>0
  <2>2. ASSUME NEW k \in Nat, k \in T PROVE k + 1 \in T
    <3> SUFFICES ASSUME j + (k + 1) <= n PROVE g[j] <= g[j + (k + 1)]
      OBVIOUS
    <3>1. PICK m : m = j + (k + 1)
      OBVIOUS
    <3>2. m \in 1 .. n /\ m - 1 = j + k /\ g[j] <= g[j + k]
      BY <2>2, <3>1
    <3>3. g[m - 1] <= g[m] /\ g[m - 1] \in Nat /\ g[m] \in Nat
      <4>1. g[m - 1] <= laid[m].at /\ laid[m].at + laid[m].size = g[m]
        BY <1>6, <3>2
      <4>2. laid[m].at \in Nat /\ laid[m].size \in Nat /\ g[m - 1] \in Nat /\ g[m] \in Nat
        BY <1>3, <1>6, <3>2
      <4> QED BY <4>1, <4>2
    <3> QED BY <2>0, <3>1, <3>2, <3>3
  <2> HIDE DEF T
  <2>3. Nat \subseteq T
    BY <2>1, <2>2, Induction
  <2> QED BY <2>3 DEF T
<1>8. ASSUME NEW j \in 1 .. n, NEW k \in 1 .. n, j < k PROVE laid[j].at + laid[j].size <= laid[k].at
  <2>1. (k - 1) - j \in Nat /\ j + ((k - 1) - j) = k - 1 /\ k - 1 <= n
    BY <1>8
  <2>2. g[j] <= g[k - 1]
    BY <1>7, <2>1
  <2>3. laid[j].at + laid[j].size = g[j] /\ g[k - 1] <= laid[k].at
    BY <1>6
  <2>4. laid[k].at \in Nat
    BY <1>6
  <2>5. g[j] \in Nat /\ g[k - 1] \in Nat
    <3>1. j \in 0 .. n /\ k - 1 \in 0 .. n
      OBVIOUS
    <3>2. g \in [0 .. n -> Nat]
      BY <1>3
    <3> QED BY <3>1, <3>2
  <2>6. laid[j].at + laid[j].size <= g[k - 1]
    BY <2>2, <2>3
  <2> QED BY <2>3, <2>4, <2>5, <2>6
<1>9. DOMAIN laid = 1 .. n /\ Len(laid) = n
  BY <1>5
<1>10. g[n] = laid[n].at + laid[n].size
  BY <1>6
<1>11. Last(laid) = laid[n]
  BY <1>9 DEF Last
<1> QED BY <1>1, <1>2, <1>4, <1>8, <1>9, <1>10, <1>11

\* The list has what is at those of the first n places that are among places,
\* each once.
Found(list, from, places, n) ==
    \E p \in [1 .. Len(list) -> 1 .. n] :
        /\ \A i \in 1 .. Len(list) : p[i] \in places /\ list[i] = from[p[i]]
        /\ \A i, j \in 1 .. Len(list) : p[i] = p[j] => i = j
        /\ \A c \in 1 .. n : c \in places => \E i \in 1 .. Len(list) : p[i] = c

\* Nothing is at no place.
LEMMA FoundNothing == ASSUME NEW from, NEW places PROVE Found(<<>>, from, places, 0)
<1>1. Len(<<>>) = 0 /\ 1 .. 0 = {}
  OBVIOUS
<1>2. [i \in {} |-> 0] \in [{} -> {}]
  OBVIOUS
<1> QED BY <1>1, <1>2 DEF Found

\* One place more.
LEMMA FoundStep ==
    ASSUME NEW S, NEW from \in Seq(S), NEW places, NEW n \in Nat, n + 1 <= Len(from),
           NEW list \in Seq(S), Found(list, from, places, n)
    PROVE  Found(IF n + 1 \in places THEN Append(list, from[n + 1]) ELSE list, from, places, n + 1)
<1>1. PICK p \in [1 .. Len(list) -> 1 .. n] :
        /\ \A i \in 1 .. Len(list) : p[i] \in places /\ list[i] = from[p[i]]
        /\ \A i, j \in 1 .. Len(list) : p[i] = p[j] => i = j
        /\ \A c \in 1 .. n : c \in places => \E i \in 1 .. Len(list) : p[i] = c
  BY DEF Found
<1>2. PICK m \in Nat : m = Len(list)
  OBVIOUS
<1>3. CASE n + 1 \notin places
  <2>1. p \in [1 .. Len(list) -> 1 .. n + 1]
    OBVIOUS
  <2>2. \A c \in 1 .. n + 1 : c \in places => \E i \in 1 .. Len(list) : p[i] = c
    BY <1>1, <1>3
  <2>3. Found(list, from, places, n + 1)
    BY <1>1, <2>1, <2>2 DEF Found
  <2> QED BY <1>3, <2>3
<1>4. CASE n + 1 \in places
  <2>1. PICK symbol \in S : symbol = from[n + 1]
    OBVIOUS
  <2>2. PICK more : more = Append(list, symbol)
    OBVIOUS
  <2>3. Len(more) = m + 1 /\ more[m + 1] = symbol /\ \A i \in 1 .. m : more[i] = list[i]
    BY <1>2, <2>2
  <2> DEFINE q == [i \in 1 .. m + 1 |-> IF i = m + 1 THEN n + 1 ELSE p[i]]
  <2>4. q \in [1 .. m + 1 -> 1 .. n + 1]
    BY <1>1, <1>2
  <2>5. q[m + 1] = n + 1 /\ \A i \in 1 .. m : q[i] = p[i] /\ p[i] \in 1 .. n
    BY <1>1, <1>2
  <2> HIDE DEF q
  <2>6. \A i \in 1 .. m + 1 : q[i] \in places /\ more[i] = from[q[i]]
    <3> SUFFICES ASSUME NEW i \in 1 .. m + 1 PROVE q[i] \in places /\ more[i] = from[q[i]]
      OBVIOUS
    <3>1. CASE i = m + 1
      BY <1>4, <2>1, <2>3, <2>5, <3>1
    <3>2. CASE i # m + 1
      <4>1. i \in 1 .. m
        BY <3>2
      <4> QED BY <1>1, <1>2, <2>3, <2>5, <4>1
    <3> QED BY <3>1, <3>2
  <2>7. ASSUME NEW i \in 1 .. m + 1, NEW j \in 1 .. m + 1, q[i] = q[j] PROVE i = j
    <3>1. \A k \in 1 .. m + 1 : k = m + 1 \/ k \in 1 .. m
      OBVIOUS
    <3>2. \A k \in 1 .. m : q[k] # n + 1
      BY <2>5
    <3>3. CASE i = m + 1 \/ j = m + 1
      BY <2>5, <2>7, <3>1, <3>2, <3>3
    <3>4. CASE i \in 1 .. m /\ j \in 1 .. m
      BY <1>1, <1>2, <2>5, <2>7, <3>4
    <3> QED BY <3>1, <3>3, <3>4
  <2>8. ASSUME NEW c \in 1 .. n + 1, c \in places PROVE \E i \in 1 .. m + 1 : q[i] = c
    <3>1. CASE c = n + 1
      BY <2>5, <3>1
    <3>2. CASE c # n + 1
      <4>1. c \in 1 .. n
        BY <3>2
      <4>2. PICK i \in 1 .. m : p[i] = c
        BY <1>1, <1>2, <2>8, <4>1
      <4>3. i \in 1 .. m + 1 /\ q[i] = c
        BY <2>5, <4>2
      <4> QED BY <4>3
    <3> QED BY <3>1, <3>2
  <2>9. Found(more, from, places, n + 1)
    <3> DEFINE size == Len(more)
    <3>1. size = m + 1
      BY <2>3
    <3> HIDE DEF size
    <3>2. /\ q \in [1 .. size -> 1 .. n + 1]
          /\ \A i \in 1 .. size : q[i] \in places /\ more[i] = from[q[i]]
          /\ \A i, j \in 1 .. size : q[i] = q[j] => i = j
          /\ \A c \in 1 .. n + 1 : c \in places => \E i \in 1 .. size : q[i] = c
      BY <2>4, <2>6, <2>7, <2>8, <3>1
    <3> QED BY <3>2, Zenon DEF Found, size
  <2> QED BY <1>4, <2>1, <2>2, <2>9
<1> QED BY <1>3, <1>4

\* The steps of SymbolsAt.
Find(places) ==
    [k \in 1 .. Len(symbols) |->
        [list \in Seq(SymbolSet) |-> IF k \in places THEN Append(list, symbols[k]) ELSE list]]

\* What SymbolsAt finds on its way.
LEMMA SymbolsAtIs ==
    ASSUME SymbolInv, NEW places
    PROVE  \E f \in [0 .. Len(symbols) -> Seq(SymbolSet)] :
               /\ f[0] = <<>> /\ SymbolsAt(places) = f[Len(symbols)]
               /\ \A k \in 1 .. Len(symbols) :
                      f[k] = IF k \in places THEN Append(f[k - 1], symbols[k]) ELSE f[k - 1]
<1>1. PICK from \in Seq(SymbolSet) : from = symbols
  BY DEF SymbolInv
<1>2. PICK n \in Nat : n = Len(from) /\ \A k \in 1 .. n : from[k] \in SymbolSet
  OBVIOUS
<1> DEFINE Is(f) == f = [k \in 0 .. n |-> IF k = 0 THEN <<>>
                            ELSE IF k \in places THEN Append(f[k - 1], from[k]) ELSE f[k - 1]]
<1>3. PICK step : step = Find(places)
  OBVIOUS
<1>4. step \in [1 .. n -> [Seq(SymbolSet) -> Seq(SymbolSet)]]
  BY <1>1, <1>2, <1>3 DEF Find
<1>5. \A k \in 1 .. n, list \in Seq(SymbolSet) :
          step[k][list] = IF k \in places THEN Append(list, from[k]) ELSE list
  BY <1>1, <1>2, <1>3 DEF Find
<1>6. <<>> \in Seq(SymbolSet)
  OBVIOUS
<1>7. PICK f \in [0 .. n -> Seq(SymbolSet)] : Recursion(f, n, <<>>, step)
  BY <1>4, <1>6, RecursionExists
<1>8. f = [k \in 0 .. n |-> IF k = 0 THEN <<>> ELSE step[k][f[k - 1]]]
  BY <1>7 DEF Recursion
<1>9. f[0] = <<>> /\ \A k \in 1 .. n : f[k] = IF k \in places THEN Append(f[k - 1], from[k]) ELSE f[k - 1]
  <2>1. \A k \in 1 .. n : k - 1 \in 0 .. n /\ k \in 0 .. n /\ k # 0
    OBVIOUS
  <2>2. \A k \in 1 .. n : f[k] = step[k][f[k - 1]] /\ f[k - 1] \in Seq(SymbolSet)
    BY <1>7, <1>8, <2>1
  <2>3. f[0] = <<>>
    BY <1>8
  <2> QED BY <1>5, <2>2, <2>3
<1>10. Is(f)
  <2>1. \A k \in 0 .. n : k # 0 => k \in 1 .. n
    OBVIOUS
  <2>2. \A k \in 0 .. n : f[k] = IF k = 0 THEN <<>>
                            ELSE IF k \in places THEN Append(f[k - 1], from[k]) ELSE f[k - 1]
    BY <1>9, <2>1
  <2>3. f = [k \in 0 .. n |-> f[k]]
    BY <1>8
  <2> QED BY <2>2, <2>3
<1> DEFINE g == CHOOSE h : Is(h)
<1>11. SymbolsAt(places) = g[n]
  BY <1>1, <1>2 DEF SymbolsAt
<1>12. Is(g)
  <2> HIDE DEF Is
  <2> QED BY <1>10
<1> HIDE DEF g
<1>13. g[0] = <<>> /\ \A k \in 1 .. n : g[k] = IF k \in places THEN Append(g[k - 1], from[k]) ELSE g[k - 1]
  <2>1. \A k \in 0 .. n : g[k] = IF k = 0 THEN <<>>
                            ELSE IF k \in places THEN Append(g[k - 1], from[k]) ELSE g[k - 1]
    BY <1>12
  <2> QED BY <2>1
<1> DEFINE T == {k \in Nat : k <= n => g[k] = f[k]}
<1>14. 0 \in T
  BY <1>9, <1>13
<1>15. ASSUME NEW k \in Nat, k \in T PROVE k + 1 \in T
  <2> SUFFICES ASSUME k + 1 <= n PROVE g[k + 1] = f[k + 1]
    OBVIOUS
  <2>1. k + 1 \in 1 .. n /\ (k + 1) - 1 = k /\ g[k] = f[k]
    BY <1>15
  <2>2. f[k + 1] = IF k + 1 \in places THEN Append(f[k], from[k + 1]) ELSE f[k]
    BY <1>9, <2>1
  <2>3. g[k + 1] = IF k + 1 \in places THEN Append(g[k], from[k + 1]) ELSE g[k]
    BY <1>13, <2>1
  <2> QED BY <2>1, <2>2, <2>3
<1> HIDE DEF T, Is
<1>16. n \in T
  BY <1>14, <1>15, Induction
<1>17. g[n] = f[n]
  BY <1>16 DEF T
<1> QED BY <1>1, <1>2, <1>7, <1>9, <1>11, <1>17

\* SymbolsAt finds the symbols at the given places, and no others.
LEMMA SymbolsAtFinds ==
    ASSUME SymbolInv, NEW places
    PROVE  SymbolsAt(places) \in Seq(SymbolSet) /\ Found(SymbolsAt(places), symbols, places, Len(symbols))
<1> DEFINE n == Len(symbols)
<1>1. n \in Nat /\ symbols \in Seq(SymbolSet)
  BY DEF SymbolInv
<1>2. PICK f \in [0 .. n -> Seq(SymbolSet)] :
          /\ f[0] = <<>> /\ SymbolsAt(places) = f[n]
          /\ \A k \in 1 .. n : f[k] = IF k \in places THEN Append(f[k - 1], symbols[k]) ELSE f[k - 1]
  BY SymbolsAtIs
<1>0. n = Len(symbols)
  OBVIOUS
<1> HIDE DEF n
<1> DEFINE T == {k \in Nat : k <= n => Found(f[k], symbols, places, k)}
<1>3. 0 \in T
  <2>1. Found(<<>>, symbols, places, 0)
    BY FoundNothing
  <2> QED BY <1>2, <2>1
<1>4. ASSUME NEW k \in Nat, k \in T PROVE k + 1 \in T
  <2> SUFFICES ASSUME k + 1 <= n PROVE Found(f[k + 1], symbols, places, k + 1)
    OBVIOUS
  <2>1. k + 1 \in 1 .. n /\ (k + 1) - 1 = k /\ k \in 0 .. n /\ Found(f[k], symbols, places, k)
    BY <1>1, <1>4
  <2>2. f[k + 1] = IF k + 1 \in places THEN Append(f[k], symbols[k + 1]) ELSE f[k]
    BY <1>2, <2>1
  <2>3. f[k] \in Seq(SymbolSet)
    BY <2>1
  <2>4. k + 1 <= Len(symbols)
    BY <1>0
  <2> QED BY <1>1, <2>1, <2>2, <2>3, <2>4, FoundStep
<1> HIDE DEF T
<1>5. n \in T
  BY <1>1, <1>3, <1>4, Induction
<1>6. Found(f[n], symbols, places, n)
  BY <1>5 DEF T
<1>7. f[n] \in Seq(SymbolSet)
  BY <1>1, <1>2
<1> QED BY <1>2, <1>6, <1>7 DEF n

\* Places and the others: together they are all.
LEMMA SymbolsAtBoth ==
    ASSUME SymbolInv, NEW places
    PROVE  Len(SymbolsAt(places)) + Len(SymbolsAt(DOMAIN symbols \ places)) = Len(symbols)
<1> DEFINE n == Len(symbols)
           others == DOMAIN symbols \ places
<1>1. n \in Nat /\ symbols \in Seq(SymbolSet) /\ DOMAIN symbols = 1 .. n
  BY DEF SymbolInv
<1>2. others = 1 .. n \ places
  BY <1>1
<1>3. PICK f \in [0 .. n -> Seq(SymbolSet)] :
          /\ f[0] = <<>> /\ SymbolsAt(places) = f[n]
          /\ \A k \in 1 .. n : f[k] = IF k \in places THEN Append(f[k - 1], symbols[k]) ELSE f[k - 1]
  BY SymbolsAtIs
<1>4. PICK g \in [0 .. n -> Seq(SymbolSet)] :
          /\ g[0] = <<>> /\ SymbolsAt(others) = g[n]
          /\ \A k \in 1 .. n : g[k] = IF k \in others THEN Append(g[k - 1], symbols[k]) ELSE g[k - 1]
  <2> HIDE DEF others
  <2> QED BY SymbolsAtIs
<1> HIDE DEF n, others
<1> DEFINE T == {k \in Nat : k <= n => Len(f[k]) + Len(g[k]) = k}
<1>5. 0 \in T
  BY <1>3, <1>4
<1>6. ASSUME NEW k \in Nat, k \in T PROVE k + 1 \in T
  <2> SUFFICES ASSUME k + 1 <= n PROVE Len(f[k + 1]) + Len(g[k + 1]) = k + 1
    OBVIOUS
  <2>1. k + 1 \in 1 .. n /\ (k + 1) - 1 = k /\ k \in 0 .. n /\ Len(f[k]) + Len(g[k]) = k
    BY <1>1, <1>6
  <2>2. PICK a \in Seq(SymbolSet) : a = f[k]
    BY <2>1
  <2>3. PICK b \in Seq(SymbolSet) : b = g[k]
    BY <2>1
  <2>4. PICK symbol \in SymbolSet : symbol = symbols[k + 1]
    BY <1>1, <2>1
  <2>5. Len(Append(a, symbol)) = Len(a) + 1 /\ Len(Append(b, symbol)) = Len(b) + 1
        /\ Len(a) \in Nat /\ Len(b) \in Nat
    OBVIOUS
  <2>6. CASE k + 1 \in places
    <3>1. f[k + 1] = Append(a, symbol) /\ g[k + 1] = b
      BY <1>2, <1>3, <1>4, <2>1, <2>2, <2>3, <2>4, <2>6
    <3>2. Len(f[k + 1]) = Len(a) + 1 /\ Len(g[k + 1]) = Len(b) /\ Len(a) + Len(b) = k
      BY <2>1, <2>2, <2>3, <2>5, <3>1
    <3>3. PICK x \in Nat : x = Len(a)
      BY <2>5
    <3>4. PICK y \in Nat : y = Len(b)
      BY <2>5
    <3>5. x + y = k
      BY <3>2, <3>3, <3>4
    <3>6. (x + 1) + y = k + 1
      BY <3>5
    <3> QED BY <3>2, <3>3, <3>4, <3>6
  <2>7. CASE k + 1 \notin places
    <3>1. f[k + 1] = a /\ g[k + 1] = Append(b, symbol)
      BY <1>1, <1>2, <1>3, <1>4, <2>1, <2>2, <2>3, <2>4, <2>7
    <3>2. Len(f[k + 1]) = Len(a) /\ Len(g[k + 1]) = Len(b) + 1 /\ Len(a) + Len(b) = k
      BY <2>1, <2>2, <2>3, <2>5, <3>1
    <3> QED BY <2>5, <3>2
  <2> QED BY <2>6, <2>7
<1> HIDE DEF T
<1>7. n \in T
  BY <1>1, <1>5, <1>6, Induction
<1>8. Len(f[n]) + Len(g[n]) = n
  BY <1>7 DEF T
<1> QED BY <1>3, <1>4, <1>8 DEF n, others

\* Where in the list of the engine the symbols of the file are.
Permutes(p) ==
    /\ p \in [DOMAIN symbols -> DOMAIN symbols]
    /\ \A k \in DOMAIN symbols : Sorted[k] = symbols[p[k]]
    /\ \A j, k \in DOMAIN symbols : p[j] = p[k] => j = k
    /\ \A c \in DOMAIN symbols : \E k \in DOMAIN symbols : p[k] = c
    /\ target.elf => \A k \in DOMAIN symbols :
                         k <= Len(SymbolsAt(Locals)) <=> IsLocal(symbols[p[k]])

\* The symbols of the file are those of the engine, each once, and the local
\* ones of an ELF file are in front.
LEMMA SortedPermutes ==
    ASSUME SymbolInv
    PROVE  /\ Len(Sorted) = Len(symbols)
           /\ \E p : Permutes(p)
<1> DEFINE n == Len(symbols)
<1>1. n \in Nat /\ symbols \in Seq(SymbolSet) /\ DOMAIN symbols = 1 .. n
  BY DEF SymbolInv
<1>2. CASE ~target.elf
  <2>1. Sorted = symbols
    BY <1>2 DEF Sorted
  <2> DEFINE p == [k \in 1 .. n |-> k]
  <2>2. p \in [1 .. n -> 1 .. n] /\ \A k \in 1 .. n : p[k] = k
    OBVIOUS
  <2> HIDE DEF p
  <2>3. Permutes(p)
    BY <1>1, <1>2, <2>1, <2>2 DEF Permutes
  <2> QED BY <2>1, <2>3
<1>3. CASE target.elf
  <2>1. PICK others : others = DOMAIN symbols \ Locals
    OBVIOUS
  <2>2. PICK a \in Seq(SymbolSet) : a = SymbolsAt(Locals) /\ Found(a, symbols, Locals, n)
    BY SymbolsAtFinds
  <2>3. PICK b \in Seq(SymbolSet) : b = SymbolsAt(others) /\ Found(b, symbols, others, n)
    BY SymbolsAtFinds
  <2> DEFINE la == Len(a)
             lb == Len(b)
  <2>4. la \in Nat /\ lb \in Nat /\ la = Len(SymbolsAt(Locals))
    BY <2>2
  <2>5. la + lb = n
    BY <2>1, <2>2, <2>3, SymbolsAtBoth
  <2>6. PICK all : all = a \o b
    OBVIOUS
  <2>7. /\ Sorted = all /\ Len(all) = n
        /\ \A k \in 1 .. la : all[k] = a[k]
        /\ \A k \in 1 .. lb : all[la + k] = b[k]
    BY <1>3, <2>1, <2>2, <2>3, <2>5, <2>6 DEF Sorted
  <2>8. PICK p \in [1 .. la -> 1 .. n] :
            /\ \A i \in 1 .. la : p[i] \in Locals /\ a[i] = symbols[p[i]]
            /\ \A i, j \in 1 .. la : p[i] = p[j] => i = j
            /\ \A c \in 1 .. n : c \in Locals => \E i \in 1 .. la : p[i] = c
    BY <2>2 DEF Found
  <2>9. PICK q \in [1 .. lb -> 1 .. n] :
            /\ \A i \in 1 .. lb : q[i] \in others /\ b[i] = symbols[q[i]]
            /\ \A i, j \in 1 .. lb : q[i] = q[j] => i = j
            /\ \A c \in 1 .. n : c \in others => \E i \in 1 .. lb : q[i] = c
    BY <2>3 DEF Found
  <2> HIDE DEF n, la, lb
  <2> DEFINE r == [k \in 1 .. n |-> IF k <= la THEN p[k] ELSE q[k - la]]
  <2>10. \A k \in 1 .. n : IF k <= la THEN k \in 1 .. la ELSE k - la \in 1 .. lb /\ la + (k - la) = k
    BY <2>4, <2>5
  <2>11. r \in [1 .. n -> 1 .. n]
    BY <2>8, <2>9, <2>10
  <2>12. \A k \in 1 .. n : r[k] = IF k <= la THEN p[k] ELSE q[k - la]
    OBVIOUS
  <2> HIDE DEF r
  <2>13. \A k \in 1 .. n : all[k] = symbols[r[k]]
    <3> SUFFICES ASSUME NEW k \in 1 .. n PROVE all[k] = symbols[r[k]]
      OBVIOUS
    <3>1. CASE k <= la
      BY <2>7, <2>8, <2>10, <2>12, <3>1
    <3>2. CASE ~(k <= la)
      <4>1. PICK m \in 1 .. lb : m = k - la /\ la + m = k
        BY <2>10, <3>2
      <4> QED BY <2>7, <2>9, <2>12, <3>2, <4>1
    <3> QED BY <3>1, <3>2
  <2>14. \A k \in 1 .. n : k <= la <=> r[k] \in Locals
    <3>1. \A k \in 1 .. n : k <= la => r[k] \in Locals
      BY <2>8, <2>10, <2>12
    <3>2. \A k \in 1 .. n : ~(k <= la) => r[k] \in others
      BY <2>9, <2>10, <2>12
    <3> QED BY <2>1, <3>1, <3>2
  <2>15. ASSUME NEW j \in 1 .. n, NEW k \in 1 .. n, r[j] = r[k] PROVE j = k
    <3>1. j <= la <=> k <= la
      BY <2>14, <2>15
    <3>2. CASE j <= la
      BY <2>8, <2>10, <2>12, <2>15, <3>1, <3>2
    <3>3. CASE ~(j <= la)
      <4>1. PICK i \in 1 .. lb : i = j - la /\ r[j] = q[i]
        BY <2>10, <2>12, <3>3
      <4>2. PICK m \in 1 .. lb : m = k - la /\ r[k] = q[m]
        BY <2>10, <2>12, <3>1, <3>3
      <4>3. i = m
        BY <2>9, <2>15, <4>1, <4>2
      <4> QED BY <2>4, <4>1, <4>2, <4>3
    <3> QED BY <3>2, <3>3
  <2>16. ASSUME NEW c \in 1 .. n PROVE \E k \in 1 .. n : r[k] = c
    <3>1. CASE c \in Locals
      <4>1. PICK i \in 1 .. la : p[i] = c
        BY <2>8, <3>1
      <4>2. i \in 1 .. n /\ i <= la
        BY <2>4, <2>5
      <4> QED BY <2>12, <4>1, <4>2
    <3>2. CASE c \notin Locals
      <4>1. PICK i \in 1 .. lb : q[i] = c
        BY <1>1, <2>1, <2>9, <3>2
      <4>2. la + i \in 1 .. n /\ ~(la + i <= la) /\ (la + i) - la = i
        BY <2>4, <2>5
      <4> QED BY <2>12, <4>1, <4>2
    <3> QED BY <3>1, <3>2
  <2>17. \A k \in 1 .. n : k <= Len(SymbolsAt(Locals)) <=> IsLocal(symbols[r[k]])
    <3>1. \A c \in 1 .. n : c \in Locals <=> IsLocal(symbols[c])
      BY <1>1 DEF Locals
    <3>2. \A k \in 1 .. n : r[k] \in 1 .. n
      BY <2>11
    <3> QED BY <2>4, <2>14, <3>1, <3>2
  <2>18. Permutes(r)
    BY <1>1, <2>7, <2>11, <2>13, <2>15, <2>16, <2>17 DEF Permutes
  <2>19. Len(Sorted) = n
    BY <2>7
  <2> QED BY <2>18, <2>19 DEF n
<1> QED BY <1>2, <1>3

\* What a relocation becomes in the object file, unless it is of a branch.
Refer(r) == ObjectReloc(r, Entity(r.ref))
Referred == [j \in 1 .. Len(relocations) |-> Refer(relocations[j])]
References == {j \in 1 .. Len(relocations) : relocations[j].ref.to # "Block"}

\* The object file has the relocations that are resolved and of no branch.
ReferInv ==
    /\ objectRelocs \in Seq({Refer(relocations[j]) : j \in 1 .. Len(relocations)})
    /\ Found(objectRelocs, Referred, References, resolved)
    /\ status \in {"Emitting", "Failed"} => objectRelocs = <<>>

\* None at first.
LEMMA NothingReferred ==
    ASSUME objectRelocs = <<>>, resolved = 0
    PROVE  ReferInv
<1>1. <<>> \in Seq({Refer(relocations[j]) : j \in 1 .. Len(relocations)})
  OBVIOUS
<1>2. Found(<<>>, Referred, References, 0)
  BY FoundNothing
<1> QED BY <1>1, <1>2 DEF ReferInv

\* A relocation is resolved.
LEMMA ResolutionRefers ==
    ASSUME Inv, ResolveInv, ReferInv, PatchBranch \/ ReferToFunction \/ ReferToGlobal
    PROVE  ReferInv'
<1>1. /\ UNCHANGED <<module, target, status, relocations>>
      /\ resolved' = resolved + 1 /\ status = "Resolving" /\ resolved < Len(relocations)
  BY DEF PatchBranch, ReferToFunction, ReferToGlobal, Resolving, emission, labelling
<1>2. \A r : Refer(r)' = Refer(r)
  BY <1>1 DEF Refer, ObjectReloc, Entity, FieldOffset, LengthOf, InstOf, Code, Functions, Globals
<1>3. PICK S : S = {Refer(relocations[j]) : j \in 1 .. Len(relocations)}
  OBVIOUS
<1>4. S = {Refer(relocations[j]) : j \in 1 .. Len(relocations)}'
  BY <1>1, <1>2, <1>3
<1>5. PICK from : from = Referred
  OBVIOUS
<1>6. PICK places : places = References
  OBVIOUS
<1>7. Referred' = from /\ References' = places
  BY <1>1, <1>2, <1>5, <1>6 DEF Referred, References
<1>8. PICK n \in Nat : n = resolved
  BY DEF Inv, RelocInv
<1>9. Len(relocations) \in Nat
  BY DEF Inv, RelocInv
<1>10. from \in Seq(S) /\ Len(from) = Len(relocations)
  BY <1>3, <1>5, <1>9 DEF Referred
<1>11. PICK list \in Seq(S) : list = objectRelocs
  BY <1>3 DEF ReferInv
<1>12. Found(list, from, places, n)
  BY <1>5, <1>6, <1>8, <1>11 DEF ReferInv
<1>13. n + 1 <= Len(from)
  BY <1>1, <1>8, <1>9, <1>10
<1>14. n + 1 \in 1 .. Len(relocations)
  BY <1>9, <1>10, <1>13
<1>15. from[n + 1] = Refer(NextReloc) /\ from[n + 1] \in S /\ (n + 1 \in places <=> NextReloc.ref.to # "Block")
  BY <1>3, <1>5, <1>6, <1>8, <1>14 DEF Referred, References, NextReloc
<1>16. PICK new \in S : new = from[n + 1]
  BY <1>15
<1>17. objectRelocs' = IF n + 1 \in places THEN Append(list, from[n + 1]) ELSE list
  BY <1>11, <1>15 DEF PatchBranch, ReferToFunction, ReferToGlobal, Resolving, Refer, Entity
<1>18. Found(objectRelocs', from, places, n + 1)
  BY <1>10, <1>12, <1>13, <1>17, FoundStep
<1>19. objectRelocs' \in Seq(S)
  BY <1>11, <1>16, <1>17
<1>20. Found(objectRelocs, Referred, References, resolved)'
  BY <1>1, <1>7, <1>8, <1>18
<1> QED BY <1>1, <1>4, <1>19, <1>20 DEF ReferInv

\* Every step keeps what has been referred to.
LEMMA StepKeepsRefer == Inv /\ ResolveInv /\ ReferInv /\ [Next]_vars => ReferInv'
<1> SUFFICES ASSUME Inv, ResolveInv, ReferInv, [Next]_vars PROVE ReferInv'
  OBVIOUS
<1>1. CASE EmitGlobal \/ SkipDeclaration \/ BeginFunction \/ BindBlock \/ EmitInst \/ RejectInst
           \/ EndFunction \/ Finalize
  <2>1. status = "Emitting" /\ UNCHANGED <<resolved, objectRelocs>>
    BY <1>1 DEF EmitGlobal, SkipDeclaration, BeginFunction, BindBlock, EmitInst, RejectInst,
                EndFunction, InFunction, ReadyFor, resolution, Finalize
  <2>2. resolved' = 0 /\ objectRelocs' = <<>>
    BY <2>1 DEF ResolveInv, ReferInv
  <2>3. (objectRelocs = <<>> /\ resolved = 0)'
    BY <2>2
  <2>4. (objectRelocs = <<>> /\ resolved = 0)' => ReferInv'
    BY NothingReferred, PTL
  <2> QED
    BY <2>3, <2>4
<1>2. CASE Write \/ UNCHANGED vars
  <2>1. /\ UNCHANGED <<module, target, relocations, resolved, objectRelocs>>
        /\ status' = status \/ (status = "Resolving" /\ status' = "Written")
    BY <1>2 DEF Write, vars, emission, labelling, resolution
  <2>2. \A r : Refer(r)' = Refer(r)
    BY <2>1 DEF Refer, ObjectReloc, Entity, FieldOffset, LengthOf, InstOf, Code, Functions, Globals
  <2>3. Referred' = Referred /\ References' = References
    BY <2>1, <2>2 DEF Referred, References
  <2>4. {Refer(relocations[j]) : j \in 1 .. Len(relocations)}' = {Refer(relocations[j]) : j \in 1 .. Len(relocations)}
    BY <2>1, <2>2
  <2>5. Found(objectRelocs, Referred, References, resolved)' <=> Found(objectRelocs, Referred, References, resolved)
    BY <2>1, <2>3
  <2> QED
    BY <2>1, <2>4, <2>5 DEF ReferInv
<1> QED
  BY <1>1, <1>2, ResolutionRefers DEF Next

\* The parts of a file have sizes and alignments.
LEMMA PartsAre ==
    ASSUME Inv, StreamInv, ReferInv
    PROVE  /\ ElfParts \in Seq(PartSet) /\ ElfParts # <<>>
           /\ CoffParts \in Seq(PartSet) /\ CoffParts # <<>>
<1>1. \A name \in PartNames \cup SectionTypes, size \in Nat, align \in Nat \ {0} : Part(name, size, align) \in PartSet
  BY DEF Part, PartSet
<1>0. /\ "FileHeader" \in PartNames /\ "Relocations" \in PartNames /\ "Symbols" \in PartNames
      /\ "Names" \in PartNames /\ "SectionNames" \in PartNames /\ "SectionHeaders" \in PartNames
  BY DEF PartNames
<1>2. PICK n \in Nat : n = Len(symbols)
  BY DEF Inv, SymbolInv
<1>3. PICK m \in Nat : m = Len(objectRelocs)
  BY DEF ReferInv
<1>4. ASSUME NEW type \in SectionTypes PROVE SectionPart(type) \in PartSet
  <2>1. stream[type] \in Seq(AllNodes) /\ SizesSet(stream[type])
    BY SectionIs
  <2>2. PICK len \in Nat : len = Len(stream[type])
    BY <2>1
  <2>3. Starts(stream[type]) \in [1 .. len + 1 -> Nat]
    BY <2>1, <2>2, StartsAreNat DEF SizesSet
  <2>4. SizeIn(type) \in Nat
    <3>1. Len(Starts(stream[type])) = len + 1
      BY <2>3
    <3> QED BY <2>3, <3>1 DEF SizeIn, Last
  <2>5. SectionAlignment(type) \in Nat \ {0}
    BY DEF SectionAlignment
  <2>6. PICK size \in Nat : size = IF type = "NonInitialized" THEN 0 ELSE SizeIn(type)
    BY <2>4
  <2>7. PICK align \in Nat \ {0} : align = IF target.elf THEN SectionAlignment(type) ELSE 4
    BY <2>5
  <2> QED BY <1>1, <2>5, <2>6, <2>7 DEF SectionPart
<1>5. [k \in 1 .. 4 |-> SectionPart(Written[k])] \in Seq(PartSet)
  <2>1. \A k \in 1 .. 4 : Written[k] \in SectionTypes
    BY DEF Written, SectionTypes
  <2> QED BY <1>4, <2>1
<1>6. PICK sections \in Seq(PartSet) : sections = [k \in 1 .. 4 |-> SectionPart(Written[k])]
  BY <1>5
<1>7. ASSUME NEW entry \in Nat, NEW align \in Nat \ {0} PROVE Relocs(entry, align) \in Seq(PartSet)
  <2>1. entry * m \in Nat
    OBVIOUS
  <2>2. Part("Relocations", entry * m, align) \in PartSet
    BY <1>0, <1>1, <2>1
  <2> QED BY <1>3, <2>2 DEF Relocs
<1>8. PICK relocs24 \in Seq(PartSet), relocs10 \in Seq(PartSet) :
        relocs24 = Relocs(24, 8) /\ relocs10 = Relocs(10, 4)
  BY <1>7
<1>9. ElfParts \in Seq(PartSet) /\ ElfParts # <<>>
  <2>1. PICK head \in PartSet : head = Part("FileHeader", 64, 1)
    BY <1>0, <1>1
  <2>2. PICK a \in PartSet : a = Part("Symbols", 24 * (n + 1), 8)
    BY <1>0, <1>1
  <2>3. PICK b \in PartSet : b = Part("Names", 1 + NameSize * n, 1)
    BY <1>0, <1>1 DEF NameSize
  <2>4. PICK c \in PartSet : c = Part("SectionNames", 52 + (IF objectRelocs = <<>> THEN 0 ELSE 11), 1)
    BY <1>0, <1>1
  <2>5. PICK d \in PartSet : d = Part("SectionHeaders", 64 * (8 + (IF objectRelocs = <<>> THEN 0 ELSE 1)), 8)
    BY <1>0, <1>1
  <2>6. ElfParts = <<head>> \o sections \o relocs24 \o <<a, b, c, d>>
    BY <1>2, <1>6, <1>8, <2>1, <2>2, <2>3, <2>4, <2>5 DEF ElfParts
  <2> QED BY <2>6
<1>10. CoffParts \in Seq(PartSet) /\ CoffParts # <<>>
  <2>1. PICK a \in PartSet : a = Part("FileHeader", 20, 1)
    BY <1>0, <1>1
  <2>2. PICK b \in PartSet : b = Part("SectionHeaders", 40 * 4, 1)
    BY <1>0, <1>1
  <2>3. PICK c \in PartSet : c = Part("Symbols", 18 * n, 4)
    BY <1>0, <1>1
  <2>4. PICK d \in PartSet : d = Part("Names", 4 + NameSize * n, 1)
    BY <1>0, <1>1 DEF NameSize
  <2>5. CoffParts = <<a, b>> \o sections \o relocs10 \o <<c, d>>
    BY <1>2, <1>6, <1>8, <2>1, <2>2, <2>3, <2>4 DEF CoffParts
  <2> QED BY <2>5
<1> QED BY <1>9, <1>10

\* Write makes a file that is well formed.
LEMMA WriteMakesFile ==
    ASSUME Inv, StreamInv, ReferInv, Write
    PROVE  FileWellFormed'
<1>1. PICK parts \in Seq(PartSet) : parts = (IF target.elf THEN ElfParts ELSE CoffParts) /\ parts # <<>>
  BY PartsAre
<1>2. PICK n \in Nat : n = Len(symbols) /\ DOMAIN symbols = 1 .. n
  BY DEF Inv, SymbolInv
<1>3. /\ file'.parts = Laid(parts) /\ file'.size = Ends(parts)[Len(parts)]
      /\ file'.symbols = [k \in 1 .. n |-> FileSymbol(Sorted[k])]
      /\ file'.locals = Len(SymbolsAt(Locals)) /\ target' = target
  BY <1>1, <1>2 DEF Write
<1>4. PICK p : Permutes(p)
  BY SortedPermutes DEF Inv
<1>5. ASSUME target.elf, NEW k \in 1 .. n
      PROVE  (k <= file'.locals) <=> (file'.symbols[k].binding = "Local")
  <2>1. p[k] \in 1 .. n /\ Sorted[k] = symbols[p[k]]
    BY <1>2, <1>4 DEF Permutes
  <2>2. k <= file'.locals <=> IsLocal(symbols[p[k]])
    BY <1>2, <1>3, <1>4, <1>5 DEF Permutes
  <2>3. PICK symbol : symbol = symbols[p[k]]
    OBVIOUS
  <2>4. file'.symbols[k].binding = Binding(symbol)
    BY <1>3, <2>1, <2>3 DEF FileSymbol
  <2>5. Binding(symbol) = "Local" <=> IsLocal(symbol)
    BY <1>5 DEF Binding, IsLocal
  <2> QED BY <2>2, <2>3, <2>4, <2>5
<1>6. DOMAIN file'.symbols = 1 .. n
  BY <1>3
<1>7. /\ \A j, k \in DOMAIN file'.parts :
             j < k => file'.parts[j].at + file'.parts[j].size <= file'.parts[k].at
      /\ file'.size = Last(file'.parts).at + Last(file'.parts).size
  BY <1>1, <1>3, LaidInOrder
<1> QED BY <1>3, <1>5, <1>6, <1>7 DEF FileWellFormed

\* Once the file is written, nothing changes it.
LEMMA WrittenStays == ASSUME status = "Written", [Next]_vars PROVE UNCHANGED vars
BY DEF Next, EmitGlobal, SkipDeclaration, BeginFunction, BindBlock, EmitInst, RejectInst, EndFunction,
       InFunction, ReadyFor, Finalize, PatchBranch, ReferToFunction, ReferToGlobal, Resolving, Write

\* The layout of both writers: for any module and target, the parts of the
\* file follow one another without sharing a byte and end with it, and the
\* local symbols of an ELF file are those in front of the index in its header.
THEOREM FileAlwaysWellFormed == Spec => []FileWellFormed
<1>1. Init => FileWellFormed
  BY DEF Init, FileWellFormed
<1>2. Init => ReferInv
  BY NothingReferred DEF Init
<1>3. ASSUME Inv, TextInv, ReferInv, FileWellFormed, [Next]_vars PROVE FileWellFormed'
  <2>1. CASE Write
    BY <1>3, <2>1, WriteMakesFile DEF TextInv
  <2>2. CASE status = "Written"
    <3>1. UNCHANGED vars
      BY <1>3, <2>2, WrittenStays
    <3> QED BY <1>3, <3>1 DEF vars, FileWellFormed
  <2>3. CASE ~Write /\ status # "Written"
    <3>1. status' # "Written"
      BY <1>3, <2>3 DEF Next, EmitGlobal, SkipDeclaration, BeginFunction, BindBlock, EmitInst, RejectInst,
           EndFunction, Finalize, PatchBranch, ReferToFunction, ReferToGlobal, vars, InFunction, ReadyFor
    <3> QED BY <3>1 DEF FileWellFormed
  <2> QED BY <2>1, <2>2, <2>3
<1>4. Init => Inv /\ TextInv /\ ResolveInv
  BY InitEstablishesInv, InitText, InitResolve
<1> QED
  BY <1>1, <1>2, <1>3, <1>4, StepKeepsInv, StepKeepsText, StepKeepsResolve, StepKeepsRefer, PTL DEF Spec

-----------------------------------------------------------------------------
(* The symbols and what they stand for.  What is in a section is seen as a *)
(* set of pieces: what was emitted for something, with its place and size. *)

\* Whatever gets a symbol of its own has a name of its own.
NamesDistinct ==
    /\ \A g, h \in DOMAIN Globals : Globals[g].name = Globals[h].name => g = h
    /\ \A e, f \in DOMAIN Functions :
           ~Functions[e].isDeclaration /\ ~Functions[f].isDeclaration /\ Functions[e].name = Functions[f].name
           => e = f
    /\ \A g \in DOMAIN Globals, f \in DOMAIN Functions :
           ~Functions[f].isDeclaration => Globals[g].name # Functions[f].name

Piece(node, at) == [of |-> node.of, at |-> at, size |-> node.size]
Pieces(nodes) ==
    {Piece(nodes[k], Starts(nodes)[k]) : k \in {j \in 1 .. Len(nodes) : nodes[j].kind = "Data"}}
NewPieces(node, at) == IF node.kind = "Data" THEN {Piece(node, at)} ELSE {}

\* Pieces are in front of the running offset and belong to what has been
\* emitted; those of the function that is being emitted are behind its start.
\* The parts of the invariant are stated for any pieces P of the sections with
\* the offsets end where they stop, any start off of the function at the place
\* pl, any next global gl, and any list of symbols, late if the resolution of
\* relocations may have added to it.
PiecesIn(P, end, off, gl, pl) ==
    /\ \A t \in SectionTypes : \A x \in P[t] :
           x.at \in Nat /\ x.size \in Nat /\ x.at + x.size <= end[t]
    /\ \A x \in P["Text"] :
           /\ x.of[1] \in DOMAIN Functions /\ ~Functions[x.of[1]].isDeclaration
           /\ IF pl[2] # 0 /\ x.of[1] = pl[1] THEN off <= x.at
              ELSE x.of[1] < pl[1] /\ (pl[2] # 0 => x.at + x.size <= off)
    /\ \A t \in SectionTypes \ {"Text"} : \A x \in P[t] :
           x.of[1] \in DOMAIN Globals /\ x.of[1] < gl

\* A symbol is of a global or a function that has been emitted, or it came
\* with a reference to a name without a symbol.
OfGlobal(symbol, gl) ==
    \E g \in DOMAIN Globals :
        /\ g < gl /\ symbol.name = Globals[g].name
        /\ symbol.section = IF Globals[g].isDeclaration THEN "Undefined" ELSE SectionOf(Globals[g])
OfFunction(symbol, pl) ==
    \E f \in DOMAIN Functions :
        /\ f < pl[1] /\ ~Functions[f].isDeclaration
        /\ symbol.name = Functions[f].name /\ symbol.section = "Text"
OriginIn(table, gl, pl, late) ==
    \A k \in DOMAIN table :
        OfGlobal(table[k], gl) \/ OfFunction(table[k], pl) \/ (late /\ table[k].section = "Undefined")

\* Whatever has been emitted has its symbol.
HasSymbol(table, name) == \E k \in DOMAIN table : table[k].name = name
CompleteIn(table, gl, pl) ==
    /\ \A g \in DOMAIN Globals : g < gl => HasSymbol(table, Globals[g].name)
    /\ \A f \in DOMAIN Functions :
           f < pl[1] /\ ~Functions[f].isDeclaration => HasSymbol(table, Functions[f].name)

\* A name has one symbol, and one that is undefined is of nothing in the module.
Defined == NamesOf(Functions) \cup NamesOf(Globals)
UniqueIn(table) ==
    /\ \A j, k \in DOMAIN table : table[j].name = table[k].name => j = k
    /\ \A k \in DOMAIN table : table[k].section = "Undefined" => table[k].name \notin Defined

\* A symbol covers the pieces of what it is of, and no others.
Inside(symbol, x) == symbol.offset <= x.at /\ x.at + x.size <= symbol.offset + symbol.size
Outside(symbol, x) == x.at + x.size <= symbol.offset \/ symbol.offset + symbol.size <= x.at
Covers(symbol, x) ==
    IF Holds(symbol.section, symbol.name, x.of) THEN Inside(symbol, x) ELSE Outside(symbol, x)
CoverIn(table, P) ==
    \A k \in DOMAIN table : table[k].section # "Undefined" =>
        \A x \in P[table[k].section] : Covers(table[k], x)

TableIn(P, end, off, gl, pl, table, late) ==
    /\ PiecesIn(P, end, off, gl, pl) /\ OriginIn(table, gl, pl, late) /\ CompleteIn(table, gl, pl)
    /\ NamesDistinct => UniqueIn(table) /\ CoverIn(table, P)

AllPieces == [t \in SectionTypes |-> Pieces(stream[t])]
Late == status \in {"Resolving", "Written"}
TableInv == TableIn(AllPieces, cursorOffset, functionOffset, global, place, symbols, Late)

\* A node more is at most a piece more.
LEMMA PiecesAppend ==
    ASSUME NEW nodes \in Seq(AllNodes), NEW n \in AllNodes
    PROVE  Pieces(Append(nodes, n)) = Pieces(nodes) \cup NewPieces(n, EndOf(nodes))
<1>1. PICK size \in Nat : size = Len(nodes)
  OBVIOUS
<1>2. PICK more : more = Append(nodes, n)
  OBVIOUS
<1>3. Len(more) = size + 1 /\ more[size + 1] = n /\ \A k \in 1 .. size : more[k] = nodes[k]
  BY <1>1, <1>2, Appended
<1>4. PICK at : at = Starts(nodes)
  OBVIOUS
<1>5. PICK at2 : at2 = Starts(more)
  OBVIOUS
<1>6. \A k \in 1 .. size + 1 : at2[k] = at[k]
  BY <1>1, <1>2, <1>4, <1>5, StartsAppend
<1>7. Pieces(more) = {Piece(more[k], at2[k]) : k \in {j \in 1 .. size + 1 : more[j].kind = "Data"}}
  BY <1>3, <1>5 DEF Pieces
<1>8. Pieces(nodes) = {Piece(nodes[k], at[k]) : k \in {j \in 1 .. size : nodes[j].kind = "Data"}}
  BY <1>1, <1>4 DEF Pieces
<1>9. NewPieces(n, EndOf(nodes)) = IF n.kind = "Data" THEN {Piece(n, at[size + 1])} ELSE {}
  BY <1>1, <1>4 DEF NewPieces, EndOf
<1>10. \A k \in 1 .. size + 1 : k \in 1 .. size \/ k = size + 1
  OBVIOUS
<1>11. \A k \in 1 .. size : k \in 1 .. size + 1
  OBVIOUS
<1>12. size + 1 \in 1 .. size + 1
  OBVIOUS
<1>13. ASSUME NEW x PROVE x \in Pieces(more) <=> x \in Pieces(nodes) \cup NewPieces(n, EndOf(nodes))
  <2>1. x \in Pieces(more) <=> \E k \in 1 .. size + 1 : more[k].kind = "Data" /\ x = Piece(more[k], at2[k])
    BY <1>7
  <2>2. x \in Pieces(nodes) <=> \E k \in 1 .. size : nodes[k].kind = "Data" /\ x = Piece(nodes[k], at[k])
    BY <1>8
  <2>3. x \in NewPieces(n, EndOf(nodes)) <=> n.kind = "Data" /\ x = Piece(n, at[size + 1])
    BY <1>9
  <2> QED BY <1>3, <1>6, <1>10, <1>11, <1>12, <2>1, <2>2, <2>3
<1> QED BY <1>2, <1>13

\* The text grows by a node.
LEMMA TextPieces ==
    ASSUME StreamInv, NEW n \in AllNodes, stream' = [stream EXCEPT !["Text"] = Append(@, n)]
    PROVE  AllPieces' = [AllPieces EXCEPT !["Text"] = @ \cup NewPieces(n, cursorOffset["Text"])]
<1>1. stream \in [SectionTypes -> Seq(AllNodes)] /\ "Text" \in SectionTypes
  BY TextSection DEF StreamInv
<1>2. PICK nodes \in Seq(AllNodes) : nodes = stream["Text"] /\ cursorOffset["Text"] = EndOf(nodes)
  BY <1>1, SectionIs
<1>3. /\ stream'["Text"] = Append(nodes, n)
      /\ \A t \in SectionTypes \ {"Text"} : stream'[t] = stream[t]
  BY <1>1, <1>2
<1>4. Pieces(stream'["Text"]) = Pieces(nodes) \cup NewPieces(n, EndOf(nodes))
  BY <1>3, PiecesAppend
<1> QED BY <1>1, <1>2, <1>3, <1>4 DEF AllPieces

\* Alignments and labels are no pieces.
LEMMA NoPieces ==
    /\ \A a, at : NewPieces(Align(a), at) = {}
    /\ \A id, at : NewPieces(Label(id), at) = {}
    /\ \A size, of, at : NewPieces(Data(size, of), at) = {[of |-> of, at |-> at, size |-> size]}
BY DEF NewPieces, Align, Label, Data, Piece

\* A list with one more symbol.
OneMoreSymbol(table, s, table2) ==
    \E n \in Nat :
        /\ DOMAIN table2 = DOMAIN table \cup {n} /\ n \notin DOMAIN table
        /\ table2[n] = s /\ \A k \in DOMAIN table : table2[k] = table[k]

\* The list of the engine with a symbol appended is one.
LEMMA AppendSymbol ==
    ASSUME SymbolInv, NEW s
    PROVE  OneMoreSymbol(symbols, s, Append(symbols, s))
<1>1. PICK n \in Nat : n = Len(symbols)
  BY DEF SymbolInv
<1>2. symbols \in Seq(SymbolSet)
  BY DEF SymbolInv
<1>3. DOMAIN symbols = 1 .. n /\ DOMAIN Append(symbols, s) = 1 .. n + 1
  BY <1>1, <1>2
<1>4. Append(symbols, s)[n + 1] = s /\ \A k \in 1 .. n : Append(symbols, s)[k] = symbols[k]
  BY <1>1, <1>2
<1>5. 1 .. n + 1 = (1 .. n) \cup {n + 1} /\ n + 1 \notin 1 .. n /\ n + 1 \in Nat
  OBVIOUS
<1> QED BY <1>3, <1>4, <1>5 DEF OneMoreSymbol

\* What was defined: the names of the definitions.
LEMMA DefinedIs ==
    \A name : name \in Defined <=>
        \/ \E f \in DOMAIN Functions : ~Functions[f].isDeclaration /\ Functions[f].name = name
        \/ \E g \in DOMAIN Globals : ~Globals[g].isDeclaration /\ Globals[g].name = name
BY DEF Defined, NamesOf, ToSet

\* What a table may grow by: the symbol is new, and has its origin.
LEMMA OriginGrows ==
    ASSUME NEW gl \in Nat, NEW pl \in Nat \X Nat \X Nat, NEW late, NEW table, OriginIn(table, gl, pl, late),
           NEW gl2 \in Nat, gl <= gl2, NEW pl2 \in Nat \X Nat \X Nat, pl[1] <= pl2[1], NEW s, NEW table2,
           OneMoreSymbol(table, s, table2),
           OfGlobal(s, gl2) \/ OfFunction(s, pl2) \/ (late /\ s.section = "Undefined"),
           DOMAIN Globals \subseteq Nat, DOMAIN Functions \subseteq Nat
    PROVE  OriginIn(table2, gl2, pl2, late)
<1>1. PICK n \in Nat : /\ DOMAIN table2 = DOMAIN table \cup {n}
                       /\ table2[n] = s /\ \A k \in DOMAIN table : table2[k] = table[k]
  BY DEF OneMoreSymbol
<1>2. \A t : OfGlobal(t, gl) => OfGlobal(t, gl2)
  BY DEF OfGlobal
<1>3. \A t : OfFunction(t, pl) => OfFunction(t, pl2)
  BY DEF OfFunction
<1> QED BY <1>1, <1>2, <1>3 DEF OriginIn

\* The list without a symbol more.
LEMMA OriginMoves ==
    ASSUME NEW gl \in Nat, NEW pl \in Nat \X Nat \X Nat, NEW late, NEW table, OriginIn(table, gl, pl, late),
           NEW gl2 \in Nat, gl <= gl2, NEW pl2 \in Nat \X Nat \X Nat, pl[1] <= pl2[1],
           NEW late2, late => late2,
           DOMAIN Globals \subseteq Nat, DOMAIN Functions \subseteq Nat
    PROVE  OriginIn(table, gl2, pl2, late2)
<1>2. \A t : OfGlobal(t, gl) => OfGlobal(t, gl2)
  BY DEF OfGlobal
<1>3. \A t : OfFunction(t, pl) => OfFunction(t, pl2)
  BY DEF OfFunction
<1> QED BY <1>2, <1>3 DEF OriginIn

\* Names that have symbols keep them.
LEMMA SymbolsStay ==
    ASSUME NEW table, NEW s, NEW table2, OneMoreSymbol(table, s, table2)
    PROVE  \A name : HasSymbol(table2, name) <=> HasSymbol(table, name) \/ s.name = name
BY DEF HasSymbol, OneMoreSymbol

\* A symbol of a name without one.
LEMMA UniqueGrows ==
    ASSUME NEW table, UniqueIn(table), NEW s, NEW table2, OneMoreSymbol(table, s, table2),
           ~HasSymbol(table, s.name), s.section = "Undefined" => s.name \notin Defined
    PROVE  UniqueIn(table2)
<1>1. PICK n \in Nat : /\ DOMAIN table2 = DOMAIN table \cup {n} /\ n \notin DOMAIN table
                       /\ table2[n] = s /\ \A k \in DOMAIN table : table2[k] = table[k]
  BY DEF OneMoreSymbol
<1>2. \A k \in DOMAIN table : table2[k].name # s.name
  BY <1>1 DEF HasSymbol
<1>3. ASSUME NEW j \in DOMAIN table2, NEW k \in DOMAIN table2, table2[j].name = table2[k].name PROVE j = k
  <2>1. CASE j \in DOMAIN table /\ k \in DOMAIN table
    BY <1>1, <1>3, <2>1 DEF UniqueIn
  <2>2. CASE j = n \/ k = n
    BY <1>1, <1>2, <1>3, <2>2
  <2> QED BY <1>1, <2>1, <2>2
<1>4. ASSUME NEW k \in DOMAIN table2, table2[k].section = "Undefined" PROVE table2[k].name \notin Defined
  BY <1>1, <1>4 DEF UniqueIn
<1> QED BY <1>3, <1>4 DEF UniqueIn

\* A symbol that covers what it should.
LEMMA CoverGrows ==
    ASSUME NEW table, NEW P, CoverIn(table, P), NEW s, NEW table2, OneMoreSymbol(table, s, table2),
           s.section # "Undefined" => \A x \in P[s.section] : Covers(s, x)
    PROVE  CoverIn(table2, P)
<1>1. PICK n \in Nat : /\ DOMAIN table2 = DOMAIN table \cup {n} /\ n \notin DOMAIN table
                       /\ table2[n] = s /\ \A k \in DOMAIN table : table2[k] = table[k]
  BY DEF OneMoreSymbol
<1> QED BY <1>1 DEF CoverIn

\* A piece more, behind all symbols of its section and of another name.
LEMMA CoverPiece ==
    ASSUME NEW table, NEW P, DOMAIN P = SectionTypes, CoverIn(table, P), NEW type \in SectionTypes, NEW x,
           \A k \in DOMAIN table : table[k].section = type =>
               ~Holds(type, table[k].name, x.of) /\ Outside(table[k], x)
    PROVE  CoverIn(table, [P EXCEPT ![type] = @ \cup {x}])
<1>1. PICK Q : Q = [P EXCEPT ![type] = @ \cup {x}]
  OBVIOUS
<1>2. Q[type] = P[type] \cup {x} /\ \A t : t # type => Q[t] = P[t]
  BY <1>1
<1>3. ASSUME NEW k \in DOMAIN table, table[k].section # "Undefined", NEW y \in Q[table[k].section]
      PROVE  Covers(table[k], y)
  <2>1. CASE y \in P[table[k].section]
    BY <1>3, <2>1 DEF CoverIn
  <2>2. CASE y \notin P[table[k].section]
    <3>1. table[k].section = type /\ y = x
      BY <1>2, <1>3, <2>2
    <3> QED BY <3>1 DEF Covers
  <2> QED BY <2>1, <2>2
<1> QED BY <1>1, <1>3 DEF CoverIn

Names == /\ DOMAIN Globals \subseteq Nat /\ DOMAIN Functions \subseteq Nat
         /\ \A g \in DOMAIN Globals : SectionOf(Globals[g]) \in SectionTypes \ {"Text"}

\* The functions and globals of a module are numbered, and no global is code.
LEMMA NamesAre == Inv => Names
<1> SUFFICES ASSUME Inv PROVE Names
  OBVIOUS
<1>1. Globals \in Seq(GlobalVars) /\ Functions \in Seq(MirFunctions)
  BY ModulesAssumption DEF Inv, PlaceInv, Globals, Functions
<1>2. DOMAIN Globals \subseteq Nat /\ DOMAIN Functions \subseteq Nat
  BY <1>1
<1>3. \A g \in DOMAIN Globals : SectionOf(Globals[g]) \in SectionTypes \ {"Text"}
  <2>1. \A g \in DOMAIN Globals : Globals[g] \in GlobalVars
    BY <1>1
  <2> QED BY <2>1 DEF SectionOf, SectionTypes, GlobalVars
<1> QED BY <1>2, <1>3 DEF Names

\* A name that is next has no symbol yet.
LEMMA NextIsNew ==
    ASSUME Names, NamesDistinct, NEW gl \in Nat, NEW pl \in Nat \X Nat \X Nat, NEW table,
           OriginIn(table, gl, pl, FALSE)
    PROVE  /\ \A g \in DOMAIN Globals : g >= gl => ~HasSymbol(table, Globals[g].name)
           /\ \A f \in DOMAIN Functions : f >= pl[1] /\ ~Functions[f].isDeclaration =>
                  ~HasSymbol(table, Functions[f].name)
<1>1. ASSUME NEW g \in DOMAIN Globals, g >= gl, NEW k \in DOMAIN table, table[k].name = Globals[g].name
      PROVE  FALSE
  <2>1. g \in Nat
    BY DEF Names
  <2>2. ~OfGlobal(table[k], gl)
    BY <1>1, <2>1 DEF OfGlobal, NamesDistinct, Names
  <2>3. ~OfFunction(table[k], pl)
    BY <1>1 DEF OfFunction, NamesDistinct
  <2> QED BY <2>2, <2>3 DEF OriginIn
<1>2. ASSUME NEW f \in DOMAIN Functions, f >= pl[1], ~Functions[f].isDeclaration,
             NEW k \in DOMAIN table, table[k].name = Functions[f].name
      PROVE  FALSE
  <2>1. f \in Nat
    BY DEF Names
  <2>2. ~OfGlobal(table[k], gl)
    BY <1>2 DEF OfGlobal, NamesDistinct
  <2>3. ~OfFunction(table[k], pl)
    BY <1>2, <2>1 DEF OfFunction, NamesDistinct, Names
  <2> QED BY <2>2, <2>3 DEF OriginIn
<1> QED BY <1>1, <1>2 DEF HasSymbol

Offsets(end) == end \in [SectionTypes -> Nat]

\* BeginFunction: the function starts behind all there is.
LEMMA EnterTable ==
    ASSUME Names, NEW P, NEW end, NEW off, NEW gl \in Nat, NEW pl \in Nat \X Nat \X Nat, NEW table, NEW late,
           TableIn(P, end, off, gl, pl, table, late), Offsets(end), pl[2] = 0,
           NEW up \in Nat, up >= end["Text"], NEW pl2 \in Nat \X Nat \X Nat, pl2[1] = pl[1], pl2[2] # 0
    PROVE  TableIn(P, [end EXCEPT !["Text"] = up], up, gl, pl2, table, late)
<1>1. PICK end2 : end2 = [end EXCEPT !["Text"] = up]
  OBVIOUS
<1>2. /\ end2["Text"] = up /\ \A t \in SectionTypes \ {"Text"} : end2[t] = end[t]
      /\ \A t \in SectionTypes : end[t] \in Nat
  BY <1>1, TextSection DEF Offsets
<1>3. \A t \in SectionTypes : end[t] <= end2[t] /\ end2[t] \in Nat
  BY <1>2
<1>4. \A f \in DOMAIN Functions : f \in Nat
  BY DEF Names
<1>5. PiecesIn(P, end, off, gl, pl)
  BY DEF TableIn
<1>6. \A t \in SectionTypes : \A x \in P[t] :
           x.at \in Nat /\ x.size \in Nat /\ x.at + x.size <= end2[t]
  BY <1>2, <1>3, <1>5 DEF PiecesIn
<1>7. ASSUME NEW x \in P["Text"]
      PROVE  /\ x.of[1] \in DOMAIN Functions /\ ~Functions[x.of[1]].isDeclaration
             /\ x.of[1] < pl[1] /\ x.at + x.size <= up
  <2>1. x.at \in Nat /\ x.size \in Nat /\ x.at + x.size <= end["Text"]
    BY <1>5, TextSection DEF PiecesIn
  <2> QED BY <1>2, <1>5, <2>1, TextSection DEF PiecesIn
<1>8. \A f \in DOMAIN Functions : f < pl[1] => ~(f = pl2[1])
  BY <1>4
<1>9. PiecesIn(P, end2, up, gl, pl2)
  BY <1>5, <1>6, <1>7, <1>8 DEF PiecesIn
<1>10. OriginIn(table, gl, pl2, late) /\ CompleteIn(table, gl, pl2)
  BY DEF TableIn, OriginIn, OfFunction, CompleteIn
<1> QED BY <1>1, <1>9, <1>10 DEF TableIn

\* BindBlock: the emission moves on inside the function.
LEMMA MoveTable ==
    ASSUME NEW P, NEW end, NEW off, NEW gl \in Nat, NEW pl \in Nat \X Nat \X Nat, NEW table, NEW late,
           TableIn(P, end, off, gl, pl, table, late),
           NEW pl2 \in Nat \X Nat \X Nat, pl2[1] = pl[1], pl2[2] # 0, pl[2] # 0
    PROVE  TableIn(P, end, off, gl, pl2, table, late)
<1>1. PiecesIn(P, end, off, gl, pl2)
  BY DEF TableIn, PiecesIn
<1>2. OriginIn(table, gl, pl2, late) /\ CompleteIn(table, gl, pl2)
  BY DEF TableIn, OriginIn, OfFunction, CompleteIn
<1> QED BY <1>1, <1>2 DEF TableIn

\* EmitInst: a piece more at the end of the text.
LEMMA EmitTable ==
    ASSUME Names, NEW P, DOMAIN P = SectionTypes, NEW end, NEW off \in Nat, NEW gl \in Nat,
           NEW pl \in Nat \X Nat \X Nat, NEW table,
           TableIn(P, end, off, gl, pl, table, FALSE), Offsets(end),
           pl[2] # 0, pl[1] \in DOMAIN Functions, ~Functions[pl[1]].isDeclaration,
           off <= end["Text"], NEW len \in Nat, NEW x, x = [of |-> pl, at |-> end["Text"], size |-> len],
           \A k \in DOMAIN table : table[k].section = "Text" =>
               table[k].offset \in Nat /\ table[k].size \in Nat /\ table[k].offset + table[k].size <= off
    PROVE  TableIn([P EXCEPT !["Text"] = @ \cup {x}], [end EXCEPT !["Text"] = @ + len], off, gl, pl, table, FALSE)
<1>1. PICK end2 : end2 = [end EXCEPT !["Text"] = @ + len]
  OBVIOUS
<1>2. PICK Q : Q = [P EXCEPT !["Text"] = @ \cup {x}]
  OBVIOUS
<1>3. PICK to \in Nat : to = end["Text"]
  BY TextSection DEF Offsets
<1>4. /\ end2["Text"] = to + len /\ \A t \in SectionTypes \ {"Text"} : end2[t] = end[t]
      /\ Q["Text"] = P["Text"] \cup {x} /\ \A t \in SectionTypes \ {"Text"} : Q[t] = P[t]
  BY <1>1, <1>2, <1>3, TextSection DEF Offsets
<1>5. x.of = pl /\ x.at = to /\ x.size = len
  BY <1>3
<1>6. PiecesIn(P, end, off, gl, pl)
  BY DEF TableIn
<1>7. PiecesIn(Q, end2, off, gl, pl)
  <2>1. ASSUME NEW t \in SectionTypes, NEW y \in Q[t]
        PROVE  y.at \in Nat /\ y.size \in Nat /\ y.at + y.size <= end2[t]
    <3>1. CASE t # "Text"
      BY <1>4, <1>6, <2>1, <3>1 DEF PiecesIn
    <3>2. CASE t = "Text" /\ y = x
      BY <1>4, <1>5, <3>2
    <3>3. CASE t = "Text" /\ y \in P["Text"]
      <4>1. y.at \in Nat /\ y.size \in Nat /\ y.at + y.size <= to
        BY <1>3, <1>6, <3>3, TextSection DEF PiecesIn
      <4> QED BY <1>4, <3>3, <4>1
    <3> QED BY <1>4, <2>1, <3>1, <3>2, <3>3
  <2>2. ASSUME NEW y \in Q["Text"]
        PROVE  /\ y.of[1] \in DOMAIN Functions /\ ~Functions[y.of[1]].isDeclaration
               /\ IF pl[2] # 0 /\ y.of[1] = pl[1] THEN off <= y.at
                  ELSE y.of[1] < pl[1] /\ (pl[2] # 0 => y.at + y.size <= off)
    <3>1. CASE y = x
      BY <1>3, <1>5, <3>1
    <3>2. CASE y \in P["Text"]
      BY <1>6, <3>2 DEF PiecesIn
    <3> QED BY <1>4, <3>1, <3>2
  <2>3. \A t \in SectionTypes \ {"Text"} : \A y \in Q[t] : y.of[1] \in DOMAIN Globals /\ y.of[1] < gl
    BY <1>4, <1>6 DEF PiecesIn
  <2> QED BY <2>1, <2>2, <2>3 DEF PiecesIn
<1>8. ASSUME NamesDistinct PROVE CoverIn(table, Q)
  <2>1. CoverIn(table, P) /\ OriginIn(table, gl, pl, FALSE)
    BY <1>8 DEF TableIn
  <2>2. ASSUME NEW k \in DOMAIN table, table[k].section = "Text"
        PROVE  ~Holds("Text", table[k].name, x.of) /\ Outside(table[k], x)
    <3>1. ~HasSymbol(table, Functions[pl[1]].name)
      <4>1. PICK f \in DOMAIN Functions : f = pl[1] /\ f >= pl[1] /\ ~Functions[f].isDeclaration
        OBVIOUS
      <4>2. ~HasSymbol(table, Functions[f].name)
        BY <1>8, <2>1, <4>1, NextIsNew
      <4> QED BY <4>1, <4>2
    <3>2. ~Holds("Text", table[k].name, x.of)
      BY <1>5, <3>1 DEF HasSymbol, Holds
    <3>3. Outside(table[k], x)
      BY <1>3, <1>5, <2>2 DEF Outside
    <3> QED BY <3>2, <3>3
  <2> QED BY <1>2, <2>1, <2>2, CoverPiece, TextSection
<1> QED BY <1>1, <1>2, <1>7, <1>8 DEF TableIn

\* Between two functions.
Leave(pl) == <<pl[1] + 1, 0, 0>>

\* Where that is.
LEMMA Left ==
    ASSUME NEW pl \in Nat \X Nat \X Nat
    PROVE  Leave(pl) \in Nat \X Nat \X Nat /\ Leave(pl)[1] = pl[1] + 1 /\ Leave(pl)[2] = 0
<1>1. pl[1] \in Nat /\ 0 \in Nat
  OBVIOUS
<1>2. PICK n \in Nat : n = pl[1] + 1
  BY <1>1
<1>3. Leave(pl) = <<n, 0, 0>>
  BY <1>2 DEF Leave
<1> QED BY <1>1, <1>2, <1>3

\* SkipDeclaration: a declaration has no symbol of its own.
LEMMA SkipTable ==
    ASSUME Names, NEW P, NEW end, NEW off, NEW gl \in Nat, NEW pl \in Nat \X Nat \X Nat, NEW table, NEW late,
           TableIn(P, end, off, gl, pl, table, late), pl[2] = 0,
           pl[1] \in DOMAIN Functions, Functions[pl[1]].isDeclaration
    PROVE  TableIn(P, end, off, gl, Leave(pl), table, late)
<1>1. PICK f \in Nat : f = pl[1]
  OBVIOUS
<1>2. PICK pl2 \in Nat \X Nat \X Nat : pl2 = Leave(pl) /\ pl2[1] = f + 1 /\ pl2[2] = 0
  BY <1>1, Left
<1>3. \A g \in DOMAIN Functions : g \in Nat /\ (g < f + 1 => g < f \/ g = f) /\ (g < f => g < f + 1)
  BY DEF Names
<1>4. PiecesIn(P, end, off, gl, pl2)
  BY <1>1, <1>2, <1>3 DEF TableIn, PiecesIn
<1>5. OriginIn(table, gl, pl2, late)
  BY <1>1, <1>2, <1>3 DEF TableIn, OriginIn, OfFunction
<1>6. CompleteIn(table, gl, pl2)
  BY <1>1, <1>2, <1>3 DEF TableIn, CompleteIn
<1> QED BY <1>2, <1>4, <1>5, <1>6 DEF TableIn

\* EndFunction: the symbol covers what was emitted since the function began.
LEMMA EndTable ==
    ASSUME Names, NEW P, NEW end, NEW off \in Nat, NEW gl \in Nat, NEW pl \in Nat \X Nat \X Nat, NEW table,
           TableIn(P, end, off, gl, pl, table, FALSE), Offsets(end), pl[2] # 0, off <= end["Text"],
           pl[1] \in DOMAIN Functions, ~Functions[pl[1]].isDeclaration,
           NEW s, s.name = Functions[pl[1]].name, s.section = "Text", s.offset = off, s.size = end["Text"] - off,
           NEW table2, OneMoreSymbol(table, s, table2)
    PROVE  TableIn(P, end, off, gl, Leave(pl), table2, FALSE)
<1>1. PICK f \in Nat : f = pl[1]
  OBVIOUS
<1>2. PICK pl2 \in Nat \X Nat \X Nat : pl2 = Leave(pl) /\ pl2[1] = f + 1 /\ pl2[2] = 0
  BY <1>1, Left
<1>3. \A g \in DOMAIN Functions : g \in Nat /\ (g < f + 1 => g < f \/ g = f) /\ (g < f => g < f + 1)
  BY DEF Names
<1>4. PiecesIn(P, end, off, gl, pl2)
  <2>1. PiecesIn(P, end, off, gl, pl)
    BY DEF TableIn
  <2>2. \A x \in P["Text"] : x.of[1] \in DOMAIN Functions /\ ~Functions[x.of[1]].isDeclaration /\ x.of[1] < f + 1
    BY <1>1, <1>3, <2>1 DEF PiecesIn
  <2> QED BY <1>2, <2>1, <2>2 DEF PiecesIn
<1>5. OriginIn(table2, gl, pl2, FALSE)
  <2>1. OfFunction(s, pl2)
    BY <1>1, <1>2 DEF OfFunction
  <2>2. OriginIn(table, gl, pl, FALSE)
    BY DEF TableIn
  <2>3. gl <= gl /\ pl[1] <= pl2[1]
    BY <1>1, <1>2
  <2>4. DOMAIN Globals \subseteq Nat /\ DOMAIN Functions \subseteq Nat
    BY DEF Names
  <2> QED BY <2>1, <2>2, <2>3, <2>4, OriginGrows
<1>6. CompleteIn(table2, gl, pl2)
  BY <1>1, <1>2, <1>3, SymbolsStay DEF TableIn, CompleteIn
<1>7. ASSUME NamesDistinct PROVE UniqueIn(table2) /\ CoverIn(table2, P)
  <2>1. UniqueIn(table) /\ CoverIn(table, P) /\ OriginIn(table, gl, pl, FALSE) /\ PiecesIn(P, end, off, gl, pl)
    BY <1>7 DEF TableIn
  <2>2. ~HasSymbol(table, s.name)
    <3>1. f \in DOMAIN Functions /\ f >= pl[1] /\ ~Functions[f].isDeclaration
      BY <1>1
    <3>2. ~HasSymbol(table, Functions[f].name)
      BY <1>7, <2>1, <3>1, NextIsNew
    <3> QED BY <1>1, <3>2
  <2>3. UniqueIn(table2)
    BY <2>1, <2>2, UniqueGrows
  <2>4. ASSUME NEW x \in P["Text"] PROVE Covers(s, x)
    <3>1. PICK to \in Nat : to = end["Text"] /\ off <= to
      BY TextSection DEF Offsets
    <3>2. x.at \in Nat /\ x.size \in Nat /\ x.at + x.size <= to
      BY <2>1, <3>1, TextSection DEF PiecesIn
    <3>3. Holds(s.section, s.name, x.of) <=> Functions[x.of[1]].name = Functions[f].name
      BY <1>1 DEF Holds
    <3>4. x.of[1] \in DOMAIN Functions /\ ~Functions[x.of[1]].isDeclaration
      BY <2>1 DEF PiecesIn
    <3>5. Holds(s.section, s.name, x.of) <=> x.of[1] = f
      BY <1>1, <1>7, <3>3, <3>4 DEF NamesDistinct
    <3>6. CASE x.of[1] = f
      <4>1. off <= x.at
        BY <1>1, <2>1, <3>6 DEF PiecesIn
      <4>2. off + (to - off) = to
        BY <3>1
      <4>3. s.offset + s.size = to
        BY <3>1, <4>2
      <4> QED BY <3>2, <3>5, <3>6, <4>1, <4>3 DEF Covers, Inside
    <3>7. CASE x.of[1] # f
      <4>1. x.at + x.size <= off
        BY <1>1, <2>1, <3>7 DEF PiecesIn
      <4> QED BY <3>5, <3>7, <4>1 DEF Covers, Outside
    <3> QED BY <3>6, <3>7
  <2>5. CoverIn(table2, P)
    BY <2>1, <2>4, CoverGrows
  <2> QED BY <2>3, <2>5
<1> QED BY <1>2, <1>4, <1>5, <1>6, <1>7 DEF TableIn

\* EmitGlobal of a declaration: a symbol, and nothing it would cover.
LEMMA DeclareTable ==
    ASSUME Names, NEW P, NEW end, NEW off, NEW gl \in Nat, NEW pl \in Nat \X Nat \X Nat, NEW table,
           TableIn(P, end, off, gl, pl, table, FALSE),
           gl \in DOMAIN Globals, Globals[gl].isDeclaration,
           NEW s, s.name = Globals[gl].name, s.section = "Undefined",
           NEW table2, OneMoreSymbol(table, s, table2)
    PROVE  TableIn(P, end, off, gl + 1, pl, table2, FALSE)
<1>1. \A g \in DOMAIN Globals : g \in Nat /\ (g < gl + 1 => g < gl \/ g = gl) /\ (g < gl => g < gl + 1)
  BY DEF Names
<1>2. PiecesIn(P, end, off, gl + 1, pl)
  BY <1>1 DEF TableIn, PiecesIn
<1>3. OriginIn(table2, gl + 1, pl, FALSE)
  <2>1. OfGlobal(s, gl + 1)
    BY DEF OfGlobal
  <2>2. OriginIn(table, gl, pl, FALSE)
    BY DEF TableIn
  <2>3. pl[1] \in Nat
    OBVIOUS
  <2>4. gl <= gl + 1 /\ gl + 1 \in Nat /\ pl[1] <= pl[1]
    BY <2>3
  <2>5. DOMAIN Globals \subseteq Nat /\ DOMAIN Functions \subseteq Nat
    BY DEF Names
  <2> QED BY <2>1, <2>2, <2>4, <2>5, OriginGrows
<1>4. CompleteIn(table2, gl + 1, pl)
  BY <1>1, SymbolsStay DEF TableIn, CompleteIn
<1>5. ASSUME NamesDistinct PROVE UniqueIn(table2) /\ CoverIn(table2, P)
  <2>1. UniqueIn(table) /\ CoverIn(table, P) /\ OriginIn(table, gl, pl, FALSE)
    BY <1>5 DEF TableIn
  <2>2. ~HasSymbol(table, s.name)
    <3>1. PICK g \in DOMAIN Globals : g = gl /\ g >= gl
      OBVIOUS
    <3>2. ~HasSymbol(table, Globals[g].name)
      BY <1>5, <2>1, <3>1, NextIsNew
    <3> QED BY <3>1, <3>2
  <2>3. s.name \notin Defined
    BY <1>5, DefinedIs DEF NamesDistinct
  <2>4. UniqueIn(table2)
    BY <2>1, <2>2, <2>3, UniqueGrows
  <2>5. CoverIn(table2, P)
    BY <2>1, CoverGrows
  <2> QED BY <2>4, <2>5
<1> QED BY <1>2, <1>3, <1>4, <1>5 DEF TableIn

\* EmitGlobal of a definition: a piece, aligned, and the symbol that covers it.
LEMMA GlobalTable ==
    ASSUME Names, NEW P, DOMAIN P = SectionTypes, NEW end, NEW off, NEW gl \in Nat, NEW pl \in Nat \X Nat \X Nat,
           NEW table, TableIn(P, end, off, gl, pl, table, FALSE), Offsets(end),
           gl \in DOMAIN Globals, ~Globals[gl].isDeclaration,
           NEW type, type = SectionOf(Globals[gl]), NEW at \in Nat, NEW size \in Nat, at >= end[type],
           NEW s, s.name = Globals[gl].name, s.section = type, s.offset = at, s.size = size,
           NEW x, x = [of |-> <<gl>>, at |-> at, size |-> size],
           \A k \in DOMAIN table : table[k].section = type =>
               table[k].offset \in Nat /\ table[k].size \in Nat /\ table[k].offset + table[k].size <= end[type],
           NEW table2, OneMoreSymbol(table, s, table2)
    PROVE  TableIn([P EXCEPT ![type] = @ \cup {x}], [end EXCEPT ![type] = at + size], off, gl + 1, pl, table2, FALSE)
<1>0. type \in SectionTypes \ {"Text"} /\ type # "Text" /\ type \in SectionTypes
  BY DEF Names
<1>1. \A g \in DOMAIN Globals : g \in Nat /\ (g < gl + 1 => g < gl \/ g = gl) /\ (g < gl => g < gl + 1)
  BY DEF Names
<1>2. PICK Q : Q = [P EXCEPT ![type] = @ \cup {x}]
  OBVIOUS
<1>3. PICK end2 : end2 = [end EXCEPT ![type] = at + size]
  OBVIOUS
<1>4. PICK to \in Nat : to = end[type] /\ to <= at
  BY <1>0 DEF Offsets
<1>5. /\ end2[type] = at + size /\ \A t \in SectionTypes \ {type} : end2[t] = end[t]
      /\ Q[type] = P[type] \cup {x} /\ \A t \in SectionTypes \ {type} : Q[t] = P[t]
  BY <1>0, <1>2, <1>3 DEF Offsets
<1>6. x.of = <<gl>> /\ x.at = at /\ x.size = size /\ x.of[1] = gl
  OBVIOUS
<1>7. PiecesIn(P, end, off, gl, pl)
  BY DEF TableIn
<1>8. PiecesIn(Q, end2, off, gl + 1, pl)
  <2>1. ASSUME NEW t \in SectionTypes, NEW y \in Q[t]
        PROVE  y.at \in Nat /\ y.size \in Nat /\ y.at + y.size <= end2[t]
    <3>1. CASE t # type
      BY <1>5, <1>7, <2>1, <3>1 DEF PiecesIn
    <3>2. CASE t = type /\ y = x
      BY <1>5, <1>6, <3>2
    <3>3. CASE t = type /\ y \in P[type]
      <4>1. y.at \in Nat /\ y.size \in Nat /\ y.at + y.size <= to
        BY <1>0, <1>4, <1>7, <3>3 DEF PiecesIn
      <4> QED BY <1>4, <1>5, <3>3, <4>1
    <3> QED BY <1>5, <2>1, <3>1, <3>2, <3>3
  <2>2. Q["Text"] = P["Text"]
    BY <1>0, <1>5, TextSection
  <2>3. ASSUME NEW t \in SectionTypes \ {"Text"}, NEW y \in Q[t]
        PROVE  y.of[1] \in DOMAIN Globals /\ y.of[1] < gl + 1
    <3>1. CASE y \in P[t]
      BY <1>1, <1>7, <3>1 DEF PiecesIn
    <3>2. CASE y = x
      BY <1>6, <3>2
    <3> QED BY <1>5, <2>3, <3>1, <3>2
  <2> QED BY <1>7, <2>1, <2>2, <2>3 DEF PiecesIn
<1>9. OriginIn(table2, gl + 1, pl, FALSE)
  <2>1. OfGlobal(s, gl + 1)
    BY DEF OfGlobal
  <2>2. OriginIn(table, gl, pl, FALSE)
    BY DEF TableIn
  <2>3. pl[1] \in Nat
    OBVIOUS
  <2>4. gl <= gl + 1 /\ gl + 1 \in Nat /\ pl[1] <= pl[1]
    BY <2>3
  <2>5. DOMAIN Globals \subseteq Nat /\ DOMAIN Functions \subseteq Nat
    BY DEF Names
  <2> QED BY <2>1, <2>2, <2>4, <2>5, OriginGrows
<1>10. CompleteIn(table2, gl + 1, pl)
  BY <1>1, SymbolsStay DEF TableIn, CompleteIn
<1>11. ASSUME NamesDistinct PROVE UniqueIn(table2) /\ CoverIn(table2, Q)
  <2>1. UniqueIn(table) /\ CoverIn(table, P) /\ OriginIn(table, gl, pl, FALSE)
    BY <1>11 DEF TableIn
  <2>2. ~HasSymbol(table, s.name)
    <3>1. PICK g \in DOMAIN Globals : g = gl /\ g >= gl
      OBVIOUS
    <3>2. ~HasSymbol(table, Globals[g].name)
      BY <1>11, <2>1, <3>1, NextIsNew
    <3> QED BY <3>1, <3>2
  <2>3. s.section # "Undefined"
    BY <1>0 DEF SectionTypes
  <2>4. UniqueIn(table2)
    BY <2>1, <2>2, <2>3, UniqueGrows
  <2>5. ASSUME NEW k \in DOMAIN table, table[k].section = type
        PROVE  ~Holds(type, table[k].name, x.of) /\ Outside(table[k], x)
    <3>1. Holds(type, table[k].name, x.of) <=> Globals[gl].name = table[k].name
      BY <1>0, <1>6 DEF Holds
    <3>2. ~Holds(type, table[k].name, x.of)
      BY <2>2, <3>1 DEF HasSymbol
    <3>3. table[k].offset + table[k].size <= to /\ table[k].offset \in Nat /\ table[k].size \in Nat
      BY <1>4, <2>5
    <3>4. Outside(table[k], x)
      BY <1>4, <1>6, <3>3 DEF Outside
    <3> QED BY <3>2, <3>4
  <2>6. CoverIn(table, Q)
    BY <1>0, <1>2, <2>1, <2>5, CoverPiece
  <2>7. ASSUME NEW y \in Q[type] PROVE Covers(s, y)
    <3>1. Holds(type, s.name, y.of) <=> Globals[y.of[1]].name = Globals[gl].name
      BY <1>0 DEF Holds
    <3>2. CASE y = x
      <4>1. Inside(s, y)
        BY <1>6, <3>2 DEF Inside
      <4> QED BY <1>6, <3>1, <3>2, <4>1 DEF Covers
    <3>3. CASE y \in P[type]
      <4>1. y.of[1] \in DOMAIN Globals /\ y.of[1] < gl /\ y.at \in Nat /\ y.size \in Nat /\ y.at + y.size <= to
        BY <1>0, <1>4, <1>7, <3>3 DEF PiecesIn
      <4>2. Globals[y.of[1]].name # Globals[gl].name
        BY <1>1, <1>11, <4>1 DEF NamesDistinct
      <4>3. Outside(s, y)
        BY <1>4, <4>1 DEF Outside
      <4> QED BY <3>1, <4>2, <4>3 DEF Covers
    <3> QED BY <1>5, <3>2, <3>3
  <2>8. CoverIn(table2, Q)
    BY <2>6, <2>7, CoverGrows
  <2> QED BY <2>4, <2>8
<1> QED BY <1>2, <1>3, <1>8, <1>9, <1>10, <1>11 DEF TableIn

\* ReferToFunction: a name without a symbol is of nothing that has been emitted.
LEMMA ReferTable ==
    ASSUME Names, NEW P, NEW end, NEW off, NEW gl \in Nat, NEW pl \in Nat \X Nat \X Nat, NEW table,
           TableIn(P, end, off, gl, pl, table, TRUE),
           \A g \in DOMAIN Globals : g < gl, \A f \in DOMAIN Functions : f < pl[1],
           NEW s, s.section = "Undefined", ~HasSymbol(table, s.name),
           NEW table2, OneMoreSymbol(table, s, table2)
    PROVE  TableIn(P, end, off, gl, pl, table2, TRUE)
<1>1. OriginIn(table2, gl, pl, TRUE)
  <2>1. OriginIn(table, gl, pl, TRUE)
    BY DEF TableIn
  <2>2. pl[1] \in Nat
    OBVIOUS
  <2>3. gl <= gl /\ pl[1] <= pl[1]
    BY <2>2
  <2>4. DOMAIN Globals \subseteq Nat /\ DOMAIN Functions \subseteq Nat
    BY DEF Names
  <2> QED BY <2>1, <2>3, <2>4, OriginGrows
<1>2. CompleteIn(table2, gl, pl)
  BY SymbolsStay DEF TableIn, CompleteIn
<1>3. s.name \notin Defined
  BY DefinedIs DEF TableIn, CompleteIn
<1>4. ASSUME NamesDistinct PROVE UniqueIn(table2) /\ CoverIn(table2, P)
  <2>1. UniqueIn(table) /\ CoverIn(table, P)
    BY <1>4 DEF TableIn
  <2>2. UniqueIn(table2)
    BY <1>3, <2>1, UniqueGrows
  <2>3. CoverIn(table2, P)
    BY <2>1, CoverGrows
  <2> QED BY <2>2, <2>3
<1> QED BY <1>1, <1>2, <1>4 DEF TableIn

\* The engine emits the code of a function only if it has some, and there are
\* no globals left when it resolves what refers to them.
StageInv ==
    /\ place[2] # 0 => place[1] \in DOMAIN Functions /\ ~Functions[place[1]].isDeclaration
    /\ Late => global > Len(Globals) /\ place[1] > Len(Functions)

\* The invariant speaks of the module only through its functions and globals.
LEMMA SameTable ==
    ASSUME module' = module, NEW P, NEW end, NEW off, NEW gl, NEW pl, NEW table, NEW late,
           TableIn(P, end, off, gl, pl, table, late)
    PROVE  TableIn(P, end, off, gl, pl, table, late)'
<1>1. Functions' = Functions /\ Globals' = Globals
  BY DEF Functions, Globals
<1>2. PiecesIn(P, end, off, gl, pl)'
  BY <1>1 DEF TableIn, PiecesIn
<1>3. OriginIn(table, gl, pl, late)'
  BY <1>1 DEF TableIn, OriginIn, OfGlobal, OfFunction, SectionOf
<1>4. CompleteIn(table, gl, pl)'
  BY <1>1 DEF TableIn, CompleteIn, HasSymbol
<1>5. NamesDistinct' <=> NamesDistinct
  BY <1>1 DEF NamesDistinct
<1>6. Defined' = Defined
  BY <1>1 DEF Defined, NamesOf
<1>7. UniqueIn(table) => UniqueIn(table)'
  BY <1>6 DEF UniqueIn
<1>8. \A type, name, of : Holds(type, name, of)' <=> Holds(type, name, of)
  BY <1>1 DEF Holds
<1>9. CoverIn(table, P) => CoverIn(table, P)'
  BY <1>8 DEF CoverIn, Covers, Inside, Outside
<1> QED BY <1>2, <1>3, <1>4, <1>5, <1>7, <1>9 DEF TableIn

\* What a step makes of the sections and the symbols.
LEMMA TableNext ==
    ASSUME module' = module, NEW P, NEW end, NEW off, NEW gl, NEW pl, NEW table, NEW late,
           TableIn(P, end, off, gl, pl, table, late),
           P = AllPieces', end = cursorOffset', off = functionOffset', gl = global', pl = place',
           table = symbols', late <=> Late'
    PROVE  TableInv'
<1>1. TableIn(P, end, off, gl, pl, table, late)'
  BY SameTable
<1>2. OriginIn(table, gl, pl, late)' => OriginIn(symbols, global, place, Late)'
  BY DEF OriginIn, OfGlobal, OfFunction
<1>3. PiecesIn(P, end, off, gl, pl)' => PiecesIn(AllPieces, cursorOffset, functionOffset, global, place)'
  OBVIOUS
<1>4. CompleteIn(table, gl, pl)' => CompleteIn(symbols, global, place)'
  OBVIOUS
<1>5. UniqueIn(table)' => UniqueIn(symbols)'
  OBVIOUS
<1>6. CoverIn(table, P)' => CoverIn(symbols, AllPieces)'
  OBVIOUS
<1> QED BY <1>1, <1>2, <1>3, <1>4, <1>5, <1>6 DEF TableIn, TableInv

\* The pieces stay where no section changes.
LEMMA SamePieces == ASSUME stream' = stream PROVE AllPieces' = AllPieces
BY DEF AllPieces, Pieces

\* EmitGlobal puts a piece, aligned, at the end of a section.
LEMMA GlobalPieces ==
    ASSUME Inv, StreamInv, EmitGlobal, NEW g, g = Globals[global], ~g.isDeclaration,
           NEW x, x = [of |-> <<global>>, at |-> OffsetOf(g), size |-> SizeOf(g)]
    PROVE  AllPieces' = [AllPieces EXCEPT ![SectionOf(g)] = @ \cup {x}]
<1>1. PICK type : type = SectionOf(g)
  OBVIOUS
<1>2. PICK size : size = SizeOf(g)
  OBVIOUS
<1>3. PICK a : a = AlignmentOf(g)
  OBVIOUS
<1>4. size \in Nat /\ a \in Nat \ {0} /\ type \in SectionTypes \ {"Text"} /\ global \in Nat
  BY <1>1, <1>2, <1>3, GlobalShape DEF EmitGlobal, Inv, PlaceInv
<1>5. stream' = [stream EXCEPT ![type] = @ \o <<Align(a), Data(size, <<global>>)>>]
  BY <1>1, <1>2, <1>3 DEF EmitGlobal
<1>6. PICK first \in AllNodes : first = Align(a)
  BY <1>4, NodesAre
<1>7. PICK second \in AllNodes : second = Data(size, <<global>>)
  BY <1>4, NodesAre
<1>8. PICK nodes \in Seq(AllNodes) : nodes = stream[type] /\ SizesSet(nodes) /\ cursorOffset[type] = EndOf(nodes)
  BY <1>4, SectionIs
<1>9. first.kind = "Align" => first.size # 0
  BY <1>4, <1>6 DEF Align
<1>10. PICK mid \in Seq(AllNodes) : mid = Append(nodes, first)
  BY <1>6, <1>8, Appended
<1>11. EndOf(mid) = OffsetOf(g)
  <2>1. EndOf(mid) = After(EndOf(nodes), first)
    BY <1>6, <1>8, <1>9, <1>10, OneNode
  <2>2. After(EndOf(nodes), first) = AlignUp(EndOf(nodes), a)
    BY <1>6, AfterIs
  <2> QED BY <1>1, <1>3, <1>8, <2>1, <2>2 DEF OffsetOf
<1>12. Pieces(mid) = Pieces(nodes)
  <2>1. Pieces(mid) = Pieces(nodes) \cup NewPieces(first, EndOf(nodes))
    BY <1>6, <1>8, <1>10, PiecesAppend
  <2>2. NewPieces(first, EndOf(nodes)) = {}
    BY <1>6, NoPieces
  <2> QED BY <2>1, <2>2
<1>13. Pieces(Append(mid, second)) = Pieces(nodes) \cup {x}
  <2>1. Pieces(Append(mid, second)) = Pieces(mid) \cup NewPieces(second, EndOf(mid))
    BY <1>7, <1>10, PiecesAppend
  <2>2. NewPieces(second, EndOf(mid)) = {x}
    BY <1>2, <1>7, <1>11, NoPieces
  <2> QED BY <1>12, <2>1, <2>2
<1>14. stream \in [SectionTypes -> Seq(AllNodes)]
  BY DEF StreamInv
<1>15. nodes \o <<first, second>> = Append(mid, second)
  BY <1>6, <1>7, <1>8, <1>10, ConcatTwo
<1>16. stream'[type] = Append(mid, second) /\ \A t \in SectionTypes \ {type} : stream'[t] = stream[t]
  BY <1>4, <1>5, <1>6, <1>7, <1>8, <1>14, <1>15
<1> QED BY <1>1, <1>4, <1>8, <1>13, <1>16 DEF AllPieces

\* EmitGlobal.
LEMMA GlobalKeepsTable == ASSUME Inv, StreamInv, StageInv, TableInv, EmitGlobal PROVE TableInv'
<1>1. PICK gl \in Nat : gl = global
  BY DEF Inv, PlaceInv
<1>2. gl \in DOMAIN Globals
  <2>1. Globals \in Seq(GlobalVars)
    BY ModulesAssumption DEF Inv, PlaceInv, Globals
  <2> QED BY <1>1, <2>1 DEF EmitGlobal, Inv, PlaceInv
<1>3. PICK pl \in Nat \X Nat \X Nat : pl = place
  BY DEF Inv, PlaceInv
<1>4. PICK P : P = AllPieces /\ DOMAIN P = SectionTypes
  <2>1. DOMAIN AllPieces = SectionTypes
    BY DEF AllPieces
  <2> QED BY <2>1
<1>5. PICK end : end = cursorOffset /\ Offsets(end)
  BY DEF Inv, OffsetInv, Offsets
<1>6. PICK table : table = symbols
  OBVIOUS
<1>7. PICK g : g = Globals[gl]
  OBVIOUS
<1>8. PICK type : type = SectionOf(g)
  OBVIOUS
<1>9. PICK off : off = functionOffset
  OBVIOUS
<1>10. ~Late /\ ~Late' /\ UNCHANGED <<module, place, functionOffset>> /\ global' = gl + 1
  BY <1>1 DEF EmitGlobal, Late
<1>11. TableIn(P, end, off, gl, pl, table, FALSE)
  <2>1. OriginIn(symbols, global, place, Late) => OriginIn(table, gl, pl, FALSE)
    BY <1>1, <1>3, <1>6, <1>10 DEF OriginIn
  <2> QED BY <1>1, <1>3, <1>4, <1>5, <1>6, <1>9, <2>1 DEF TableInv, TableIn
<1>12. Names
  BY NamesAre
<1>13. CASE g.isDeclaration
  <2>1. PICK s : s = Symbol(g, "Undefined", 0, 0, FALSE)
    OBVIOUS
  <2>2. symbols' = Append(symbols, s) /\ UNCHANGED <<stream, cursorOffset>>
    BY <1>1, <1>7, <1>13, <2>1 DEF EmitGlobal
  <2>3. PICK table2 : table2 = symbols' /\ OneMoreSymbol(table, s, table2)
    BY <1>6, <2>2, AppendSymbol DEF Inv
  <2>4. s.name = Globals[gl].name /\ s.section = "Undefined"
    BY <1>7, <2>1 DEF Symbol
  <2>5. TableIn(P, end, off, gl + 1, pl, table2, FALSE)
    BY <1>2, <1>7, <1>11, <1>12, <1>13, <2>3, <2>4, DeclareTable
  <2>6. P = AllPieces'
    BY <1>4, <2>2, SamePieces
  <2> QED BY <1>3, <1>5, <1>9, <1>10, <2>2, <2>3, <2>5, <2>6, TableNext
<1>14. CASE ~g.isDeclaration
  <2>1. PICK size : size = SizeOf(g)
    OBVIOUS
  <2>2. PICK a : a = AlignmentOf(g)
    OBVIOUS
  <2>3. size \in Nat /\ a \in Nat \ {0} /\ type \in SectionTypes \ {"Text"}
    BY <1>1, <1>7, <1>8, <2>1, <2>2, GlobalShape DEF EmitGlobal, Inv
  <2>4. PICK to \in Nat : to = end[type]
    BY <1>5, <2>3 DEF Offsets
  <2>5. PICK at \in Nat : at = AlignUp(to, a) /\ at >= to
    BY <2>3, <2>4, AlignUpGrows
  <2>6. PICK s : s = Symbol(g, type, at, size, FALSE)
    OBVIOUS
  <2>7. /\ stream' = [stream EXCEPT ![type] = @ \o <<Align(a), Data(size, <<gl>>)>>]
        /\ cursorOffset' = [cursorOffset EXCEPT ![type] = AlignUp(@, a) + size]
        /\ symbols' = Append(symbols, s)
    BY <1>1, <1>5, <1>7, <1>8, <1>14, <2>1, <2>2, <2>4, <2>5, <2>6 DEF EmitGlobal, OffsetOf
  <2>8. PICK table2 : table2 = symbols' /\ OneMoreSymbol(table, s, table2)
    BY <1>6, <2>7, AppendSymbol DEF Inv
  <2>9. PICK x : x = [of |-> <<gl>>, at |-> at, size |-> size]
    OBVIOUS
  <2>10. s.name = Globals[gl].name /\ s.section = type /\ s.offset = at /\ s.size = size
    BY <1>7, <2>6 DEF Symbol
  <2>11. \A k \in DOMAIN table : table[k].section = type =>
             table[k].offset \in Nat /\ table[k].size \in Nat /\ table[k].offset + table[k].size <= end[type]
    <3>1. symbols \in Seq(SymbolSet)
      BY DEF Inv, SymbolInv
    <3>2. \A k \in DOMAIN symbols : symbols[k] \in SymbolSet
      BY <3>1
    <3>3. \A k \in DOMAIN symbols : symbols[k].offset \in Nat /\ symbols[k].size \in Nat
      BY <3>2 DEF SymbolSet
    <3>4. type # "Undefined"
      BY <2>3 DEF SectionTypes
    <3>5. \A k \in DOMAIN symbols : symbols[k].section = type => End(symbols[k]) <= cursorOffset[type]
      BY <3>4 DEF Inv, SymbolInv
    <3> QED BY <1>5, <1>6, <3>3, <3>5 DEF End
  <2>12. PICK end2 : end2 = [end EXCEPT ![type] = at + size]
    OBVIOUS
  <2>13. end2 = cursorOffset'
    BY <1>5, <2>3, <2>4, <2>5, <2>7, <2>12 DEF Offsets
  <2>14. PICK Q : Q = [P EXCEPT ![type] = @ \cup {x}]
    OBVIOUS
  <2>15. Q = AllPieces'
    <3>1. OffsetOf(g) = at /\ global \in DOMAIN Globals
      BY <1>1, <1>2, <1>5, <1>8, <2>2, <2>4, <2>5 DEF OffsetOf
    <3>2. AllPieces' = [AllPieces EXCEPT ![type] = @ \cup {x}]
      BY <1>1, <1>7, <1>8, <1>14, <2>1, <2>9, <3>1, GlobalPieces
    <3> QED BY <1>4, <2>14, <3>2
  <2>16. TableIn(Q, end2, off, gl + 1, pl, table2, FALSE)
    <3>1. type = SectionOf(Globals[gl]) /\ at >= end[type] /\ ~Globals[gl].isDeclaration
      BY <1>7, <1>8, <1>14, <2>4, <2>5
    <3> QED BY <1>2, <1>4, <1>5, <1>11, <1>12, <2>1, <2>3, <2>8, <2>9, <2>10, <2>11, <2>12, <2>14, <3>1, GlobalTable
  <2> QED BY <1>3, <1>9, <1>10, <2>8, <2>13, <2>15, <2>16, TableNext
<1> QED BY <1>13, <1>14

\* The invariant for constants that stand for the state: while the code is
\* emitted no symbol came with a reference.
Now(P, end, off, gl, pl, table) ==
    /\ off \in Nat /\ gl \in Nat /\ pl \in Nat \X Nat \X Nat
    /\ P = AllPieces /\ DOMAIN P = SectionTypes /\ end = cursorOffset /\ Offsets(end)
    /\ off = functionOffset /\ gl = global /\ pl = place /\ table = symbols
    /\ ~Late => TableIn(P, end, off, gl, pl, table, FALSE)
    /\ Late => TableIn(P, end, off, gl, pl, table, TRUE)

\* There are such constants.
LEMMA TableNow ==
    ASSUME Inv, TableInv
    PROVE  \E P, end, off, gl, pl, table : Now(P, end, off, gl, pl, table)
<1>1. DOMAIN AllPieces = SectionTypes
  BY DEF AllPieces
<1>2. Offsets(cursorOffset) /\ functionOffset \in Nat
  BY DEF Inv, OffsetInv, Offsets
<1>3. global \in Nat /\ place \in Nat \X Nat \X Nat
  BY DEF Inv, PlaceInv
<1>4. ~Late => OriginIn(symbols, global, place, FALSE)
  BY DEF TableInv, TableIn, OriginIn
<1>5. Late => OriginIn(symbols, global, place, TRUE)
  BY DEF TableInv, TableIn, OriginIn
<1>6. /\ ~Late => TableIn(AllPieces, cursorOffset, functionOffset, global, place, symbols, FALSE)
      /\ Late => TableIn(AllPieces, cursorOffset, functionOffset, global, place, symbols, TRUE)
  BY <1>4, <1>5 DEF TableInv, TableIn
<1>7. PICK P : P = AllPieces
  OBVIOUS
<1>8. PICK end : end = cursorOffset
  OBVIOUS
<1>9. PICK off \in Nat : off = functionOffset
  BY <1>2
<1>10. PICK gl \in Nat : gl = global
  BY <1>3
<1>11. PICK pl \in Nat \X Nat \X Nat : pl = place
  BY <1>3
<1>12. PICK table : table = symbols
  OBVIOUS
<1>13. /\ P = AllPieces /\ DOMAIN P = SectionTypes /\ end = cursorOffset /\ Offsets(end)
       /\ off = functionOffset /\ gl = global /\ pl = place /\ table = symbols
       /\ ~Late => TableIn(P, end, off, gl, pl, table, FALSE)
       /\ Late => TableIn(P, end, off, gl, pl, table, TRUE)
       /\ off \in Nat /\ gl \in Nat /\ pl \in Nat \X Nat \X Nat
  BY <1>1, <1>2, <1>6, <1>7, <1>8, <1>9, <1>10, <1>11, <1>12
<1> QED BY <1>13 DEF Now

\* SkipDeclaration.
LEMMA SkipKeepsTable == ASSUME Inv, TextInv, TableInv, SkipDeclaration PROVE TableInv'
<1>0. PICK P, end, off, gl, pl, table : Now(P, end, off, gl, pl, table)
  BY TableNow
<1>1. /\ off \in Nat /\ gl \in Nat /\ pl \in Nat \X Nat \X Nat
      /\ P = AllPieces /\ end = cursorOffset /\ off = functionOffset /\ gl = global /\ pl = place
      /\ table = symbols /\ (~Late => TableIn(P, end, off, gl, pl, table, FALSE))
  BY <1>0 DEF Now
<1>2. /\ ~Late /\ ~Late' /\ pl[2] = 0 /\ place' = Leave(pl) /\ pl[1] \in DOMAIN Functions
      /\ Functions[pl[1]].isDeclaration
      /\ UNCHANGED <<module, global, stream, cursorOffset, functionOffset, symbols>>
  BY <1>1, FunctionsWellFormed DEF SkipDeclaration, ReadyFor, Late, Leave, emission, WellFormed
<1>3. TableIn(P, end, off, gl, Leave(pl), table, FALSE)
  BY <1>1, <1>2, NamesAre, SkipTable
<1>4. PICK pl2 : pl2 = Leave(pl)
  OBVIOUS
<1>5. P = AllPieces'
  BY <1>1, <1>2, SamePieces
<1> QED BY <1>1, <1>2, <1>3, <1>4, <1>5, TableNext

\* BeginFunction emits nothing that would be a piece.
LEMMA BeginPieces == ASSUME Inv, StreamInv, BeginFunction PROVE AllPieces' = AllPieces
<1>1. PICK first \in AllNodes : first = Align(FunctionAlignment) /\ (first.kind = "Align" => first.size # 0)
  <2>1. FunctionAlignment \in Nat /\ FunctionAlignment # 0
    BY DEF FunctionAlignment
  <2>2. Align(FunctionAlignment) \in AllNodes
    BY <2>1, NodesAre
  <2>3. Align(FunctionAlignment).size = FunctionAlignment
    BY DEF Align
  <2> QED BY <2>1, <2>2, <2>3
<1>2. PICK second \in AllNodes : second = Label(0)
  BY NodesAre
<1>3. PICK nodes \in Seq(AllNodes) : nodes = stream["Text"] /\ SizesSet(nodes)
  BY TextSection, SectionIs
<1>4. PICK mid \in Seq(AllNodes) : mid = Append(nodes, first)
  BY <1>1, <1>3, Appended
<1>5. Pieces(mid) = Pieces(nodes)
  <2>1. Pieces(mid) = Pieces(nodes) \cup NewPieces(first, EndOf(nodes))
    BY <1>1, <1>3, <1>4, PiecesAppend
  <2>2. NewPieces(first, EndOf(nodes)) = {}
    BY <1>1, NoPieces
  <2> QED BY <2>1, <2>2
<1>6. Pieces(Append(mid, second)) = Pieces(mid)
  <2>1. Pieces(Append(mid, second)) = Pieces(mid) \cup NewPieces(second, EndOf(mid))
    BY <1>2, <1>4, PiecesAppend
  <2>2. NewPieces(second, EndOf(mid)) = {}
    BY <1>2, NoPieces
  <2> QED BY <2>1, <2>2
<1>7. nodes \o <<first, second>> = Append(mid, second)
  BY <1>1, <1>2, <1>3, <1>4, ConcatTwo
<1>8. stream'["Text"] = Append(mid, second) /\ \A t \in SectionTypes \ {"Text"} : stream'[t] = stream[t]
  <2>1. stream \in [SectionTypes -> Seq(AllNodes)]
    BY DEF StreamInv
  <2>2. stream' = [stream EXCEPT !["Text"] = @ \o <<Align(FunctionAlignment), Label(0)>>]
    BY DEF BeginFunction
  <2> QED BY <2>2, <1>1, <1>2, <1>3, <1>7, <2>1, TextSection
<1> QED BY <1>3, <1>5, <1>6, <1>8 DEF AllPieces

\* Nor does BindBlock.
LEMMA BindPieces == ASSUME Inv, StreamInv, BindBlock PROVE AllPieces' = AllPieces
<1>1. PICK n \in AllNodes : n = Label(Functions[place[1]].blocks[place[2]].id)
  <2>1. Functions[place[1]].blocks[place[2]].id \in Nat
    <3>1. place[1] \in 1 .. Len(Functions) /\ Functions \in Seq(MirFunctions)
      BY ModulesAssumption DEF BindBlock, Inv, PlaceInv, InFunction, ReadyFor, Functions
    <3>2. Functions[place[1]] \in MirFunctions
      BY <3>1, ElementsIn
    <3>3. Functions[place[1]].blocks \in Seq(Blocks)
      BY <3>2 DEF MirFunctions
    <3>4. place[2] \in 1 .. Len(Functions[place[1]].blocks)
      BY DEF BindBlock, InFunction
    <3>5. Functions[place[1]].blocks[place[2]] \in Blocks
      BY <3>3, <3>4, ElementsIn
    <3> QED BY <3>5 DEF Blocks
  <2> QED BY <2>1, NodesAre
<1>2. stream' = [stream EXCEPT !["Text"] = Append(@, n)]
  BY <1>1 DEF BindBlock
<1>3. AllPieces' = [AllPieces EXCEPT !["Text"] = @ \cup NewPieces(n, cursorOffset["Text"])]
  BY <1>1, <1>2, TextPieces
<1>4. NewPieces(n, cursorOffset["Text"]) = {}
  BY <1>1, NoPieces
<1>5. AllPieces = [AllPieces EXCEPT !["Text"] = @ \cup {}]
  BY DEF AllPieces
<1> QED BY <1>3, <1>4, <1>5

\* EmitInst puts a piece at the end of the text.
LEMMA EmitPieces ==
    ASSUME Inv, StreamInv, EmitInst,
           NEW x, x = [of |-> place, at |-> cursorOffset["Text"], size |-> LengthOf(InstOf(place))]
    PROVE  LengthOf(InstOf(place)) \in Nat /\ AllPieces' = [AllPieces EXCEPT !["Text"] = @ \cup {x}]
<1>1. PICK len \in Nat : len = LengthOf(Code(place)[place[3]])
  BY InstShape DEF EmitInst, Inv
<1>2. len = LengthOf(InstOf(place))
  BY <1>1 DEF InstOf
<1>3. place \in Nat \X Nat \X Nat
  BY DEF Inv, PlaceInv
<1>4. PICK n \in AllNodes : n = Data(len, place)
  BY <1>3, NodesAre
<1>5. stream' = [stream EXCEPT !["Text"] = Append(@, n)]
  BY <1>1, <1>4 DEF EmitInst
<1>6. AllPieces' = [AllPieces EXCEPT !["Text"] = @ \cup NewPieces(n, cursorOffset["Text"])]
  BY <1>4, <1>5, TextPieces
<1>7. NewPieces(n, cursorOffset["Text"]) = {x}
  BY <1>2, <1>4, NoPieces
<1> QED BY <1>1, <1>2, <1>6, <1>7

\* BeginFunction.
LEMMA BeginKeepsTable == ASSUME Inv, StreamInv, TableInv, BeginFunction PROVE TableInv'
<1>0. PICK P, end, off, gl, pl, table : Now(P, end, off, gl, pl, table)
  BY TableNow
<1>1. /\ off \in Nat /\ gl \in Nat /\ pl \in Nat \X Nat \X Nat
      /\ P = AllPieces /\ DOMAIN P = SectionTypes /\ end = cursorOffset /\ Offsets(end)
      /\ gl = global /\ pl = place
      /\ table = symbols /\ (~Late => TableIn(P, end, off, gl, pl, table, FALSE))
  BY <1>0 DEF Now
<1>2. /\ ~Late /\ ~Late' /\ pl[2] = 0 /\ place' = <<pl[1], 1, 0>>
      /\ UNCHANGED <<module, global, symbols>>
  BY <1>1 DEF BeginFunction, ReadyFor, Late
<1>3. PICK to \in Nat : to = end["Text"]
  BY <1>1, TextSection DEF Offsets
<1>4. PICK up \in Nat : up = AlignUp(to, FunctionAlignment) /\ up >= to
  BY <1>3, AlignUpGrows DEF FunctionAlignment
<1>5. /\ functionOffset' = up /\ cursorOffset' = [end EXCEPT !["Text"] = up]
      /\ stream' = [stream EXCEPT !["Text"] = @ \o <<Align(FunctionAlignment), Label(0)>>]
  BY <1>1, <1>3, <1>4 DEF BeginFunction
<1>6. P = AllPieces'
  BY <1>1, BeginPieces
<1>7. PICK pl2 \in Nat \X Nat \X Nat : pl2 = <<pl[1], 1, 0>> /\ pl2[1] = pl[1] /\ pl2[2] # 0
  <2>1. pl[1] \in Nat
    BY <1>1
  <2>2. <<pl[1], 1, 0>> \in Nat \X Nat \X Nat /\ <<pl[1], 1, 0>>[1] = pl[1] /\ <<pl[1], 1, 0>>[2] = 1
    BY <2>1
  <2> QED BY <2>2
<1>8. PICK end2 : end2 = [end EXCEPT !["Text"] = up]
  OBVIOUS
<1>9. up >= end["Text"]
  BY <1>3, <1>4
<1>10. TableIn(P, end2, up, gl, pl2, table, FALSE)
  BY <1>1, <1>2, <1>7, <1>8, <1>9, NamesAre, EnterTable
<1> QED BY <1>1, <1>2, <1>5, <1>6, <1>7, <1>8, <1>10, TableNext

\* BindBlock: a label.
LEMMA BindKeepsTable == ASSUME Inv, StreamInv, TableInv, BindBlock PROVE TableInv'
<1>0. PICK P, end, off, gl, pl, table : Now(P, end, off, gl, pl, table)
  BY TableNow
<1>1. /\ off \in Nat /\ gl \in Nat /\ pl \in Nat \X Nat \X Nat
      /\ P = AllPieces /\ end = cursorOffset /\ off = functionOffset /\ gl = global /\ pl = place
      /\ table = symbols /\ (~Late => TableIn(P, end, off, gl, pl, table, FALSE))
  BY <1>0 DEF Now
<1>2. /\ ~Late /\ ~Late' /\ pl[2] # 0 /\ place' = NextPlace(pl) /\ InFunction(place[1])
      /\ UNCHANGED <<module, global, symbols, cursorOffset, functionOffset>>
  BY <1>1 DEF BindBlock, Late, InFunction, ReadyFor
<1>3. PICK pl2 \in Nat \X Nat \X Nat : pl2 = place' /\ pl2[1] = pl[1] /\ pl2[2] # 0
  BY <1>1, <1>2, NextPlaceShape DEF Inv
<1>4. P = AllPieces'
  BY <1>1, BindPieces
<1>5. TableIn(P, end, off, gl, pl2, table, FALSE)
  BY <1>1, <1>2, <1>3, MoveTable
<1> QED BY <1>1, <1>2, <1>3, <1>4, <1>5, TableNext

\* EmitInst: the bytes of an instruction.
LEMMA EmitKeepsTable == ASSUME Inv, StreamInv, StageInv, TableInv, EmitInst PROVE TableInv'
<1>0. PICK P, end, off, gl, pl, table : Now(P, end, off, gl, pl, table)
  BY TableNow
<1>1. /\ off \in Nat /\ gl \in Nat /\ pl \in Nat \X Nat \X Nat
      /\ P = AllPieces /\ DOMAIN P = SectionTypes /\ end = cursorOffset /\ Offsets(end)
      /\ off = functionOffset /\ gl = global /\ pl = place
      /\ table = symbols /\ (~Late => TableIn(P, end, off, gl, pl, table, FALSE))
  BY <1>0 DEF Now
<1>2. /\ ~Late /\ ~Late' /\ pl[2] # 0 /\ place' = NextPlace(pl) /\ InFunction(place[1]) /\ place[3] > 0
      /\ UNCHANGED <<module, global, symbols, functionOffset>>
      /\ Code(place)[place[3]].kind # "Unencodable"
  BY <1>1 DEF EmitInst, Late, InFunction, ReadyFor
<1>3. PICK pl2 \in Nat \X Nat \X Nat : pl2 = place' /\ pl2[1] = pl[1] /\ pl2[2] # 0
  BY <1>1, <1>2, NextPlaceShape DEF Inv
<1>4. PICK len \in Nat : len = LengthOf(Code(place)[place[3]])
  BY <1>2, InstShape DEF Inv
<1>5. PICK x : x = [of |-> pl, at |-> end["Text"], size |-> len]
  OBVIOUS
<1>6. PICK Q : Q = [P EXCEPT !["Text"] = @ \cup {x}]
  OBVIOUS
<1>7. PICK end2 : end2 = [end EXCEPT !["Text"] = @ + len]
  OBVIOUS
<1>8. end2 = cursorOffset' /\ stream' = [stream EXCEPT !["Text"] = Append(@, Data(len, pl))]
  BY <1>1, <1>4, <1>7 DEF EmitInst
<1>9. Q = AllPieces'
  <2>1. len = LengthOf(InstOf(place))
    BY <1>4 DEF InstOf
  <2>2. AllPieces' = [AllPieces EXCEPT !["Text"] = @ \cup {x}]
    BY <1>1, <1>5, <2>1, EmitPieces
  <2> QED BY <1>1, <1>6, <2>2
<1>10. pl[1] \in DOMAIN Functions /\ ~Functions[pl[1]].isDeclaration /\ off <= end["Text"]
  BY <1>1, <1>2 DEF StageInv, Inv, OffsetInv
<1>11. \A k \in DOMAIN table : table[k].section = "Text" =>
           table[k].offset \in Nat /\ table[k].size \in Nat /\ table[k].offset + table[k].size <= off
  <2>1. symbols \in Seq(SymbolSet)
    BY DEF Inv, SymbolInv
  <2>2. \A k \in DOMAIN symbols : symbols[k] \in SymbolSet
    BY <2>1
  <2>3. \A k \in DOMAIN symbols : symbols[k].offset \in Nat /\ symbols[k].size \in Nat
    BY <2>2 DEF SymbolSet
  <2>4. \A k \in DOMAIN symbols : symbols[k].section = "Text" => End(symbols[k]) <= functionOffset
    BY <1>1, <1>2 DEF Inv, SymbolInv
  <2> QED BY <1>1, <2>3, <2>4 DEF End
<1>12. TableIn(Q, end2, off, gl, pl, table, FALSE)
  BY <1>1, <1>2, <1>5, <1>6, <1>7, <1>10, <1>11, NamesAre, EmitTable
<1>13. TableIn(Q, end2, off, gl, pl2, table, FALSE)
  BY <1>1, <1>2, <1>3, <1>12, MoveTable
<1> QED BY <1>1, <1>2, <1>3, <1>8, <1>9, <1>13, TableNext

\* EndFunction.
LEMMA EndKeepsTable == ASSUME Inv, TextInv, StageInv, TableInv, EndFunction PROVE TableInv'
<1>0. PICK P, end, off, gl, pl, table : Now(P, end, off, gl, pl, table)
  BY TableNow
<1>1. /\ off \in Nat /\ gl \in Nat /\ pl \in Nat \X Nat \X Nat
      /\ P = AllPieces /\ end = cursorOffset /\ Offsets(end) /\ off = functionOffset /\ gl = global /\ pl = place
      /\ table = symbols /\ (~Late => TableIn(P, end, off, gl, pl, table, FALSE))
  BY <1>0 DEF Now
<1>2. PICK f : f = Functions[pl[1]]
  OBVIOUS
<1>3. PICK s : s = Symbol(f, "Text", off, end["Text"] - off, TRUE)
  OBVIOUS
<1>4. /\ ~Late /\ ~Late' /\ place' = Leave(pl) /\ pl[2] > Len(f.blocks)
      /\ symbols' = Append(symbols, s)
      /\ UNCHANGED <<module, global, stream, cursorOffset, functionOffset>>
  BY <1>1, <1>2, <1>3 DEF EndFunction, ReadyFor, Late, Leave
<1>5. pl[2] # 0
  <2>1. pl[1] \in 1 .. Len(Functions) /\ Functions \in Seq(MirFunctions)
    BY <1>1, ModulesAssumption DEF EndFunction, Inv, PlaceInv, ReadyFor, Functions
  <2>2. f \in MirFunctions
    BY <1>2, <2>1, ElementsIn
  <2>3. Len(f.blocks) \in Nat
    BY <2>2 DEF MirFunctions
  <2> QED BY <1>4, <2>3
<1>6. pl[1] \in DOMAIN Functions /\ ~Functions[pl[1]].isDeclaration /\ off <= end["Text"]
  BY <1>1, <1>5 DEF StageInv, Inv, OffsetInv
<1>7. s.name = Functions[pl[1]].name /\ s.section = "Text" /\ s.offset = off /\ s.size = end["Text"] - off
  BY <1>2, <1>3 DEF Symbol
<1>8. PICK table2 : table2 = symbols' /\ OneMoreSymbol(table, s, table2)
  BY <1>1, <1>4, AppendSymbol DEF Inv
<1>9. PICK pl2 : pl2 = Leave(pl)
  OBVIOUS
<1>10. TableIn(P, end, off, gl, pl2, table2, FALSE)
  BY <1>1, <1>4, <1>5, <1>6, <1>7, <1>8, <1>9, NamesAre, EndTable
<1>11. P = AllPieces'
  BY <1>1, <1>4, SamePieces
<1> QED BY <1>1, <1>4, <1>8, <1>9, <1>10, <1>11, TableNext

\* ReferToFunction.
LEMMA ReferKeepsTable == ASSUME Inv, StageInv, TableInv, ReferToFunction PROVE TableInv'
<1>0. PICK P, end, off, gl, pl, table : Now(P, end, off, gl, pl, table)
  BY TableNow
<1>1. /\ off \in Nat /\ gl \in Nat /\ pl \in Nat \X Nat \X Nat
      /\ P = AllPieces /\ end = cursorOffset /\ off = functionOffset /\ gl = global /\ pl = place
      /\ table = symbols /\ (Late => TableIn(P, end, off, gl, pl, table, TRUE))
  BY <1>0 DEF Now
<1>2. /\ Late /\ Late' /\ UNCHANGED <<module, global, place, stream, cursorOffset, functionOffset>>
  BY DEF ReferToFunction, Resolving, Late, emission
<1>3. P = AllPieces'
  BY <1>1, <1>2, SamePieces
<1>4. PICK f : f = Functions[NextReloc.ref.id]
  OBVIOUS
<1>5. CASE IsDefined(f.name)
  <2>1. symbols' = table
    BY <1>1, <1>4, <1>5 DEF ReferToFunction
  <2> QED BY <1>1, <1>2, <1>3, <2>1, TableNext
<1>6. CASE ~IsDefined(f.name)
  <2>1. PICK s : s = UndefinedFunction(f)
    OBVIOUS
  <2>2. symbols' = Append(symbols, s)
    BY <1>4, <1>6, <2>1 DEF ReferToFunction
  <2>3. PICK table2 : table2 = symbols' /\ OneMoreSymbol(table, s, table2)
    BY <1>1, <2>2, AppendSymbol DEF Inv
  <2>4. s.section = "Undefined" /\ s.name = f.name
    BY <2>1 DEF UndefinedFunction, Symbol
  <2>5. ~HasSymbol(table, s.name)
    BY <1>1, <1>6, <2>4 DEF HasSymbol, IsDefined
  <2>6. (\A g \in DOMAIN Globals : g < gl) /\ (\A e \in DOMAIN Functions : e < pl[1])
    <3>1. Globals \in Seq(GlobalVars) /\ Functions \in Seq(MirFunctions)
      BY ModulesAssumption DEF Inv, PlaceInv, Globals, Functions
    <3>2. PICK m \in Nat, n \in Nat : m = Len(Globals) /\ n = Len(Functions)
      BY <3>1
    <3>3. DOMAIN Globals = 1 .. m /\ DOMAIN Functions = 1 .. n
      BY <3>1, <3>2
    <3>4. gl > m /\ pl[1] > n
      BY <1>1, <1>2, <3>2 DEF StageInv
    <3> QED BY <1>1, <3>2, <3>3, <3>4
  <2>7. TableIn(P, end, off, gl, pl, table2, TRUE)
    BY <1>1, <1>2, <2>3, <2>4, <2>5, <2>6, NamesAre, ReferTable
  <2> QED BY <1>1, <1>2, <1>3, <2>3, <2>7, TableNext
<1> QED BY <1>5, <1>6

\* The steps that emit nothing and give no name a symbol.
LEMMA OthersKeepTable ==
    ASSUME Inv, TableInv, RejectInst \/ Finalize \/ PatchBranch \/ ReferToGlobal \/ Write \/ UNCHANGED vars
    PROVE  TableInv'
<1>0. PICK P, end, off, gl, pl, table : Now(P, end, off, gl, pl, table)
  BY TableNow
<1>1. /\ off \in Nat /\ gl \in Nat /\ pl \in Nat \X Nat \X Nat
      /\ P = AllPieces /\ end = cursorOffset /\ off = functionOffset /\ gl = global /\ pl = place
      /\ table = symbols /\ (~Late => TableIn(P, end, off, gl, pl, table, FALSE))
      /\ (Late => TableIn(P, end, off, gl, pl, table, TRUE))
  BY <1>0 DEF Now
<1>2. UNCHANGED <<module, global, place, stream, cursorOffset, functionOffset, symbols>>
  BY DEF RejectInst, Finalize, PatchBranch, ReferToGlobal, Resolving, Write, vars, emission
<1>3. Late => Late'
  BY DEF RejectInst, Finalize, PatchBranch, ReferToGlobal, Resolving, Write, vars, Late, InFunction, ReadyFor
<1>4. P = AllPieces'
  BY <1>1, <1>2, SamePieces
<1>5. CASE Late
  BY <1>1, <1>2, <1>3, <1>4, <1>5, TableNext
<1>6. CASE ~Late /\ ~Late'
  BY <1>1, <1>2, <1>4, <1>6, TableNext
<1>7. CASE ~Late /\ Late'
  <2>1. TableIn(P, end, off, gl, pl, table, TRUE)
    BY <1>1, <1>7 DEF TableIn, OriginIn
  <2> QED BY <1>1, <1>2, <1>4, <1>7, <2>1, TableNext
<1> QED BY <1>5, <1>6, <1>7

\* Nothing has been emitted at first.
LEMMA InitTable == Init => StageInv /\ TableInv
<1> SUFFICES ASSUME Init PROVE StageInv /\ TableInv
  OBVIOUS
<1>1. place[2] = 0 /\ ~Late /\ symbols = <<>> /\ DOMAIN symbols = {}
  BY DEF Init, Late
<1>2. \A t \in SectionTypes : AllPieces[t] = {}
  <2>1. Pieces(<<>>) = {}
    BY DEF Pieces
  <2> QED BY <2>1 DEF Init, AllPieces
<1>3. StageInv
  BY <1>1 DEF StageInv
<1>4. PiecesIn(AllPieces, cursorOffset, functionOffset, global, place)
  BY <1>2, TextSection DEF PiecesIn
<1>5. OriginIn(symbols, global, place, Late) /\ UniqueIn(symbols) /\ CoverIn(symbols, AllPieces)
  BY <1>1 DEF OriginIn, UniqueIn, CoverIn
<1>6. CompleteIn(symbols, global, place)
  <2>1. Globals \in Seq(GlobalVars) /\ Functions \in Seq(MirFunctions)
    BY ModulesAssumption DEF Init, Globals, Functions
  <2>2. (\A g \in DOMAIN Globals : ~(g < 1)) /\ (\A f \in DOMAIN Functions : ~(f < 1))
    BY <2>1
  <2>3. global = 1 /\ place[1] = 1
    BY DEF Init
  <2> QED BY <2>2, <2>3 DEF CompleteIn
<1> QED BY <1>3, <1>4, <1>5, <1>6 DEF TableInv, TableIn

\* Every step keeps the stage of the emission.
LEMMA StepKeepsStage == Inv /\ TextInv /\ StageInv /\ [Next]_vars => StageInv'
<1> SUFFICES ASSUME Inv, TextInv, StageInv, [Next]_vars PROVE StageInv'
  OBVIOUS
<1>1. UNCHANGED module => Functions' = Functions /\ Globals' = Globals
  BY DEF Functions, Globals
<1>2. CASE EmitGlobal \/ SkipDeclaration \/ EndFunction
  <2>1. ~Late' /\ place'[2] = 0
    <3>1. CASE EmitGlobal
      <4>1. status' = status /\ status = "Emitting" /\ place' = place
        BY <3>1 DEF EmitGlobal
      <4>2. place[2] = 0
        BY <3>1 DEF EmitGlobal, Inv, PlaceInv
      <4> QED BY <4>1, <4>2 DEF Late
    <3>2. CASE SkipDeclaration \/ EndFunction
      <4>1. status' = status /\ status = "Emitting" /\ place' = <<place[1] + 1, 0, 0>>
        BY <3>2 DEF SkipDeclaration, EndFunction, ReadyFor
      <4>2. place'[2] = 0
        BY <4>1
      <4> QED BY <4>1, <4>2 DEF Late
    <3> QED BY <1>2, <3>1, <3>2
  <2> QED BY <2>1 DEF StageInv
<1>3. CASE BeginFunction
  <2>1. ~Late' /\ place' = <<place[1], 1, 0>> /\ UNCHANGED module
    BY <1>3 DEF BeginFunction, Late, ReadyFor
  <2>2. place[1] \in DOMAIN Functions /\ ~Functions[place[1]].isDeclaration
    BY <1>3, FunctionsWellFormed DEF BeginFunction, ReadyFor, WellFormed
  <2> QED BY <1>1, <2>1, <2>2 DEF StageInv
<1>4. CASE BindBlock \/ EmitInst
  <2>1. ~Late' /\ place' = NextPlace(place) /\ UNCHANGED module /\ InFunction(place[1])
    BY <1>4 DEF BindBlock, EmitInst, Late, InFunction, ReadyFor
  <2>2. place'[1] = place[1] /\ place[2] # 0
    BY <2>1, NextPlaceShape DEF Inv, InFunction
  <2> QED BY <1>1, <2>1, <2>2 DEF StageInv
<1>5. CASE RejectInst \/ Finalize \/ PatchBranch \/ ReferToFunction \/ ReferToGlobal \/ Write \/ UNCHANGED vars
  <2>1. UNCHANGED <<module, place, global>>
    BY <1>5 DEF RejectInst, Finalize, PatchBranch, ReferToFunction, ReferToGlobal, Resolving, Write, vars
  <2>2. Late' => Late \/ (global > Len(Globals) /\ place[1] > Len(Functions))
    BY <1>5 DEF RejectInst, Finalize, PatchBranch, ReferToFunction, ReferToGlobal, Resolving, Write, vars, Late
  <2> QED BY <1>1, <2>1, <2>2 DEF StageInv
<1> QED BY <1>2, <1>3, <1>4, <1>5 DEF Next

\* Every step keeps the symbols true to what they are of.
LEMMA StepKeepsTable == Inv /\ TextInv /\ StageInv /\ TableInv /\ [Next]_vars => TableInv'
<1> SUFFICES ASSUME Inv, TextInv, StageInv, TableInv, [Next]_vars PROVE TableInv'
  OBVIOUS
<1>1. StreamInv
  BY DEF TextInv
<1> QED BY <1>1, GlobalKeepsTable, SkipKeepsTable, BeginKeepsTable, BindKeepsTable, EmitKeepsTable,
           EndKeepsTable, ReferKeepsTable, OthersKeepTable DEF Next

\* The file has the symbols of the engine in some order.
SymbolsInFile(p) ==
    /\ p \in [DOMAIN symbols -> DOMAIN symbols]
    /\ \A j, k \in DOMAIN symbols : p[j] = p[k] => j = k
    /\ file.symbols = [k \in DOMAIN symbols |-> FileSymbol(symbols[p[k]])]
FileInv == status = "Written" => \E p : SymbolsInFile(p)

\* Write puts them there.
LEMMA StepKeepsFile == Inv /\ FileInv /\ [Next]_vars => FileInv'
<1> SUFFICES ASSUME Inv, FileInv, [Next]_vars PROVE FileInv'
  OBVIOUS
<1>1. CASE Write
  <2>1. PICK p : Permutes(p)
    BY <1>1, SortedPermutes DEF Inv
  <2>2. PICK table : table = symbols
    OBVIOUS
  <2>3. symbols' = table /\ target' = target /\ file'.symbols = [k \in DOMAIN table |-> FileSymbol(Sorted[k])]
    BY <1>1, <2>2 DEF Write
  <2>4. \A k \in DOMAIN table : Sorted[k] = table[p[k]]
    BY <2>1, <2>2 DEF Permutes
  <2>5. \A s : FileSymbol(s)' = FileSymbol(s)
    BY <2>3 DEF FileSymbol, Binding
  <2>6. file'.symbols = [k \in DOMAIN table |-> FileSymbol(table[p[k]])']
    BY <2>3, <2>4, <2>5
  <2>7. SymbolsInFile(p)'
    BY <2>1, <2>2, <2>3, <2>6 DEF SymbolsInFile, Permutes
  <2> QED BY <2>7 DEF FileInv
<1>2. CASE status = "Written"
  <2>1. UNCHANGED vars
    BY <1>2, WrittenStays
  <2>2. PICK p : SymbolsInFile(p)
    BY <1>2 DEF FileInv
  <2>3. SymbolsInFile(p)'
    BY <2>1, <2>2 DEF SymbolsInFile, vars, FileSymbol, Binding
  <2> QED BY <2>3 DEF FileInv
<1>3. CASE ~Write /\ status # "Written"
  <2>1. status' # "Written"
    BY <1>3 DEF Next, EmitGlobal, SkipDeclaration, BeginFunction, BindBlock, EmitInst, RejectInst,
         EndFunction, Finalize, PatchBranch, ReferToFunction, ReferToGlobal, Resolving, vars, InFunction, ReadyFor
  <2> QED BY <2>1 DEF FileInv
<1> QED BY <1>1, <1>2, <1>3

\* In whatever order they are, the symbols say what is in the sections.
LEMMA SymbolsDescribeThen ==
    ASSUME Inv, StreamInv, TableInv, FileInv, NamesDistinct
    PROVE  SymbolsDescribeObjects
<1> SUFFICES ASSUME status = "Written" PROVE SymbolsDescribeObjects
  BY DEF SymbolsDescribeObjects
<1>1. PICK p : SymbolsInFile(p)
  BY DEF FileInv
<1>2. UniqueIn(symbols) /\ CoverIn(symbols, AllPieces)
  BY DEF TableInv, TableIn
<1>3. DOMAIN file.symbols = DOMAIN symbols
  BY <1>1 DEF SymbolsInFile
<1>4. \A k \in DOMAIN symbols :
          /\ p[k] \in DOMAIN symbols
          /\ file.symbols[k].name = symbols[p[k]].name /\ file.symbols[k].section = symbols[p[k]].section
          /\ file.symbols[k].value = symbols[p[k]].offset /\ file.symbols[k].size = symbols[p[k]].size
  BY <1>1 DEF SymbolsInFile, FileSymbol
<1>5. ASSUME NEW k \in DOMAIN symbols, NEW other \in DOMAIN symbols \ {k}
      PROVE  file.symbols[other].name # file.symbols[k].name
  <2>1. p[other] # p[k]
    BY <1>1 DEF SymbolsInFile
  <2> QED BY <1>2, <1>4, <2>1 DEF UniqueIn
<1>6. ASSUME NEW k \in DOMAIN symbols, file.symbols[k].section = "Undefined"
      PROVE  file.symbols[k].name \notin NamesOf(Functions) \cup NamesOf(Globals)
  BY <1>2, <1>4, <1>6 DEF UniqueIn, Defined
<1>7. ASSUME NEW k \in DOMAIN symbols, NEW type, type = file.symbols[k].section, type # "Undefined",
             NEW n \in DOMAIN stream[type], stream[type][n].kind = "Data"
      PROVE  IF Holds(type, file.symbols[k].name, stream[type][n].of)
             THEN /\ file.symbols[k].value <= Starts(stream[type])[n]
                  /\ Starts(stream[type])[n] + stream[type][n].size <= file.symbols[k].value + file.symbols[k].size
             ELSE \/ Starts(stream[type])[n] + stream[type][n].size <= file.symbols[k].value
                  \/ file.symbols[k].value + file.symbols[k].size <= Starts(stream[type])[n]
  <2>1. PICK s : s = symbols[p[k]]
    OBVIOUS
  <2>2. s.section \in SectionTypes \cup {"Undefined"}
    <3>1. symbols \in Seq(SymbolSet)
      BY DEF Inv, SymbolInv
    <3>2. s \in SymbolSet
      BY <1>4, <2>1, <3>1
    <3> QED BY <3>2 DEF SymbolSet
  <2>3. type \in SectionTypes /\ s.section = type
    BY <1>4, <1>7, <2>1, <2>2
  <2>4. PICK nodes \in Seq(AllNodes) : nodes = stream[type]
    BY <2>3, SectionIs
  <2>5. PICK x : x = Piece(nodes[n], Starts(nodes)[n])
    OBVIOUS
  <2>6. x \in AllPieces[type]
    <3>1. n \in 1 .. Len(nodes) /\ nodes[n].kind = "Data"
      BY <1>7, <2>4
    <3>2. x \in Pieces(nodes)
      BY <2>5, <3>1 DEF Pieces
    <3> QED BY <2>3, <2>4, <3>2 DEF AllPieces
  <2>7. Covers(s, x)
    BY <1>2, <1>4, <1>7, <2>1, <2>3, <2>6 DEF CoverIn
  <2>8. x.of = stream[type][n].of /\ x.at = Starts(stream[type])[n] /\ x.size = stream[type][n].size
    BY <2>4, <2>5 DEF Piece
  <2>9. /\ s.name = file.symbols[k].name /\ s.offset = file.symbols[k].value
        /\ s.size = file.symbols[k].size
    BY <1>4, <2>1
  <2> QED BY <2>3, <2>7, <2>8, <2>9 DEF Covers, Inside, Outside
<1> QED BY <1>3, <1>5, <1>6, <1>7 DEF SymbolsDescribeObjects

\* The symbol table of the file, for any module and target: where whatever
\* gets a symbol of its own has a name of its own, a symbol covers the bytes
\* that were emitted for its function or global, all of them and no others; a
\* name has one symbol, undefined only if the module does not define it.
THEOREM SymbolsAlwaysDescribeObjects == Spec => [](NamesDistinct => SymbolsDescribeObjects)
<1>1. Init => Inv /\ TextInv
  BY InitEstablishesInv, InitText
<1>2. Init => FileInv
  BY DEF Init, FileInv
<1>3. Inv /\ TextInv /\ TableInv /\ FileInv => (NamesDistinct => SymbolsDescribeObjects)
  BY SymbolsDescribeThen DEF TextInv
<1> QED
  BY <1>1, <1>2, <1>3, InitTable, StepKeepsInv, StepKeepsText, StepKeepsStage, StepKeepsTable,
     StepKeepsFile, PTL DEF Spec

-----------------------------------------------------------------------------
(* The references: what a relocation of an instruction says of it.          *)

\* The relocations of the module, those of the function last.
AllRelocs == relocations \o funcRelocs

\* Whether an instruction has a field that a relocation is for.
HasField(p) == IsInst(Functions, p) /\ InstOf(p).ref.to # "None"
IsAccess(p) == InstOf(p).kind = "Access"

\* A relocation says where the piece of its instruction is, or the field of it.
AddressIn(x, p) == IF IsAccess(p) /\ ~target.riscv THEN x.at + x.size - 4 ELSE x.at
Recording(r, P) ==
    \E x \in P : x.of = r.of /\ x.size = LengthOf(InstOf(r.of)) /\ r.address = AddressIn(x, r.of)

\* The relocations rels are those of the instructions in front of pl, whose
\* pieces are in P, one for each that has a field.
RelocsIn(P, rels, pl) ==
    /\ \A j \in DOMAIN rels :
           /\ HasField(rels[j].of) /\ Before(rels[j].of, pl)
           /\ rels[j].ref = InstOf(rels[j].of).ref
           /\ rels[j].type = IF IsAccess(rels[j].of) THEN "PCRel32" ELSE "BranchRel32"
           /\ Recording(rels[j], P)
    /\ \A p : HasField(p) /\ Before(p, pl) => \E j \in DOMAIN rels : rels[j].of = p
    /\ \A j, k \in DOMAIN rels : rels[j].of = rels[k].of => j = k
RecordInv == RelocsIn(AllPieces["Text"], AllRelocs, place)

\* The instructions are those of the module.
LEMMA SameFields ==
    ASSUME UNCHANGED <<module, target>>
    PROVE  /\ \A p : HasField(p)' <=> HasField(p)
           /\ \A p : InstOf(p)' = InstOf(p) /\ (IsAccess(p)' <=> IsAccess(p))
           /\ \A r, P : Recording(r, P)' <=> Recording(r, P)
<1>1. Functions' = Functions
  BY DEF Functions
<1>2. \A p : InstOf(p)' = InstOf(p)
  BY <1>1 DEF InstOf, Code
<1>3. \A p : (IsAccess(p)' <=> IsAccess(p)) /\ (HasField(p)' <=> HasField(p))
  BY <1>1, <1>2 DEF IsAccess, HasField
<1>4. \A inst : LengthOf(inst)' = LengthOf(inst)
  BY DEF LengthOf
<1>5. \A x, p : AddressIn(x, p)' = AddressIn(x, p)
  BY <1>3 DEF AddressIn
<1>6. \A p : LengthOf(InstOf(p))' = LengthOf(InstOf(p))
  BY <1>2 DEF LengthOf
<1>7. \A r, P : Recording(r, P)' <=> Recording(r, P)
  BY <1>5, <1>6 DEF Recording
<1> QED BY <1>2, <1>3, <1>7

\* A step that emits no instruction.
LEMMA RelocsStay ==
    ASSUME RecordInv, UNCHANGED <<module, target>>, AllPieces'["Text"] = AllPieces["Text"],
           AllRelocs' = AllRelocs, SameInsts(Functions, place, place')
    PROVE  RecordInv'
<1>1. PICK P : P = AllPieces["Text"]
  OBVIOUS
<1>2. PICK rels : rels = AllRelocs
  OBVIOUS
<1>3. PICK pl : pl = place
  OBVIOUS
<1>4. PICK pl2 : pl2 = place'
  OBVIOUS
<1>5. RelocsIn(P, rels, pl)
  BY <1>1, <1>2, <1>3 DEF RecordInv
<1>6. \A p : HasField(p) => (Before(p, pl2) <=> Before(p, pl))
  BY <1>3, <1>4 DEF SameInsts, HasField
<1>7. RelocsIn(P, rels, pl2)
  BY <1>5, <1>6 DEF RelocsIn
<1>8. RelocsIn(P, rels, pl2)'
  BY <1>7, SameFields DEF RelocsIn
<1> QED BY <1>1, <1>2, <1>4, <1>8 DEF RecordInv

\* One that emits the instruction at the place, with its relocation if it has
\* a field.
LEMMA RelocsGrow ==
    ASSUME Inv, TextInv, RecordInv, EmitInst
    PROVE  RecordInv'
<1>1. PICK P : P = AllPieces["Text"]
  OBVIOUS
<1>2. PICK rels : rels = AllRelocs
  OBVIOUS
<1>3. PICK pl \in Nat \X Nat \X Nat : pl = place
  BY DEF Inv, PlaceInv
<1>4. PICK pl2 : pl2 = place'
  OBVIOUS
<1>5. RelocsIn(P, rels, pl)
  BY <1>1, <1>2, <1>3 DEF RecordInv
<1>6. /\ InFunction(place[1]) /\ place[3] > 0 /\ place' = NextPlace(place)
      /\ UNCHANGED <<module, target, relocations>>
  BY DEF EmitInst
<1>7. /\ \A p : IsInst(Functions, p) => (Before(p, pl2) <=> Before(p, pl) \/ p = pl)
      /\ IsInst(Functions, pl)
  BY <1>3, <1>4, <1>6, NextPlaceIs
<1>8. PICK len \in Nat : len = LengthOf(InstOf(pl))
  BY <1>3, EmitPieces DEF TextInv
<1>9. PICK at \in Nat : at = cursorOffset["Text"]
  BY TextSection DEF Inv, OffsetInv
<1>10. PICK x : x = [of |-> pl, at |-> at, size |-> len]
  OBVIOUS
<1>11. AllPieces'["Text"] = P \cup {x}
  <2>1. AllPieces' = [AllPieces EXCEPT !["Text"] = @ \cup {x}]
    BY <1>3, <1>8, <1>9, <1>10, EmitPieces DEF TextInv
  <2>2. "Text" \in DOMAIN AllPieces
    BY TextSection DEF AllPieces
  <2> QED BY <1>1, <2>1, <2>2
<1>12. PICK Q : Q = P \cup {x}
  OBVIOUS
<1>13. \A r : Recording(r, P) => Recording(r, Q)
  BY <1>12 DEF Recording
<1>14. ~Before(pl, pl)
  BY DEF Before
<1>15. PICK r : r = RelocOf(InstOf(pl), at)
  OBVIOUS
<1>16. CASE InstOf(pl).ref.to = "None"
  <2>1. AllRelocs' = rels
    BY <1>2, <1>3, <1>6, <1>16 DEF EmitInst, InstOf, AllRelocs
  <2>2. ~HasField(pl)
    BY <1>16 DEF HasField
  <2>3. \A p : HasField(p) => (Before(p, pl2) <=> Before(p, pl))
    BY <1>7, <2>2 DEF HasField
  <2>4. RelocsIn(Q, rels, pl2)
    BY <1>5, <1>13, <2>3 DEF RelocsIn
  <2>5. RelocsIn(Q, rels, pl2)'
    BY <1>6, <2>4, SameFields DEF RelocsIn
  <2> QED BY <1>4, <1>11, <1>12, <2>1, <2>5 DEF RecordInv
<1>17. CASE InstOf(pl).ref.to # "None"
  <2>1. HasField(pl)
    BY <1>7, <1>17 DEF HasField
  <2>2. funcRelocs' = Append(funcRelocs, r)
    BY <1>3, <1>9, <1>15, <1>17 DEF EmitInst, InstOf
  <2>3. PICK R : R = RelocSet(Functions) \cup {r}
    OBVIOUS
  <2>4. relocations \in Seq(R) /\ funcRelocs \in Seq(R) /\ r \in R
    BY <2>3 DEF Inv, RelocInv
  <2>5. PICK n \in Nat : n = Len(rels) /\ DOMAIN rels = 1 .. n
    BY <1>2, <2>4 DEF AllRelocs
  <2>6. PICK more : more = AllRelocs'
    OBVIOUS
  <2>7. DOMAIN more = 1 .. n + 1 /\ more[n + 1] = r /\ \A j \in 1 .. n : more[j] = rels[j]
    <3>1. more = relocations \o Append(funcRelocs, r)
      BY <1>6, <2>2, <2>6 DEF AllRelocs
    <3>2. more = Append(rels, r)
      BY <1>2, <2>4, <3>1 DEF AllRelocs
    <3>3. rels \in Seq(R)
      BY <1>2, <2>4 DEF AllRelocs
    <3> QED BY <2>4, <2>5, <3>2, <3>3
  <2>8. /\ r.of = pl /\ r.ref = InstOf(pl).ref
        /\ r.type = IF IsAccess(pl) THEN "PCRel32" ELSE "BranchRel32"
        /\ r.address = IF IsAccess(pl) /\ ~target.riscv THEN at + len - 4 ELSE at
    BY <1>3, <1>8, <1>15 DEF RelocOf, IsAccess
  <2>9. Recording(r, Q)
    BY <1>8, <1>10, <1>12, <2>8 DEF Recording, AddressIn
  <2>10. Before(pl, pl2)
    BY <1>7
  <2>11. \A j \in 1 .. n + 1 : j \in 1 .. n \/ j = n + 1
    OBVIOUS
  <2>12. \A j \in 1 .. n : j \in 1 .. n + 1 /\ rels[j].of # pl
    BY <1>5, <1>14, <2>5 DEF RelocsIn
  <2>13. n + 1 \in 1 .. n + 1
    OBVIOUS
  <2>14. \A j \in DOMAIN more :
             /\ HasField(more[j].of) /\ Before(more[j].of, pl2)
             /\ more[j].ref = InstOf(more[j].of).ref
             /\ more[j].type = IF IsAccess(more[j].of) THEN "PCRel32" ELSE "BranchRel32"
             /\ Recording(more[j], Q)
    <3>1. ASSUME NEW j \in 1 .. n
          PROVE  /\ HasField(rels[j].of) /\ Before(rels[j].of, pl2)
                 /\ rels[j].ref = InstOf(rels[j].of).ref
                 /\ rels[j].type = IF IsAccess(rels[j].of) THEN "PCRel32" ELSE "BranchRel32"
                 /\ Recording(rels[j], Q)
      BY <1>5, <1>7, <1>13, <2>5 DEF RelocsIn, HasField
    <3> QED BY <2>1, <2>7, <2>8, <2>9, <2>10, <2>11, <3>1
  <2>15. ASSUME NEW p, HasField(p), Before(p, pl2) PROVE \E j \in DOMAIN more : more[j].of = p
    <3>1. CASE p = pl
      BY <2>7, <2>8, <2>13, <3>1
    <3>2. CASE Before(p, pl)
      <4>1. PICK j \in 1 .. n : rels[j].of = p
        BY <1>5, <2>5, <2>15, <3>2 DEF RelocsIn
      <4> QED BY <2>7, <2>12, <4>1
    <3> QED BY <1>7, <2>15, <3>1, <3>2 DEF HasField
  <2>16. ASSUME NEW j \in 1 .. n + 1, NEW k \in 1 .. n + 1, more[j].of = more[k].of PROVE j = k
    <3>1. CASE j \in 1 .. n /\ k \in 1 .. n
      <4>1. rels[j].of = rels[k].of
        BY <2>7, <2>16, <3>1
      <4> QED BY <1>5, <2>5, <3>1, <4>1 DEF RelocsIn
    <3>2. CASE j = n + 1 \/ k = n + 1
      BY <2>7, <2>8, <2>11, <2>12, <2>16, <3>2
    <3> QED BY <2>11, <3>1, <3>2
  <2>17. RelocsIn(Q, more, pl2)
    BY <2>7, <2>14, <2>15, <2>16 DEF RelocsIn
  <2>18. RelocsIn(Q, more, pl2)'
    BY <1>6, <2>17, SameFields DEF RelocsIn
  <2> QED BY <1>4, <1>11, <1>12, <2>6, <2>18 DEF RecordInv
<1> QED BY <1>16, <1>17

\* Every step keeps them.
LEMMA StepKeepsRecord == Inv /\ TextInv /\ RecordInv /\ [Next]_vars => RecordInv'
<1> SUFFICES ASSUME Inv, TextInv, RecordInv, [Next]_vars PROVE RecordInv'
  OBVIOUS
<1>1. PICK fs \in Seq(MirFunctions) : fs = Functions /\ WellFormed(fs)
  BY FunctionsWellFormed DEF WellFormed
<1>2. place \in Nat \X Nat \X Nat /\ StreamInv
  BY DEF Inv, PlaceInv, TextInv
<1>3. SameInsts(Functions, place, place)
  BY DEF SameInsts
<1>4. CASE EmitGlobal
  <2>1. UNCHANGED <<module, target, place, AllRelocs>>
    BY <1>4 DEF EmitGlobal, labelling, AllRelocs
  <2>2. AllPieces'["Text"] = AllPieces["Text"]
    <3>1. stream'["Text"] = stream["Text"]
      BY <1>2, <1>4, GlobalKeepsStream DEF Text
    <3> QED BY <3>1, TextSection DEF AllPieces
  <2> QED BY <1>3, <2>1, <2>2, RelocsStay
<1>5. CASE SkipDeclaration
  <2>1. UNCHANGED <<module, target, stream, AllRelocs>> /\ place' = <<place[1] + 1, 0, 0>>
        /\ place[1] \in DOMAIN fs /\ fs[place[1]].isDeclaration
    BY <1>1, <1>5 DEF SkipDeclaration, ReadyFor, emission, labelling, AllRelocs
  <2>2. \A b \in DOMAIN fs[place[1]].blocks : b < place[2]
    BY <1>1, <2>1 DEF WellFormed
  <2>3. SameInsts(fs, place, place')
    BY <1>2, <2>1, <2>2, LeaveFunction
  <2> QED BY <1>1, <2>1, <2>3, SamePieces, RelocsStay
<1>6. CASE BeginFunction
  <2>1. UNCHANGED <<module, target, AllRelocs>> /\ place' = <<place[1], 1, 0>> /\ place[2] = 0
    BY <1>6 DEF BeginFunction, labelling, AllRelocs
  <2>2. SameInsts(fs, place, place')
    BY <1>2, <2>1, EnterFunction
  <2>3. AllPieces' = AllPieces
    BY <1>2, <1>6, BeginPieces
  <2> QED BY <1>1, <2>1, <2>2, <2>3, RelocsStay
<1>7. CASE BindBlock
  <2>1. UNCHANGED <<module, target, AllRelocs>> /\ place' = NextPlace(place) /\ InFunction(place[1])
        /\ place[3] = 0
    BY <1>7 DEF BindBlock, AllRelocs
  <2>2. \A p : IsInst(fs, p) => (Before(p, place') <=> Before(p, place) \/ p = place)
    BY <1>1, <2>1, NextPlaceIs
  <2>3. ~IsInst(fs, place)
    <3>1. ASSUME IsInst(fs, place) PROVE FALSE
      <4>1. fs[place[1]] \in MirFunctions
        BY <3>1 DEF IsInst, IsBlock
      <4>2. fs[place[1]].blocks[place[2]] \in Blocks
        BY <3>1, <4>1 DEF IsInst, IsBlock, MirFunctions
      <4>3. fs[place[1]].blocks[place[2]].code \in Seq(Insts)
        BY <4>2 DEF Blocks
      <4> QED BY <2>1, <3>1, <4>3 DEF IsInst
    <3> QED BY <3>1
  <2>4. SameInsts(fs, place, place')
    BY <2>2, <2>3 DEF SameInsts
  <2>5. AllPieces' = AllPieces
    BY <1>2, <1>7, BindPieces
  <2> QED BY <1>1, <2>1, <2>4, <2>5, RelocsStay
<1>8. CASE EndFunction
  <2>1. UNCHANGED <<module, target, stream>> /\ place' = <<place[1] + 1, 0, 0>>
        /\ place[1] \in DOMAIN fs /\ place[2] > Len(fs[place[1]].blocks)
        /\ relocations' = AllRelocs /\ funcRelocs' = <<>>
    BY <1>1, <1>8 DEF EndFunction, ReadyFor, AllRelocs
  <2>2. \A b \in DOMAIN fs[place[1]].blocks : b < place[2]
    <3>1. PICK len \in Nat : len = Len(fs[place[1]].blocks) /\ DOMAIN fs[place[1]].blocks = 1 .. len
      BY <2>1, DomainsAre
    <3> QED BY <1>2, <2>1, <3>1
  <2>3. SameInsts(fs, place, place')
    BY <1>2, <2>1, <2>2, LeaveFunction
  <2>4. AllRelocs' = AllRelocs
    <3>1. relocations \in Seq(RelocSet(Functions)) /\ funcRelocs \in Seq(RelocSet(Functions))
      BY DEF Inv, RelocInv
    <3>2. AllRelocs \in Seq(RelocSet(Functions))
      BY <3>1 DEF AllRelocs
    <3>3. AllRelocs \o <<>> = AllRelocs
      BY <3>2
    <3> QED BY <2>1, <3>3 DEF AllRelocs
  <2> QED BY <1>1, <2>1, <2>3, <2>4, SamePieces, RelocsStay
<1>9. CASE RejectInst \/ Finalize \/ PatchBranch \/ ReferToFunction \/ ReferToGlobal \/ Write \/ UNCHANGED vars
  <2>1. UNCHANGED <<module, target, place, stream, relocations, funcRelocs>>
    BY <1>9 DEF RejectInst, Finalize, PatchBranch, ReferToFunction, ReferToGlobal, Resolving, Write, vars,
                emission, labelling
  <2>2. AllRelocs' = AllRelocs
    BY <2>1 DEF AllRelocs
  <2> QED BY <1>3, <2>1, <2>2, SamePieces, RelocsStay
<1> QED BY <1>4, <1>5, <1>6, <1>7, <1>8, <1>9, RelocsGrow DEF Next

\* There are none at first.
LEMMA InitRecord == Init => RecordInv
<1> SUFFICES ASSUME Init PROVE RecordInv
  OBVIOUS
<1>1. AllRelocs = <<>> /\ DOMAIN AllRelocs = {}
  BY DEF Init, AllRelocs
<1>2. place = <<1, 0, 0>>
  BY DEF Init
<1>3. \A p : HasField(p) => ~Before(p, place)
  <2>1. Functions \in Seq(MirFunctions)
    BY ModulesAssumption DEF Init, Functions
  <2>2. ASSUME NEW p, IsInst(Functions, p) PROVE ~Before(p, <<1, 0, 0>>)
    <3>1. PICK p1, p2, p3 \in Nat : p = <<p1, p2, p3>>
      BY <2>2 DEF IsInst
    <3>2. p1 > 0
      BY <2>1, <2>2, <3>1, DomainsAre DEF IsInst, IsBlock
    <3>3. p2 > 0
      BY <2>1, <2>2, <3>1, DomainsAre DEF IsInst, IsBlock
    <3> QED BY <3>1, <3>2, <3>3 DEF Before
  <2> QED BY <1>2, <2>2 DEF HasField
<1> QED BY <1>1, <1>3 DEF RecordInv, RelocsIn

\* A symbol is where the first of its pieces is.
FirstIn(table, P) ==
    \A k \in DOMAIN table :
        IF table[k].section = "Undefined" THEN table[k].offset = 0
        ELSE \E x \in P[table[k].section] :
                 Holds(table[k].section, table[k].name, x.of) /\ x.at = table[k].offset
\* The function that is emitted has a piece where it starts, or is to get one.
BegunIn(P, end, off, pl) == off = end \/ \E x \in P : x.of[1] = pl[1] /\ x.at = off
StartInv ==
    /\ place[2] # 0 => BegunIn(AllPieces["Text"], cursorOffset["Text"], functionOffset, place)
    /\ \A t \in SectionTypes \ {"Text"} : \A x \in AllPieces[t] : x.of = <<x.of[1]>>
    /\ FirstIn(symbols, AllPieces)

\* It stays where it is if there are more pieces and more symbols.
LEMMA FirstGrows ==
    ASSUME NEW table, NEW P, FirstIn(table, P), NEW Q, \A t \in SectionTypes : P[t] \subseteq Q[t],
           \A k \in DOMAIN table : table[k].section \in SectionTypes \cup {"Undefined"}
    PROVE  FirstIn(table, Q)
<1>1. ASSUME NEW k \in DOMAIN table, table[k].section # "Undefined"
      PROVE  \E x \in Q[table[k].section] :
                 Holds(table[k].section, table[k].name, x.of) /\ x.at = table[k].offset
  <2>1. PICK t \in SectionTypes : t = table[k].section
    BY <1>1
  <2>2. PICK x \in P[t] : Holds(t, table[k].name, x.of) /\ x.at = table[k].offset
    BY <1>1, <2>1 DEF FirstIn
  <2> QED BY <2>1, <2>2
<1> QED BY <1>1 DEF FirstIn

\* One symbol more, with its piece.
LEMMA FirstAppends ==
    ASSUME NEW table, NEW P, FirstIn(table, P), NEW s, NEW table2, OneMoreSymbol(table, s, table2),
           IF s.section = "Undefined" THEN s.offset = 0
           ELSE \E x \in P[s.section] : Holds(s.section, s.name, x.of) /\ x.at = s.offset
    PROVE  FirstIn(table2, P)
<1>1. PICK n \in Nat : /\ DOMAIN table2 = DOMAIN table \cup {n} /\ n \notin DOMAIN table
                       /\ table2[n] = s /\ \A k \in DOMAIN table : table2[k] = table[k]
  BY DEF OneMoreSymbol
<1>2. ASSUME NEW k \in DOMAIN table2
      PROVE  IF table2[k].section = "Undefined" THEN table2[k].offset = 0
             ELSE \E x \in P[table2[k].section] :
                      Holds(table2[k].section, table2[k].name, x.of) /\ x.at = table2[k].offset
  <2>1. CASE k \in DOMAIN table
    BY <1>1, <2>1 DEF FirstIn
  <2>2. CASE k = n
    BY <1>1, <2>2
  <2> QED BY <1>1, <2>1, <2>2
<1> QED BY <1>2 DEF FirstIn

\* What a step makes of the start of the symbols.
LEMMA FirstNext ==
    ASSUME module' = module, NEW table, NEW P, FirstIn(table, P), table = symbols', P = AllPieces'
    PROVE  FirstIn(symbols, AllPieces)'
<1>1. \A type, name, of : Holds(type, name, of)' <=> Holds(type, name, of)
  BY DEF Holds, Functions, Globals
<1>2. FirstIn(table, P)'
  BY <1>1 DEF FirstIn
<1> QED BY <1>2

\* The sections of symbols.
LEMMA SymbolSections == Inv => \A k \in DOMAIN symbols : symbols[k].section \in SectionTypes \cup {"Undefined"}
<1> SUFFICES ASSUME Inv, NEW k \in DOMAIN symbols PROVE symbols[k].section \in SectionTypes \cup {"Undefined"}
  OBVIOUS
<1>1. symbols \in Seq(SymbolSet)
  BY DEF Inv, SymbolInv
<1>2. symbols[k] \in SymbolSet
  BY <1>1
<1> QED BY <1>2 DEF SymbolSet

\* EmitGlobal.
LEMMA GlobalKeepsStart == ASSUME Inv, StreamInv, StartInv, EmitGlobal PROVE StartInv'
<1>1. PICK g : g = Globals[global]
  OBVIOUS
<1>2. UNCHANGED <<module, place>> /\ place[2] = 0
  BY DEF EmitGlobal, Inv, PlaceInv
<1>3. PICK P : P = AllPieces
  OBVIOUS
<1>4. PICK table : table = symbols
  OBVIOUS
<1>5. FirstIn(table, P)
  BY <1>3, <1>4 DEF StartInv
<1>6. DOMAIN AllPieces = SectionTypes
  BY DEF AllPieces
<1>7. CASE g.isDeclaration
  <2>1. PICK s : s = Symbol(g, "Undefined", 0, 0, FALSE)
    OBVIOUS
  <2>2. symbols' = Append(symbols, s) /\ stream' = stream
    BY <1>1, <1>7, <2>1 DEF EmitGlobal
  <2>3. AllPieces' = P
    BY <1>3, <2>2, SamePieces
  <2>4. PICK table2 : table2 = symbols' /\ OneMoreSymbol(table, s, table2)
    BY <1>4, <2>2, AppendSymbol DEF Inv
  <2>5. s.section = "Undefined" /\ s.offset = 0
    BY <2>1 DEF Symbol
  <2>6. FirstIn(table2, P)
    BY <1>5, <2>4, <2>5, FirstAppends
  <2>7. FirstIn(symbols, AllPieces)'
    BY <1>2, <2>3, <2>4, <2>6, FirstNext
  <2> QED BY <1>2, <1>3, <2>3, <2>7 DEF StartInv
<1>8. CASE ~g.isDeclaration
  <2>1. PICK type : type = SectionOf(g) /\ type \in SectionTypes \ {"Text"}
    BY <1>1, GlobalShape DEF EmitGlobal, Inv
  <2>2. PICK x : x = [of |-> <<global>>, at |-> OffsetOf(g), size |-> SizeOf(g)]
    OBVIOUS
  <2>3. PICK Q : Q = [P EXCEPT ![type] = @ \cup {x}]
    OBVIOUS
  <2>4. Q = AllPieces'
    BY <1>1, <1>3, <1>8, <2>1, <2>2, <2>3, GlobalPieces
  <2>5. Q[type] = P[type] \cup {x} /\ \A t \in SectionTypes \ {type} : Q[t] = P[t]
    BY <1>3, <1>6, <2>1, <2>3
  <2>6. PICK s : s = Symbol(g, type, OffsetOf(g), SizeOf(g), FALSE)
    OBVIOUS
  <2>7. symbols' = Append(symbols, s)
    BY <1>1, <1>8, <2>1, <2>6 DEF EmitGlobal
  <2>8. PICK table2 : table2 = symbols' /\ OneMoreSymbol(table, s, table2)
    BY <1>4, <2>7, AppendSymbol DEF Inv
  <2>9. s.section = type /\ s.offset = x.at /\ s.name = g.name
    BY <2>2, <2>6 DEF Symbol
  <2>10. Holds(type, g.name, x.of)
    BY <1>1, <2>1, <2>2 DEF Holds
  <2>11. FirstIn(table, Q)
    <3>1. \A t \in SectionTypes : P[t] \subseteq Q[t]
      BY <2>5
    <3> QED BY <1>4, <1>5, <3>1, SymbolSections, FirstGrows
  <2>12. type # "Undefined"
    BY <2>1 DEF SectionTypes
  <2>13. FirstIn(table2, Q)
    BY <2>5, <2>8, <2>9, <2>10, <2>11, <2>12, FirstAppends
  <2>14. FirstIn(symbols, AllPieces)'
    BY <1>2, <2>4, <2>8, <2>13, FirstNext
  <2>15. \A t \in SectionTypes \ {"Text"} : \A y \in Q[t] : y.of = <<y.of[1]>>
    BY <1>3, <2>2, <2>5 DEF StartInv
  <2> QED BY <1>2, <2>4, <2>14, <2>15 DEF StartInv
<1> QED BY <1>7, <1>8

\* Steps that emit no piece and give no name a symbol.
LEMMA MoveKeepsStart ==
    ASSUME StartInv, UNCHANGED <<module, symbols>>, AllPieces' = AllPieces,
           place'[2] # 0 => BegunIn(AllPieces["Text"], cursorOffset'["Text"], functionOffset', place')
    PROVE  StartInv'
<1>1. PICK P : P = AllPieces
  OBVIOUS
<1>2. PICK table : table = symbols
  OBVIOUS
<1>3. FirstIn(symbols, AllPieces)'
  <2>1. FirstIn(table, P)
    BY <1>1, <1>2 DEF StartInv
  <2> QED BY <1>1, <1>2, <2>1, FirstNext
<1>4. \A t \in SectionTypes \ {"Text"} : \A x \in P[t] : x.of = <<x.of[1]>>
  BY <1>1 DEF StartInv
<1>5. place'[2] # 0 => BegunIn(P["Text"], cursorOffset'["Text"], functionOffset', place')
  BY <1>1
<1> QED BY <1>1, <1>3, <1>4, <1>5 DEF StartInv, BegunIn

\* EmitInst: the first instruction is where the function starts.
LEMMA EmitKeepsStart == ASSUME Inv, StreamInv, StartInv, EmitInst PROVE StartInv'
<1>1. PICK x : x = [of |-> place, at |-> cursorOffset["Text"], size |-> LengthOf(InstOf(place))]
  OBVIOUS
<1>2. PICK P : P = AllPieces
  OBVIOUS
<1>3. PICK Q : Q = [P EXCEPT !["Text"] = @ \cup {x}]
  OBVIOUS
<1>4. Q = AllPieces'
  BY <1>1, <1>2, <1>3, EmitPieces
<1>5. DOMAIN P = SectionTypes
  BY <1>2 DEF AllPieces
<1>6. Q["Text"] = P["Text"] \cup {x} /\ \A t \in SectionTypes \ {"Text"} : Q[t] = P[t]
  BY <1>3, <1>5, TextSection
<1>7. UNCHANGED <<module, symbols, functionOffset>> /\ place' = NextPlace(place) /\ InFunction(place[1])
  BY DEF EmitInst
<1>8. place'[1] = place[1] /\ place[2] # 0
  BY <1>7, NextPlaceShape DEF Inv, InFunction
<1>9. PICK table : table = symbols
  OBVIOUS
<1>10. FirstIn(symbols, AllPieces)'
  <2>1. \A t \in SectionTypes : P[t] \subseteq Q[t]
    BY <1>6
  <2>2. FirstIn(table, P)
    BY <1>2, <1>9 DEF StartInv
  <2>3. FirstIn(table, Q)
    BY <1>9, <2>1, <2>2, SymbolSections, FirstGrows
  <2> QED BY <1>4, <1>7, <1>9, <2>3, FirstNext
<1>11. \E y \in Q["Text"] : y.of[1] = place'[1] /\ y.at = functionOffset'
  <2>1. CASE functionOffset = cursorOffset["Text"]
    BY <1>1, <1>6, <1>7, <1>8, <2>1
  <2>2. CASE functionOffset # cursorOffset["Text"]
    <3>1. PICK y \in P["Text"] : y.of[1] = place[1] /\ y.at = functionOffset
      BY <1>2, <1>8, <2>2 DEF StartInv, BegunIn
    <3> QED BY <1>6, <1>7, <1>8, <3>1
  <2> QED BY <2>1, <2>2
<1>12. \A t \in SectionTypes \ {"Text"} : \A y \in Q[t] : y.of = <<y.of[1]>>
  BY <1>2, <1>6 DEF StartInv
<1> QED BY <1>4, <1>10, <1>11, <1>12 DEF StartInv, BegunIn

\* SkipDeclaration, BeginFunction and BindBlock.
LEMMA PlacesKeepStart ==
    ASSUME Inv, StreamInv, StartInv, SkipDeclaration \/ BeginFunction \/ BindBlock
    PROVE  StartInv'
<1>1. CASE SkipDeclaration
  <2>1. UNCHANGED <<module, symbols, stream>> /\ place' = <<place[1] + 1, 0, 0>>
    BY <1>1 DEF SkipDeclaration, emission
  <2>2. place'[2] = 0
    BY <2>1
  <2> QED BY <2>1, <2>2, SamePieces, MoveKeepsStart
<1>2. CASE BeginFunction
  <2>1. UNCHANGED <<module, symbols>> /\ AllPieces' = AllPieces
    BY <1>2, BeginPieces DEF BeginFunction
  <2>2. PICK at : at = AlignUp(cursorOffset["Text"], FunctionAlignment)
    OBVIOUS
  <2>3. functionOffset' = at /\ cursorOffset' = [cursorOffset EXCEPT !["Text"] = at]
    BY <1>2, <2>2 DEF BeginFunction
  <2>4. functionOffset' = cursorOffset'["Text"]
    BY <2>3, TextSection DEF Inv, OffsetInv
  <2> QED BY <2>1, <2>4, MoveKeepsStart DEF BegunIn
<1>3. CASE BindBlock
  <2>1. UNCHANGED <<module, symbols, cursorOffset, functionOffset>> /\ AllPieces' = AllPieces
        /\ place' = NextPlace(place) /\ InFunction(place[1])
    BY <1>3, BindPieces DEF BindBlock
  <2>2. place'[1] = place[1] /\ place[2] # 0
    BY <2>1, NextPlaceShape DEF Inv, InFunction
  <2>3. BegunIn(AllPieces["Text"], cursorOffset["Text"], functionOffset, place)
    BY <2>2 DEF StartInv
  <2>4. BegunIn(AllPieces["Text"], cursorOffset'["Text"], functionOffset', place')
    BY <2>1, <2>2, <2>3 DEF BegunIn
  <2> QED BY <2>1, <2>4, MoveKeepsStart
<1> QED BY <1>1, <1>2, <1>3

\* EndFunction: the function has a piece where it starts.
LEMMA EndKeepsStart == ASSUME Inv, TextInv, StageInv, TableInv, StartInv, EndFunction PROVE StartInv'
<1>1. PICK fs \in Seq(MirFunctions) : fs = Functions /\ WellFormed(fs)
  BY FunctionsWellFormed DEF WellFormed
<1>2. PICK f \in DOMAIN fs : f = place[1] /\ f \in Nat /\ fs[f] \in MirFunctions
  <2>1. place[1] \in 1 .. Len(fs)
    BY <1>1 DEF EndFunction, ReadyFor
  <2> QED BY <1>1, <2>1, ElementsIn
<1>3. PICK blocks \in Seq(Blocks) : blocks = fs[f].blocks
  BY <1>2 DEF MirFunctions
<1>4. PICK b \in Nat : b = Len(blocks)
  BY <1>3
<1>5. PICK pl \in Nat \X Nat \X Nat : pl = place
  BY DEF Inv, PlaceInv
<1>6. pl[2] > b /\ pl[1] = f
  BY <1>1, <1>2, <1>3, <1>4, <1>5 DEF EndFunction
<1>7. pl[2] # 0
  BY <1>4, <1>6
<1>8. PICK off \in Nat : off = functionOffset
  BY DEF Inv, OffsetInv
<1>9. PICK P : P = AllPieces
  OBVIOUS
<1>10. PICK end : end = cursorOffset["Text"]
  OBVIOUS
<1>11. \E x \in P["Text"] : x.of[1] = f /\ x.at = off
  <2>1. BegunIn(P["Text"], end, off, pl)
    BY <1>5, <1>7, <1>8, <1>9, <1>10 DEF StartInv
  <2>2. CASE off = end
    <3>1. blocks # <<>> /\ blocks[b].code # <<>>
      BY <1>1, <1>2, <1>3, <1>4, <1>5, <1>7 DEF WellFormed, StageInv
    <3>2. b \in DOMAIN blocks /\ blocks[b] \in Blocks
      BY <1>3, <1>4, <3>1
    <3>3. blocks[b].code \in Seq(Insts)
      BY <3>2 DEF Blocks
    <3>4. 1 \in DOMAIN blocks[b].code
      BY <3>1, <3>3
    <3>5. PICK q : q = <<f, b, 1>>
      OBVIOUS
    <3>6. q \in Nat \X Nat \X Nat /\ q[1] = f /\ q[2] = b /\ q[3] = 1
      <4>1. f \in Nat /\ b \in Nat /\ 1 \in Nat
        BY <1>2, <1>4
      <4> QED BY <3>5, <4>1
    <3>7. IsInst(fs, q)
      BY <1>2, <1>3, <3>2, <3>4, <3>6 DEF IsInst, IsBlock
    <3>8. Before(q, pl)
      BY <1>6, <3>6 DEF Before
    <3>9. PICK k \in 1 .. Len(Text) : Text[k].kind = "Data" /\ Text[k].of = q
      BY <1>1, <1>5, <3>7, <3>8 DEF TextInv, TextIn, EmittedIn
    <3>10. PICK x : x = Piece(Text[k], At[k])
      OBVIOUS
    <3>11. x \in Pieces(Text) /\ x.of = q
      BY <3>9, <3>10 DEF Pieces, Piece, At
    <3>12. x \in P["Text"]
      BY <1>9, <3>11, TextSection DEF AllPieces, Text
    <3>13. x.at \in Nat /\ x.size \in Nat /\ x.at + x.size <= end
      BY <1>9, <1>10, <3>12, TextSection DEF TableInv, TableIn, PiecesIn
    <3>14. off <= x.at
      BY <1>5, <1>6, <1>7, <1>8, <1>9, <3>6, <3>11, <3>12 DEF TableInv, TableIn, PiecesIn
    <3>15. x.at = off
      BY <2>2, <3>13, <3>14
    <3> QED BY <3>6, <3>11, <3>12, <3>15
  <2> QED BY <1>6, <2>1, <2>2 DEF BegunIn
<1>12. PICK s : s = Symbol(Functions[place[1]], "Text", functionOffset, cursorOffset["Text"] - functionOffset, TRUE)
  OBVIOUS
<1>13. UNCHANGED <<module, stream>> /\ symbols' = Append(symbols, s) /\ place' = <<place[1] + 1, 0, 0>>
  BY <1>12 DEF EndFunction
<1>14. s.section = "Text" /\ s.offset = off /\ s.name = Functions[f].name
  BY <1>2, <1>8, <1>12 DEF Symbol
<1>15. PICK table2 : table2 = symbols' /\ OneMoreSymbol(symbols, s, table2)
  BY <1>13, AppendSymbol DEF Inv
<1>16. PICK table : table = symbols
  OBVIOUS
<1>17. FirstIn(table, P)
  BY <1>9, <1>16 DEF StartInv
<1>18. \E x \in P[s.section] : Holds(s.section, s.name, x.of) /\ x.at = s.offset
  BY <1>11, <1>14 DEF Holds
<1>19. FirstIn(table2, P)
  BY <1>14, <1>15, <1>16, <1>17, <1>18, FirstAppends
<1>20. P = AllPieces'
  BY <1>9, <1>13, SamePieces
<1>21. FirstIn(symbols, AllPieces)'
  BY <1>13, <1>15, <1>19, <1>20, FirstNext
<1>22. place'[2] = 0
  BY <1>13
<1>23. \A t \in SectionTypes \ {"Text"} : \A x \in P[t] : x.of = <<x.of[1]>>
  BY <1>9 DEF StartInv
<1> QED BY <1>20, <1>21, <1>22, <1>23 DEF StartInv

\* ReferToFunction: what is undefined is nowhere.
LEMMA ReferKeepsStart == ASSUME Inv, StartInv, ReferToFunction PROVE StartInv'
<1>1. PICK f : f = Functions[NextReloc.ref.id]
  OBVIOUS
<1>2. UNCHANGED <<module, place, stream, cursorOffset, functionOffset>>
  BY DEF ReferToFunction, emission
<1>3. PICK P : P = AllPieces
  OBVIOUS
<1>4. P = AllPieces'
  BY <1>2, <1>3, SamePieces
<1>5. place'[2] # 0 => BegunIn(P["Text"], cursorOffset'["Text"], functionOffset', place')
  BY <1>2, <1>3 DEF StartInv
<1>6. CASE IsDefined(f.name)
  <2>1. symbols' = symbols
    BY <1>1, <1>6 DEF ReferToFunction
  <2> QED BY <1>2, <1>3, <1>4, <1>5, <2>1, MoveKeepsStart
<1>7. CASE ~IsDefined(f.name)
  <2>1. PICK s : s = UndefinedFunction(f)
    OBVIOUS
  <2>2. symbols' = Append(symbols, s)
    BY <1>1, <1>7, <2>1 DEF ReferToFunction
  <2>3. s.section = "Undefined" /\ s.offset = 0
    BY <2>1 DEF UndefinedFunction, Symbol
  <2>4. PICK table2 : table2 = symbols' /\ OneMoreSymbol(symbols, s, table2)
    BY <2>2, AppendSymbol DEF Inv
  <2>5. PICK table : table = symbols
    OBVIOUS
  <2>6. FirstIn(table, P)
    BY <1>3, <2>5 DEF StartInv
  <2>7. FirstIn(table2, P)
    BY <2>3, <2>4, <2>5, <2>6, FirstAppends
  <2>8. FirstIn(symbols, AllPieces)'
    BY <1>2, <1>4, <2>4, <2>7, FirstNext
  <2>9. \A t \in SectionTypes \ {"Text"} : \A x \in P[t] : x.of = <<x.of[1]>>
    BY <1>3 DEF StartInv
  <2> QED BY <1>4, <1>5, <2>8, <2>9 DEF StartInv
<1> QED BY <1>6, <1>7

\* Nothing has begun at first.
LEMMA InitStart == Init => StartInv
<1> SUFFICES ASSUME Init PROVE StartInv
  OBVIOUS
<1>1. place[2] = 0 /\ DOMAIN symbols = {}
  BY DEF Init
<1>2. \A t \in SectionTypes : AllPieces[t] = {}
  <2>1. Pieces(<<>>) = {}
    BY DEF Pieces
  <2> QED BY <2>1 DEF Init, AllPieces
<1> QED BY <1>1, <1>2 DEF StartInv, FirstIn

\* Every step keeps symbols where what they are of begins.
LEMMA StepKeepsStart == Inv /\ TextInv /\ StageInv /\ TableInv /\ StartInv /\ [Next]_vars => StartInv'
<1> SUFFICES ASSUME Inv, TextInv, StageInv, TableInv, StartInv, [Next]_vars PROVE StartInv'
  OBVIOUS
<1>1. StreamInv
  BY DEF TextInv
<1>2. CASE RejectInst \/ Finalize \/ PatchBranch \/ ReferToGlobal \/ Write \/ UNCHANGED vars
  <2>1. UNCHANGED <<module, place, stream, cursorOffset, functionOffset, symbols>>
    BY <1>2 DEF RejectInst, Finalize, PatchBranch, ReferToGlobal, Resolving, Write, vars, emission
  <2>2. AllPieces' = AllPieces
    BY <2>1, SamePieces
  <2>3. place'[2] # 0 => BegunIn(AllPieces["Text"], cursorOffset'["Text"], functionOffset', place')
    BY <2>1 DEF StartInv
  <2> QED BY <2>1, <2>2, <2>3, MoveKeepsStart
<1> QED BY <1>1, <1>2, GlobalKeepsStart, PlacesKeepStart, EmitKeepsStart, EndKeepsStart, ReferKeepsStart DEF Next

\* A set of numbers has a least one.
LEMMA LeastIn ==
    ASSUME NEW S \in SUBSET Nat, S # {}
    PROVE  \E m \in S : \A x \in S : m <= x
<1> SUFFICES ASSUME \A m \in S : \E x \in S : x < m PROVE FALSE
  OBVIOUS
<1> DEFINE T == {n \in Nat : \A x \in S : n <= x}
<1>1. 0 \in T
  OBVIOUS
<1>2. ASSUME NEW n \in Nat, n \in T PROVE n + 1 \in T
  <2>1. \A x \in S : n <= x
    BY <1>2
  <2>2. n \notin S
    BY <2>1
  <2>3. \A x \in S : n + 1 <= x
    BY <2>1, <2>2
  <2> QED BY <2>3
<1>3. PICK x \in S : TRUE
  OBVIOUS
<1> HIDE DEF T
<1>4. x + 1 \in T
  BY <1>1, <1>2, Induction
<1> QED BY <1>4 DEF T

\* And one up to some number has a greatest.
LEMMA GreatestIn ==
    ASSUME NEW n \in Nat, NEW S \in SUBSET (1 .. n), S # {}
    PROVE  \E m \in S : \A x \in S : m >= x
<1>1. PICK R \in SUBSET Nat : R = {n - x : x \in S}
  <2>1. \A x \in S : n - x \in Nat
    OBVIOUS
  <2> QED BY <2>1
<1>2. R # {}
  BY <1>1
<1>3. PICK r \in R : \A x \in R : r <= x
  BY <1>2, LeastIn
<1>4. PICK m \in S : r = n - m
  BY <1>1
<1>5. ASSUME NEW x \in S PROVE m >= x
  <2>1. n - x \in R
    BY <1>1
  <2>2. n - m <= n - x
    BY <1>3, <1>4, <2>1
  <2> QED BY <2>2
<1> QED BY <1>5

\* The index of a name that has a symbol is that of such a symbol.
LEMMA IndexOfFinds ==
    ASSUME NEW table, NEW n \in Nat, Len(table) = n, NEW name, NEW c \in 1 .. n, table[c].name = name
    PROVE  \E m \in 1 .. n : table[m].name = name /\ IndexOf(name, table) = m - 1 + FirstSymbol
<1>1. PICK I : I = {i \in 1 .. n : table[i].name = name}
  OBVIOUS
<1>2. I \in SUBSET (1 .. n) /\ I # {}
  BY <1>1
<1>3. PICK m \in I : \A x \in I : m >= x
  BY <1>2, GreatestIn
<1>4. \A x \in I : (\A y \in I : x >= y) => x = m
  BY <1>2, <1>3
<1>5. (CHOOSE x \in I : \A y \in I : x >= y) = m
  BY <1>3, <1>4
<1>6. PICK k : k = SelectLastInSeq(table, LAMBDA symbol : symbol.name = name)
  OBVIOUS
<1>7. k = IF I # {} THEN CHOOSE x \in I : \A y \in I : x >= y ELSE 0
  BY <1>1, <1>6 DEF SelectLastInSeq, Max
<1>8. k = m
  BY <1>2, <1>5, <1>7
<1>9. IndexOf(name, table) = IF k = 0 THEN 0 ELSE k - 1 + FirstSymbol
  BY <1>6 DEF IndexOf
<1>10. m # 0 /\ m \in 1 .. n /\ table[m].name = name
  BY <1>1, <1>3
<1> QED BY <1>8, <1>9, <1>10

\* A function that a resolved relocation refers to has a symbol.
NamedInv ==
    \A j \in 1 .. Len(relocations) :
        j <= resolved /\ relocations[j].ref.to = "Function"
        => HasSymbol(symbols, Functions[relocations[j].ref.id].name)

\* Every step leaves it one.
LEMMA StepKeepsNamed == Inv /\ ResolveInv /\ NamedInv /\ [Next]_vars => NamedInv'
<1> SUFFICES ASSUME Inv, ResolveInv, NamedInv, [Next]_vars PROVE NamedInv'
  OBVIOUS
<1>1. CASE EmitGlobal \/ SkipDeclaration \/ BeginFunction \/ BindBlock \/ EmitInst \/ RejectInst
           \/ EndFunction \/ Finalize
  <2>1. status = "Emitting" /\ resolved' = resolved
    BY <1>1 DEF EmitGlobal, SkipDeclaration, BeginFunction, BindBlock, EmitInst, RejectInst,
                EndFunction, InFunction, ReadyFor, resolution, Finalize
  <2>2. resolved' = 0
    BY <2>1 DEF ResolveInv
  <2> QED BY <2>2 DEF NamedInv
<1>2. CASE ~(EmitGlobal \/ SkipDeclaration \/ BeginFunction \/ BindBlock \/ EmitInst \/ RejectInst
             \/ EndFunction \/ Finalize)
  <2>1. PatchBranch \/ ReferToFunction \/ ReferToGlobal \/ Write \/ UNCHANGED vars
    BY <1>2 DEF Next
  <2>2. UNCHANGED <<module, relocations>>
    BY <2>1 DEF PatchBranch, ReferToFunction, ReferToGlobal, Resolving, Write, vars, emission, labelling
  <2>3. Functions' = Functions
    BY <2>2 DEF Functions
  <2>4. ASSUME NEW name, HasSymbol(symbols, name) PROVE HasSymbol(symbols', name)
    <3>1. CASE ~ReferToFunction \/ symbols' = symbols
      <4>1. symbols' = symbols
        BY <2>1, <3>1 DEF PatchBranch, ReferToGlobal, Resolving, Write, vars
      <4> QED BY <2>4, <4>1
    <3>2. CASE ReferToFunction /\ symbols' # symbols
      <4>1. PICK s : symbols' = Append(symbols, s)
        BY <3>2 DEF ReferToFunction
      <4>2. OneMoreSymbol(symbols, s, symbols')
        BY <4>1, AppendSymbol DEF Inv
      <4> QED BY <2>4, <4>2 DEF OneMoreSymbol, HasSymbol
    <3> QED BY <3>1, <3>2
  <2>5. ASSUME NEW j \in 1 .. Len(relocations), j <= resolved', relocations[j].ref.to = "Function"
        PROVE  HasSymbol(symbols', Functions[relocations[j].ref.id].name)
    <3>1. CASE j <= resolved
      BY <2>4, <2>5, <3>1 DEF NamedInv
    <3>2. CASE ~(j <= resolved)
      <4>1. resolved' = resolved + 1 /\ j = resolved + 1 /\ ReferToFunction
        <5>1. resolved \in Nat
          BY DEF ResolveInv
        <5>2. resolved' = resolved + 1
          BY <2>1, <2>5, <3>2 DEF PatchBranch, ReferToFunction, ReferToGlobal, Resolving, Write, vars, resolution
        <5>3. j = resolved + 1
          BY <2>5, <3>2, <5>1, <5>2
        <5>4. NextReloc.ref.to = "Function"
          BY <2>5, <5>3 DEF NextReloc
        <5>5. ~PatchBranch /\ ~ReferToGlobal /\ ~Write /\ ~UNCHANGED vars
          BY <5>1, <5>2, <5>4 DEF PatchBranch, ReferToGlobal, Resolving, Write, vars, resolution
        <5> QED BY <2>1, <5>2, <5>3, <5>5
      <4>2. PICK f : f = Functions[relocations[j].ref.id]
        OBVIOUS
      <4>3. symbols' = IF IsDefined(f.name) THEN symbols ELSE Append(symbols, UndefinedFunction(f))
        BY <4>1, <4>2 DEF ReferToFunction, NextReloc
      <4>4. CASE IsDefined(f.name)
        <5>1. symbols' = symbols
          BY <4>3, <4>4
        <5> QED BY <4>2, <4>4, <5>1 DEF IsDefined, HasSymbol
      <4>5. CASE ~IsDefined(f.name)
        <5>1. PICK s : s = UndefinedFunction(f)
          OBVIOUS
        <5>2. OneMoreSymbol(symbols, s, symbols')
          BY <4>3, <4>5, <5>1, AppendSymbol DEF Inv
        <5>3. s.name = f.name
          BY <5>1 DEF UndefinedFunction, Symbol
        <5> QED BY <4>2, <5>2, <5>3 DEF OneMoreSymbol, HasSymbol
      <4> QED BY <4>4, <4>5
    <3> QED BY <3>1, <3>2
  <2> QED BY <2>2, <2>3, <2>5 DEF NamedInv, HasSymbol
<1> QED BY <1>1, <1>2

\* The relocations of the file are those of the object, each with the symbol
\* of its name.
HasItsSymbol(k) ==
    HasSymbol(symbols, objectRelocs[k].name) =>
        LET at == file.relocs[k].symbol + 1 - FirstSymbol
        IN  at \in DOMAIN symbols /\ file.symbols[at].name = objectRelocs[k].name
RelocsInFile ==
    /\ DOMAIN file.relocs = DOMAIN objectRelocs
    /\ \A k \in DOMAIN objectRelocs :
           /\ file.relocs[k].offset = objectRelocs[k].offset
           /\ file.relocs[k].addend = objectRelocs[k].addend
           /\ HasItsSymbol(k)
FileRelocInv == status = "Written" => RelocsInFile

\* Write puts them there.
LEMMA WriteMakesRelocs == ASSUME Inv, Write PROVE RelocsInFile'
<1>1. PICK table : table = symbols
  OBVIOUS
<1>2. PICK n \in Nat : n = Len(table) /\ DOMAIN table = 1 .. n
  BY <1>1 DEF Inv, SymbolInv
<1>3. PICK p : Permutes(p)
  BY SortedPermutes DEF Inv
<1>4. PICK list : list = Sorted
  OBVIOUS
<1>5. Len(list) = n
  BY <1>1, <1>2, <1>4, SortedPermutes DEF Inv
<1>6. PICK relocs : relocs = objectRelocs
  OBVIOUS
<1>7. PICK first \in {0, 1} : first = FirstSymbol
  BY DEF FirstSymbol
<1>8. /\ UNCHANGED <<symbols, objectRelocs, target>>
      /\ file'.symbols = [k \in 1 .. n |-> FileSymbol(list[k])]
      /\ file'.relocs = [k \in DOMAIN relocs |-> FileReloc(relocs[k])]
  BY <1>1, <1>2, <1>4, <1>6 DEF Write, resolution
<1>9. FirstSymbol' = first
  BY <1>7, <1>8 DEF FirstSymbol
<1>10. ASSUME NEW k \in DOMAIN relocs
       PROVE  /\ file'.relocs[k].offset = relocs[k].offset
              /\ file'.relocs[k].addend = relocs[k].addend
              /\ file'.relocs[k].symbol = IndexOf(relocs[k].name, list)
  BY <1>4, <1>8 DEF FileReloc
<1>11. ASSUME NEW k \in DOMAIN relocs, HasSymbol(table, relocs[k].name)
       PROVE  /\ file'.relocs[k].symbol + 1 - first \in 1 .. n
              /\ file'.symbols[file'.relocs[k].symbol + 1 - first].name = relocs[k].name
  <2>1. PICK c \in 1 .. n : table[c].name = relocs[k].name
    BY <1>2, <1>11 DEF HasSymbol
  <2>2. PICK i \in 1 .. n : p[i] = c
    BY <1>1, <1>2, <1>3 DEF Permutes
  <2>3. list[i].name = relocs[k].name
    BY <1>1, <1>2, <1>3, <1>4, <2>1, <2>2 DEF Permutes
  <2>4. PICK m \in 1 .. n : list[m].name = relocs[k].name
                            /\ IndexOf(relocs[k].name, list) = m - 1 + first
    BY <1>5, <1>7, <2>3, IndexOfFinds
  <2>5. file'.relocs[k].symbol + 1 - first = m
    BY <1>10, <2>4
  <2>6. file'.symbols[m].name = list[m].name
    BY <1>8 DEF FileSymbol
  <2> QED BY <2>4, <2>5, <2>6
<1>12. \A k \in DOMAIN relocs : HasItsSymbol(k)'
  <2>1. \A name : HasSymbol(symbols, name)' <=> HasSymbol(table, name)
    BY <1>1, <1>8 DEF HasSymbol
  <2> QED BY <1>1, <1>2, <1>6, <1>8, <1>9, <1>11, <2>1 DEF HasItsSymbol
<1> QED BY <1>6, <1>8, <1>10, <1>12 DEF RelocsInFile

\* Nothing changes them.
LEMMA StepKeepsFileRelocs == Inv /\ FileRelocInv /\ [Next]_vars => FileRelocInv'
<1> SUFFICES ASSUME Inv, FileRelocInv, [Next]_vars PROVE FileRelocInv'
  OBVIOUS
<1>1. CASE Write
  BY <1>1, WriteMakesRelocs DEF FileRelocInv
<1>2. CASE status = "Written"
  <2>1. UNCHANGED <<file, symbols, objectRelocs, target>>
    BY <1>2, WrittenStays DEF vars, resolution
  <2>2. \A k : HasItsSymbol(k)' <=> HasItsSymbol(k)
    BY <2>1 DEF HasItsSymbol, HasSymbol, FirstSymbol
  <2> QED BY <1>2, <2>1, <2>2 DEF FileRelocInv, RelocsInFile
<1>3. CASE ~Write /\ status # "Written"
  <2>1. status' # "Written"
    BY <1>3 DEF Next, EmitGlobal, SkipDeclaration, BeginFunction, BindBlock, EmitInst, RejectInst,
         EndFunction, Finalize, PatchBranch, ReferToFunction, ReferToGlobal, Resolving, vars, InFunction, ReadyFor
  <2> QED BY <2>1 DEF FileRelocInv
<1> QED BY <1>1, <1>2, <1>3

\* What was emitted ends in front of what comes behind it.
LEMMA NodesFollow ==
    ASSUME NEW nodes \in Seq(AllNodes), SizesSet(nodes), NEW j \in 1 .. Len(nodes), NEW k \in 1 .. Len(nodes),
           j < k, nodes[j].kind = "Data"
    PROVE  /\ Starts(nodes)[j] \in Nat /\ nodes[j].size \in Nat /\ Starts(nodes)[k] \in Nat
           /\ Starts(nodes)[j] + nodes[j].size <= Starts(nodes)[k]
<1>1. PICK n \in Nat : n = Len(nodes)
  OBVIOUS
<1>2. PICK s : s = Starts(nodes)
  OBVIOUS
<1>3. s \in [1 .. n + 1 -> Nat] /\ \A i \in 1 .. n : s[i + 1] = After(s[i], nodes[i])
  BY <1>1, <1>2, StartsAreNat, StartsAre DEF SizesSet
<1>4. \A i \in 1 .. n + 1 : s[i] \in Nat
  BY <1>3
<1>5. ASSUME NEW i \in 1 .. n PROVE s[i] <= s[i + 1]
  <2>1. nodes[i] \in AllNodes /\ (nodes[i].kind = "Align" => nodes[i].size # 0)
    BY <1>1 DEF SizesSet
  <2>2. nodes[i].size \in Nat
    BY <2>1 DEF AllNodes
  <2>3. s[i] \in Nat /\ s[i + 1] = After(s[i], nodes[i])
    BY <1>3, <1>4
  <2>4. CASE nodes[i].kind = "Align"
    <3>1. nodes[i].size \in Nat \ {0}
      BY <2>1, <2>2, <2>4
    <3>2. AlignUp(s[i], nodes[i].size) \in Nat /\ AlignUp(s[i], nodes[i].size) >= s[i]
      BY <2>3, <3>1, AlignUpGrows
    <3>3. s[i + 1] = AlignUp(s[i], nodes[i].size)
      BY <2>3, <2>4 DEF After
    <3> QED BY <2>3, <3>2, <3>3
  <2>5. CASE nodes[i].kind # "Align"
    <3>1. s[i + 1] = s[i] + nodes[i].size
      BY <2>3, <2>5 DEF After
    <3> QED BY <2>2, <2>3, <3>1
  <2> QED BY <2>4, <2>5
<1>6. PICK at \in Nat : at = s[j + 1]
  BY <1>1, <1>4
<1> DEFINE T == {d \in Nat : j + 1 + d <= n => at <= s[j + 1 + d]}
<1>7. 0 \in T
  BY <1>6
<1>8. ASSUME NEW d \in Nat, d \in T PROVE d + 1 \in T
  <2> SUFFICES ASSUME j + 1 + (d + 1) <= n PROVE at <= s[j + 1 + (d + 1)]
    OBVIOUS
  <2>1. PICK i : i = j + 1 + d
    OBVIOUS
  <2>2. i \in 1 .. n /\ i + 1 = j + 1 + (d + 1) /\ i + 1 \in 1 .. n + 1 /\ i \in 1 .. n + 1
    BY <1>1, <2>1
  <2>3. at <= s[i]
    BY <1>8, <2>1, <2>2
  <2>4. s[i] <= s[i + 1] /\ s[i] \in Nat /\ s[i + 1] \in Nat
    BY <1>4, <1>5, <2>2
  <2> QED BY <1>6, <2>2, <2>3, <2>4
<1> HIDE DEF T
<1>9. Nat \subseteq T
  BY <1>7, <1>8, Induction
<1>10. PICK d \in Nat : j + 1 + d = k
  <2>1. k - (j + 1) \in Nat /\ j + 1 + (k - (j + 1)) = k
    OBVIOUS
  <2> QED BY <2>1
<1>11. at <= s[k]
  <2>1. d \in T
    BY <1>9
  <2> QED BY <1>1, <1>10, <2>1 DEF T
<1>12. at = s[j] + nodes[j].size
  <2>1. s[j + 1] = After(s[j], nodes[j])
    BY <1>1, <1>3
  <2> QED BY <1>6, <2>1 DEF After
<1>13. nodes[j].size \in Nat
  <2>1. nodes[j] \in AllNodes
    OBVIOUS
  <2> QED BY <2>1 DEF AllNodes
<1>14. s[j] \in Nat /\ s[k] \in Nat
  BY <1>1, <1>4
<1> QED BY <1>2, <1>11, <1>12, <1>13, <1>14

\* The first of some nodes is where none of them starts before it.
LEMMA FirstStart ==
    ASSUME NEW nodes \in Seq(AllNodes), SizesSet(nodes), NEW I \in SUBSET (1 .. Len(nodes)),
           \A i \in I : nodes[i].kind = "Data", NEW v, \A i \in I : v <= Starts(nodes)[i],
           NEW m \in I, Starts(nodes)[m] = v
    PROVE  Starts(nodes)[IF I # {} THEN CHOOSE x \in I : \A y \in I : x =< y ELSE 0] = v
<1>1. I \in SUBSET Nat
  OBVIOUS
<1>2. PICK n \in I : \A y \in I : n <= y
  BY <1>1, LeastIn
<1>3. \A x \in I : (\A y \in I : x =< y) => x = n
  BY <1>1, <1>2
<1>4. (CHOOSE x \in I : \A y \in I : x =< y) = n
  BY <1>2, <1>3
<1>5. CASE n = m
  BY <1>4, <1>5
<1>6. CASE n # m
  <2>1. n < m /\ n \in 1 .. Len(nodes) /\ m \in 1 .. Len(nodes)
    BY <1>2, <1>6
  <2>2. /\ Starts(nodes)[n] \in Nat /\ nodes[n].size \in Nat /\ Starts(nodes)[m] \in Nat
        /\ Starts(nodes)[n] + nodes[n].size <= Starts(nodes)[m]
    BY <2>1, NodesFollow
  <2>3. v <= Starts(nodes)[n]
    OBVIOUS
  <2>4. Starts(nodes)[n] = v
    BY <2>2, <2>3
  <2> QED BY <1>4, <2>4
<1> QED BY <1>5, <1>6

\* A piece is a node of its section.
LEMMA PieceNode ==
    ASSUME NEW t \in SectionTypes, NEW x
    PROVE  x \in AllPieces[t] <=>
               \E n \in 1 .. Len(stream[t]) :
                   /\ stream[t][n].kind = "Data"
                   /\ x = Piece(stream[t][n], Starts(stream[t])[n])
BY DEF AllPieces, Pieces

\* An instruction is where its piece is, and has one piece.
LEMMA PieceStart ==
    ASSUME TextInv, NEW x \in AllPieces["Text"]
    PROVE  StartOf(x.of) = x.at
<1>1. Text \in Seq(AllNodes)
  BY TextSection, SectionIs DEF TextInv, Text
<1>2. Len(Text) \in Nat
  BY <1>1
<1>3. PICK n \in 1 .. Len(Text) : Text[n].kind = "Data" /\ x = Piece(Text[n], At[n])
  BY TextSection, PieceNode DEF Text, At
<1>4. x.of = Text[n].of /\ x.at = At[n]
  BY <1>3 DEF Piece
<1>5. DataIn(Functions, Text, place)
  BY DEF TextInv, TextIn
<1>6. \A j \in 1 .. Len(Text) : Text[j].kind = "Data" /\ Text[j].of = x.of => j = n
  BY <1>2, <1>3, <1>4, <1>5, EmittedOnce
<1>7. StartOf(x.of) = At[n]
  BY <1>2, <1>3, <1>4, <1>6, StartOfIs
<1> QED BY <1>4, <1>7

\* Pieces of two instructions share no byte.
LEMMA PiecesApart ==
    ASSUME TextInv, NEW x \in AllPieces["Text"], NEW y \in AllPieces["Text"], x.of # y.of
    PROVE  x.at + x.size <= y.at \/ y.at + y.size <= x.at
<1>1. PICK text \in Seq(AllNodes) : text = stream["Text"] /\ SizesSet(text)
  BY TextSection, SectionIs DEF TextInv
<1>2. PICK j \in 1 .. Len(text) : text[j].kind = "Data" /\ x = Piece(text[j], Starts(text)[j])
  BY <1>1, TextSection, PieceNode
<1>3. PICK k \in 1 .. Len(text) : text[k].kind = "Data" /\ y = Piece(text[k], Starts(text)[k])
  BY <1>1, TextSection, PieceNode
<1>4. /\ x.of = text[j].of /\ x.at = Starts(text)[j] /\ x.size = text[j].size
      /\ y.of = text[k].of /\ y.at = Starts(text)[k] /\ y.size = text[k].size
  BY <1>2, <1>3 DEF Piece
<1>5. j < k \/ k < j
  BY <1>4
<1>6. CASE j < k
  BY <1>2, <1>4, <1>6, NodesFollow, <1>1
<1>7. CASE k < j
  BY <1>3, <1>4, <1>7, NodesFollow, <1>1
<1> QED BY <1>5, <1>6, <1>7

\* The field of an instruction.
Field(p) == IF target.riscv THEN StartOf(p) ELSE StartOf(p) + LengthOf(InstOf(p)) - 4

\* An instruction has room for its field.
LEMMA FieldRoom ==
    ASSUME Inv, NEW p, HasField(p)
    PROVE  LengthOf(InstOf(p)) \in Nat /\ LengthOf(InstOf(p)) >= 4 /\ (target.riscv => LengthOf(InstOf(p)) = 4)
<1>1. PICK fs \in Seq(MirFunctions) : fs = module.functions
  BY ModulesAssumption DEF Inv, PlaceInv
<1>2. PICK f \in Nat, b \in Nat, i \in Nat : p = <<f, b, i>>
  BY DEF HasField, IsInst
<1>3. f \in DOMAIN fs /\ b \in DOMAIN fs[f].blocks /\ i \in DOMAIN fs[f].blocks[b].code
  BY <1>1, <1>2 DEF HasField, IsInst, IsBlock, Functions
<1>4. PICK inst : inst = fs[f].blocks[b].code[i]
  OBVIOUS
<1>5. inst = InstOf(p) /\ inst.ref.to # "None"
  BY <1>1, <1>2, <1>4 DEF HasField, InstOf, Code, Functions
<1>6. inst \in Insts
  <2>1. fs[f] \in MirFunctions
    BY <1>3
  <2>2. fs[f].blocks[b] \in Blocks
    BY <1>3, <2>1 DEF MirFunctions
  <2>3. fs[f].blocks[b].code \in Seq(Insts)
    BY <2>2 DEF Blocks
  <2> QED BY <1>3, <1>4, <2>3
<1>7. inst.kind \in {"Jump", "Jcc", "Access"} /\ (inst.kind = "Access" => inst.size >= 4)
  <2>1. module \in Modules
    BY DEF Inv, PlaceInv
  <2> QED BY <1>1, <1>3, <1>4, <1>5, <2>1, FieldsAssumption
<1>8. inst.size \in Nat
  BY <1>6 DEF Insts
<1>9. target.riscv \in BOOLEAN
  BY TargetsAssumption DEF Inv, PlaceInv
<1> QED BY <1>5, <1>7, <1>8, <1>9 DEF LengthOf

\* The field that a relocation is for is that of its instruction.
LEMMA FieldOffsets ==
    ASSUME Inv, TextInv, RecordInv, NEW j \in DOMAIN AllRelocs
    PROVE  FieldOffset(AllRelocs[j]) = Field(AllRelocs[j].of)
<1>1. PICK r : r = AllRelocs[j]
  OBVIOUS
<1>2. HasField(r.of) /\ r.type = IF IsAccess(r.of) THEN "PCRel32" ELSE "BranchRel32"
  BY <1>1 DEF RecordInv, RelocsIn
<1>3. PICK x \in AllPieces["Text"] : x.of = r.of /\ x.size = LengthOf(InstOf(r.of))
                                     /\ r.address = AddressIn(x, r.of)
  BY <1>1 DEF RecordInv, RelocsIn, Recording
<1>4. StartOf(r.of) = x.at
  BY <1>3, PieceStart
<1> QED BY <1>1, <1>2, <1>3, <1>4 DEF FieldOffset, Field, AddressIn

\* No two relocations are for one field.
LEMMA FieldsApart ==
    ASSUME Inv, TextInv, TableInv, RecordInv, NEW j \in DOMAIN AllRelocs, NEW k \in DOMAIN AllRelocs,
           Field(AllRelocs[j].of) = Field(AllRelocs[k].of)
    PROVE  j = k
<1>1. PICK p : p = AllRelocs[j].of
  OBVIOUS
<1>2. PICK q : q = AllRelocs[k].of
  OBVIOUS
<1>3. HasField(p) /\ HasField(q)
  BY <1>1, <1>2 DEF RecordInv, RelocsIn
<1>4. PICK x \in AllPieces["Text"] : x.of = p /\ x.size = LengthOf(InstOf(p))
  BY <1>1 DEF RecordInv, RelocsIn, Recording
<1>5. PICK y \in AllPieces["Text"] : y.of = q /\ y.size = LengthOf(InstOf(q))
  BY <1>2 DEF RecordInv, RelocsIn, Recording
<1>6. x.at = StartOf(p) /\ y.at = StartOf(q)
  BY <1>4, <1>5, PieceStart
<1>7. PICK a \in Nat : a = x.at
  BY <1>4, TextSection DEF TableInv, TableIn, PiecesIn
<1>8. PICK b \in Nat : b = y.at
  BY <1>5, TextSection DEF TableInv, TableIn, PiecesIn
<1>9. PICK m \in Nat : m = x.size /\ m >= 4 /\ (target.riscv => m = 4)
  BY <1>3, <1>4, FieldRoom
<1>10. PICK n \in Nat : n = y.size /\ n >= 4 /\ (target.riscv => n = 4)
  BY <1>3, <1>5, FieldRoom
<1>11. CASE p = q
  BY <1>1, <1>2, <1>11 DEF RecordInv, RelocsIn
<1>12. CASE p # q
  <2>1. a + m <= b \/ b + n <= a
    BY <1>4, <1>5, <1>7, <1>8, <1>9, <1>10, <1>12, PiecesApart
  <2>2. Field(p) = IF target.riscv THEN a ELSE a + m - 4
    BY <1>4, <1>6, <1>7, <1>9 DEF Field
  <2>3. Field(q) = IF target.riscv THEN b ELSE b + n - 4
    BY <1>5, <1>6, <1>8, <1>10 DEF Field
  <2>4. Field(p) = Field(q)
    BY <1>1, <1>2
  <2>5. CASE target.riscv
    <3>1. a = b /\ m = 4 /\ n = 4
      BY <1>9, <1>10, <2>2, <2>3, <2>4, <2>5
    <3> QED BY <2>1, <3>1
  <2>6. CASE ~target.riscv
    <3>1. a + m - 4 = b + n - 4
      BY <2>2, <2>3, <2>4, <2>6
    <3>2. m >= 4 /\ n >= 4
      BY <1>9, <1>10
    <3> QED BY <2>1, <3>1, <3>2
  <2> QED BY <2>5, <2>6
<1> QED BY <1>11, <1>12

\* What the references are proved from.
LinkInv ==
    /\ Inv /\ TextInv /\ StageInv /\ TableInv /\ StartInv /\ ResolveInv /\ ReferInv
    /\ RecordInv /\ NamedInv /\ FileInv /\ FileRelocInv

\* There are all relocations once the file is written.
LEMMA AllResolved ==
    ASSUME LinkInv, status = "Written"
    PROVE  /\ AllRelocs = relocations /\ resolved = Len(relocations)
           /\ \A p : HasField(p) => \E j \in 1 .. Len(relocations) : relocations[j].of = p
<1>1. place[1] > Len(Functions) /\ place \in Nat \X Nat \X Nat /\ Functions \in Seq(MirFunctions)
  BY ModulesAssumption DEF LinkInv, StageInv, Late, Inv, PlaceInv, Functions
<1>2. place[1] \notin DOMAIN Functions
  BY <1>1
<1>3. funcRelocs = <<>>
  BY <1>2 DEF LinkInv, TextInv, FlushInv
<1>4. relocations \in Seq(RelocSet(Functions))
  BY DEF LinkInv, Inv, RelocInv
<1>5. AllRelocs = relocations
  BY <1>3, <1>4 DEF AllRelocs
<1>6. resolved = Len(relocations)
  BY DEF LinkInv, ResolveInv
<1>7. ASSUME NEW p, HasField(p) PROVE \E j \in 1 .. Len(relocations) : relocations[j].of = p
  <2>1. p[1] \in Nat /\ p[1] \in DOMAIN Functions
    BY <1>7 DEF HasField, IsInst, IsBlock
  <2>2. Before(p, place)
    BY <1>1, <2>1 DEF Before
  <2>3. \E j \in DOMAIN AllRelocs : AllRelocs[j].of = p
    BY <1>7, <2>2 DEF LinkInv, RecordInv, RelocsIn
  <2> QED BY <1>4, <1>5, <2>3
<1> QED BY <1>5, <1>6, <1>7

\* The field of an instruction that names something has one relocation in the
\* file, of that name.
LEMMA OneReloc ==
    ASSUME LinkInv, status = "Written", NEW p \in Referring("Function") \cup Referring("Global")
    PROVE  \E i \in DOMAIN objectRelocs :
               /\ objectRelocs[i].name = Entity(InstOf(p).ref).name
               /\ objectRelocs[i].addend = IF target.elf THEN -4 ELSE 0
               /\ \A k \in DOMAIN objectRelocs : objectRelocs[k].offset = Field(p) <=> k = i
<1>1. InstOf(p).ref.to \in {"Function", "Global"} /\ HasField(p)
  BY InstructionsAre DEF Referring, HasField, LinkInv
<1>2. PICK n \in Nat : n = Len(relocations) /\ DOMAIN relocations = 1 .. n
  BY DEF LinkInv, Inv, RelocInv
<1>3. AllRelocs = relocations /\ resolved = n
  BY <1>2, AllResolved
<1>4. PICK j \in 1 .. n : relocations[j].of = p
  BY <1>1, <1>2, AllResolved
<1>5. relocations[j].ref = InstOf(p).ref
  BY <1>2, <1>3, <1>4 DEF LinkInv, RecordInv, RelocsIn
<1>6. \A i \in 1 .. n : FieldOffset(relocations[i]) = Field(relocations[i].of)
  BY <1>2, <1>3, FieldOffsets DEF LinkInv
<1>7. PICK list : list = objectRelocs
  OBVIOUS
<1>8. PICK len \in Nat : len = Len(list) /\ DOMAIN list = 1 .. len
  BY <1>7 DEF LinkInv, ReferInv
<1>9. PICK q \in [1 .. len -> 1 .. n] :
          /\ \A i \in 1 .. len : q[i] \in References /\ list[i] = Referred[q[i]]
          /\ \A i, k \in 1 .. len : q[i] = q[k] => i = k
          /\ \A c \in 1 .. n : c \in References => \E i \in 1 .. len : q[i] = c
  BY <1>3, <1>7, <1>8 DEF LinkInv, ReferInv, Found
<1>10. \A i \in 1 .. n : Referred[i] = Refer(relocations[i])
  BY <1>2 DEF Referred
<1>11. j \in References
  BY <1>1, <1>2, <1>5 DEF References
<1>12. PICK i \in 1 .. len : q[i] = j
  BY <1>9, <1>11
<1>13. ASSUME NEW k \in 1 .. len
       PROVE  /\ list[k].offset = Field(relocations[q[k]].of)
              /\ list[k].name = Entity(relocations[q[k]].ref).name
              /\ list[k].addend = IF target.elf THEN -4 ELSE 0
  <2>1. PICK c \in 1 .. n : c = q[k]
    BY <1>9
  <2>2. list[k] = Refer(relocations[c])
    BY <1>9, <1>10, <2>1
  <2>3. PICK r : r = relocations[c]
    OBVIOUS
  <2>4. /\ list[k].offset = FieldOffset(r) /\ list[k].name = Entity(r.ref).name
        /\ list[k].addend = IF target.elf THEN -4 ELSE 0
    BY <2>2, <2>3 DEF Refer, ObjectReloc
  <2> QED BY <1>6, <2>1, <2>3, <2>4
<1>14. list[i].name = Entity(InstOf(p).ref).name /\ list[i].addend = IF target.elf THEN -4 ELSE 0
  BY <1>5, <1>12, <1>13
<1>15. ASSUME NEW k \in 1 .. len PROVE list[k].offset = Field(p) <=> k = i
  <2>1. CASE k = i
    BY <1>4, <1>12, <1>13, <2>1
  <2>2. CASE list[k].offset = Field(p)
    <3>1. Field(relocations[q[k]].of) = Field(relocations[j].of)
      BY <1>4, <1>13, <2>2
    <3>2. q[k] = j
      BY <1>2, <1>3, <1>9, <3>1, FieldsApart DEF LinkInv
    <3>3. q[k] = q[i]
      BY <1>12, <3>2
    <3> QED BY <1>9, <2>2, <3>3
  <2> QED BY <2>1, <2>2
<1> QED BY <1>7, <1>8, <1>14, <1>15

\* What an instruction names has a symbol.
LEMMA NameHasSymbol ==
    ASSUME LinkInv, status = "Written", NEW p \in Referring("Function") \cup Referring("Global")
    PROVE  HasSymbol(symbols, Entity(InstOf(p).ref).name)
<1>1. IsInst(Functions, p) /\ HasField(p)
  BY InstructionsAre DEF Referring, HasField, LinkInv
<1>2. CASE InstOf(p).ref.to = "Function"
  <2>1. PICK j \in 1 .. Len(relocations) : relocations[j].of = p
    BY <1>1, AllResolved
  <2>2. relocations \in Seq(RelocSet(Functions)) /\ Len(relocations) \in Nat
    BY DEF LinkInv, Inv, RelocInv
  <2>3. j <= resolved
    BY <2>2, AllResolved
  <2>4. relocations[j].ref = InstOf(p).ref
    BY <2>1, <2>2, AllResolved DEF LinkInv, RecordInv, RelocsIn
  <2> QED BY <1>2, <2>3, <2>4 DEF LinkInv, NamedInv, Entity
<1>3. CASE InstOf(p).ref.to # "Function"
  <2>1. PICK g : g = InstOf(p).ref.id
    OBVIOUS
  <2>2. InstOf(p).ref.to = "Global"
    BY <1>3 DEF Referring
  <2>3. g \in DOMAIN Globals
    <3>1. PICK f \in Nat, b \in Nat, i \in Nat : p = <<f, b, i>>
      BY <1>1 DEF IsInst
    <3>2. /\ f \in DOMAIN module.functions /\ b \in DOMAIN module.functions[f].blocks
          /\ i \in DOMAIN module.functions[f].blocks[b].code
      BY <1>1, <3>1 DEF IsInst, IsBlock, Functions
    <3>3. InstOf(p) = module.functions[f].blocks[b].code[i]
      BY <3>1 DEF InstOf, Code, Functions
    <3>4. module \in Modules
      BY DEF LinkInv, Inv, PlaceInv
    <3> QED BY <2>1, <2>2, <3>2, <3>3, <3>4, FieldsAssumption DEF Globals
  <2>4. g < global
    <3>1. Globals \in Seq(GlobalVars) /\ global \in Nat /\ global > Len(Globals)
      BY ModulesAssumption DEF LinkInv, StageInv, Late, Inv, PlaceInv, Globals
    <3> QED BY <2>3, <3>1
  <2>5. HasSymbol(symbols, Globals[g].name)
    BY <2>3, <2>4 DEF LinkInv, TableInv, TableIn, CompleteIn
  <2> QED BY <1>3, <2>1, <2>5 DEF Entity
<1> QED BY <1>2, <1>3

\* Where the linker puts what a symbol is of.
PlaceOf(s) == Base(s.section) + s.offset

\* The symbol of a function of the module is where its code starts.
LEMMA FunctionStart ==
    ASSUME LinkInv, NamesDistinct, Late, NEW c \in DOMAIN symbols, NEW f \in DOMAIN Functions,
           ~Functions[f].isDeclaration, symbols[c].name = Functions[f].name
    PROVE  symbols[c].section = "Text" /\ symbols[c].offset = CodeStart(f, 1)
<1>1. PICK s : s = symbols[c]
  OBVIOUS
<1>2. UniqueIn(symbols) /\ CoverIn(symbols, AllPieces) /\ OriginIn(symbols, global, place, Late)
      /\ FirstIn(symbols, AllPieces)
  BY DEF LinkInv, TableInv, TableIn, StartInv
<1>3. s.section # "Undefined"
  BY <1>1, <1>2, DefinedIs DEF UniqueIn
<1>4. s.section = "Text"
  <2>1. ~OfGlobal(s, global)
    BY <1>1 DEF OfGlobal, NamesDistinct
  <2>2. OfFunction(s, place)
    BY <1>1, <1>2, <1>3, <2>1 DEF OriginIn
  <2> QED BY <2>2 DEF OfFunction
<1>5. PICK x \in AllPieces["Text"] : Functions[x.of[1]].name = s.name /\ x.at = s.offset
  <2>1. \E x \in AllPieces[s.section] : Holds(s.section, s.name, x.of) /\ x.at = s.offset
    BY <1>1, <1>2, <1>3 DEF FirstIn
  <2> QED BY <1>4, <2>1 DEF Holds
<1>6. x.of[1] = f
  <2>1. x.of[1] \in DOMAIN Functions /\ ~Functions[x.of[1]].isDeclaration
    BY DEF LinkInv, TableInv, TableIn, PiecesIn
  <2> QED BY <1>1, <1>5, <2>1 DEF NamesDistinct
<1>7. PICK nodes \in Seq(AllNodes) : nodes = stream["Text"] /\ SizesSet(nodes)
  BY TextSection, SectionIs DEF LinkInv, TextInv
<1>8. PICK I \in SUBSET (1 .. Len(nodes)) :
          I = {i \in 1 .. Len(nodes) : nodes[i].kind = "Data" /\ nodes[i].of[1] = f /\ nodes[i].of[2] >= 1}
  OBVIOUS
<1>9. CodeStart(f, 1) = Starts(nodes)[IF I # {} THEN CHOOSE i \in I : \A y \in I : i =< y ELSE 0]
  BY <1>7, <1>8 DEF CodeStart, StartIn, SelectInSeq, Min
<1>10. \A i \in 1 .. Len(nodes) : nodes[i].kind = "Data" => nodes[i].of[2] >= 1
  <2>1. ASSUME NEW i \in 1 .. Len(nodes), nodes[i].kind = "Data" PROVE nodes[i].of[2] >= 1
    <3>1. IsInst(Functions, nodes[i].of)
      BY <1>7, <2>1 DEF LinkInv, TextInv, TextIn, DataIn, Text
    <3>2. PICK g \in Nat, b \in Nat, k \in Nat : nodes[i].of = <<g, b, k>>
      BY <3>1 DEF IsInst
    <3>3. g \in DOMAIN Functions /\ b \in DOMAIN Functions[g].blocks
      BY <3>1, <3>2 DEF IsInst, IsBlock
    <3>4. Functions \in Seq(MirFunctions)
      BY ModulesAssumption DEF LinkInv, Inv, PlaceInv, Functions
    <3>5. Functions[g] \in MirFunctions
      BY <3>3, <3>4
    <3>6. Functions[g].blocks \in Seq(Blocks)
      BY <3>5 DEF MirFunctions
    <3>7. b >= 1
      BY <3>3, <3>6
    <3> QED BY <3>2, <3>7
  <2> QED BY <2>1
<1>11. PICK m \in 1 .. Len(nodes) : nodes[m].kind = "Data" /\ x = Piece(nodes[m], Starts(nodes)[m])
  BY <1>5, <1>7, TextSection, PieceNode
<1>12. m \in I /\ Starts(nodes)[m] = s.offset
  <2>1. nodes[m].of = x.of /\ Starts(nodes)[m] = x.at
    BY <1>11 DEF Piece
  <2>2. nodes[m].of[1] = f /\ nodes[m].of[2] >= 1
    BY <1>6, <1>10, <1>11, <2>1
  <2> QED BY <1>5, <1>8, <1>11, <2>1, <2>2
<1>13. ASSUME NEW i \in I PROVE nodes[i].kind = "Data" /\ s.offset <= Starts(nodes)[i]
  <2>1. nodes[i].kind = "Data" /\ nodes[i].of[1] = f /\ i \in 1 .. Len(nodes)
    BY <1>8
  <2>2. PICK y : y = Piece(nodes[i], Starts(nodes)[i])
    OBVIOUS
  <2>3. y \in AllPieces["Text"]
    BY <1>7, <2>1, <2>2, TextSection, PieceNode
  <2>4. y.of = nodes[i].of /\ y.at = Starts(nodes)[i]
    BY <2>2 DEF Piece
  <2>5. Holds("Text", s.name, y.of)
    BY <1>1, <2>1, <2>4 DEF Holds
  <2>6. Covers(s, y)
    BY <1>1, <1>2, <1>4, <2>3 DEF CoverIn
  <2>7. s.offset <= y.at
    BY <1>4, <2>5, <2>6 DEF Covers, Inside
  <2> QED BY <2>1, <2>4, <2>7
<1>14. CodeStart(f, 1) = s.offset
  <2>1. PICK v : v = s.offset
    OBVIOUS
  <2>2. \A i \in I : nodes[i].kind = "Data"
    BY <1>13
  <2>3. \A i \in I : v <= Starts(nodes)[i]
    BY <1>13, <2>1
  <2>4. m \in I /\ Starts(nodes)[m] = v
    BY <1>12, <2>1
  <2>5. Starts(nodes)[IF I # {} THEN CHOOSE i \in I : \A y \in I : i =< y ELSE 0] = v
    <3>1. nodes \in Seq(AllNodes) /\ SizesSet(nodes)
      BY <1>7
    <3>2. I \in SUBSET (1 .. Len(nodes))
      OBVIOUS
    <3> QED BY <3>1, <3>2, <2>2, <2>3, <2>4, FirstStart
  <2> QED BY <1>9, <2>1, <2>5
<1> QED BY <1>1, <1>4, <1>14

\* The symbol of a global of the module is where its bytes are.
LEMMA GlobalStart ==
    ASSUME LinkInv, NamesDistinct, Late, NEW c \in DOMAIN symbols, NEW g \in DOMAIN Globals,
           ~Globals[g].isDeclaration, symbols[c].name = Globals[g].name,
           symbols[c].name \notin NamesOf(Functions)
    PROVE  /\ symbols[c].section = SectionOf(Globals[g])
           /\ symbols[c].offset = StartIn(SectionOf(Globals[g]), LAMBDA of : of = <<g>>)
<1>1. PICK s : s = symbols[c]
  OBVIOUS
<1>2. UniqueIn(symbols) /\ CoverIn(symbols, AllPieces) /\ OriginIn(symbols, global, place, Late)
      /\ FirstIn(symbols, AllPieces)
  BY DEF LinkInv, TableInv, TableIn, StartInv
<1>3. s.section # "Undefined"
  BY <1>1, <1>2, DefinedIs DEF UniqueIn
<1>4. PICK type \in SectionTypes \ {"Text"} : type = SectionOf(Globals[g])
  BY NamesAre DEF LinkInv, Names
<1>5. s.section = type
  <2>1. ~OfFunction(s, place)
    BY <1>1 DEF OfFunction, NamesDistinct
  <2>2. OfGlobal(s, global)
    BY <1>1, <1>2, <1>3, <2>1 DEF OriginIn
  <2> QED BY <1>1, <1>3, <1>4, <2>2 DEF OfGlobal, NamesDistinct
<1>6. PICK x \in AllPieces[type] : Globals[x.of[1]].name = s.name /\ x.at = s.offset
  <2>1. \E x \in AllPieces[s.section] : Holds(s.section, s.name, x.of) /\ x.at = s.offset
    BY <1>1, <1>2, <1>3 DEF FirstIn
  <2> QED BY <1>4, <1>5, <2>1 DEF Holds
<1>7. x.of = <<g>>
  <2>1. x.of[1] \in DOMAIN Globals
    BY DEF LinkInv, TableInv, TableIn, PiecesIn
  <2>2. x.of[1] = g
    BY <1>1, <1>6, <2>1 DEF NamesDistinct
  <2>3. x.of = <<x.of[1]>>
    BY DEF LinkInv, StartInv
  <2> QED BY <2>2, <2>3
<1>8. PICK nodes \in Seq(AllNodes) : nodes = stream[type] /\ SizesSet(nodes)
  BY SectionIs DEF LinkInv, TextInv
<1>9. PICK I \in SUBSET (1 .. Len(nodes)) :
          I = {i \in 1 .. Len(nodes) : nodes[i].kind = "Data" /\ nodes[i].of = <<g>>}
  OBVIOUS
<1>10. StartIn(type, LAMBDA of : of = <<g>>)
           = Starts(nodes)[IF I # {} THEN CHOOSE i \in I : \A y \in I : i =< y ELSE 0]
  BY <1>8, <1>9 DEF StartIn, SelectInSeq, Min
<1>11. PICK m \in 1 .. Len(nodes) : nodes[m].kind = "Data" /\ x = Piece(nodes[m], Starts(nodes)[m])
  BY <1>6, <1>8, PieceNode
<1>12. m \in I /\ Starts(nodes)[m] = s.offset
  <2>1. nodes[m].of = x.of /\ Starts(nodes)[m] = x.at
    BY <1>11 DEF Piece
  <2> QED BY <1>6, <1>7, <1>9, <1>11, <2>1
<1>13. ASSUME NEW i \in I PROVE nodes[i].kind = "Data" /\ s.offset <= Starts(nodes)[i]
  <2>1. nodes[i].kind = "Data" /\ nodes[i].of = <<g>> /\ i \in 1 .. Len(nodes)
    BY <1>9
  <2>2. PICK y : y = Piece(nodes[i], Starts(nodes)[i])
    OBVIOUS
  <2>3. y \in AllPieces[type]
    BY <1>8, <2>1, <2>2, PieceNode
  <2>4. y.of = <<g>> /\ y.at = Starts(nodes)[i]
    BY <2>1, <2>2 DEF Piece
  <2>5. Holds(type, s.name, y.of)
    BY <1>1, <1>4, <2>4 DEF Holds
  <2>6. Covers(s, y)
    BY <1>1, <1>2, <1>3, <1>5, <2>3 DEF CoverIn
  <2>7. s.offset <= y.at
    BY <1>5, <2>5, <2>6 DEF Covers, Inside
  <2> QED BY <2>1, <2>4, <2>7
<1>14. StartIn(type, LAMBDA of : of = <<g>>) = s.offset
  <2>1. Starts(nodes)[IF I # {} THEN CHOOSE i \in I : \A y \in I : i =< y ELSE 0] = s.offset
    BY <1>8, <1>12, <1>13, FirstStart
  <2> QED BY <1>10, <2>1
<1> QED BY <1>1, <1>4, <1>5, <1>14

\* The linker puts a name where its symbol is.
LEMMA NamePlace ==
    ASSUME LinkInv, NamesDistinct, Late, NEW c \in DOMAIN symbols, NEW name, name = symbols[c].name
    PROVE  AddressOfName(name) = PlaceOf(symbols[c])
<1>1. CASE name \in NamesOf(Functions)
  <2>1. \E f \in DOMAIN Functions : Functions[f].name = name /\ ~Functions[f].isDeclaration
    BY <1>1 DEF NamesOf, ToSet
  <2>2. PICK f \in DOMAIN Functions : f = DefinedIn(Functions, name)
                                      /\ Functions[f].name = name /\ ~Functions[f].isDeclaration
    BY <2>1 DEF DefinedIn
  <2>3. symbols[c].section = "Text" /\ symbols[c].offset = CodeStart(f, 1)
    BY <2>2, FunctionStart
  <2> QED BY <1>1, <2>2, <2>3 DEF AddressOfName, PlaceOf
<1>2. CASE name \notin NamesOf(Functions) /\ name \in NamesOf(Globals)
  <2>1. \E g \in DOMAIN Globals : Globals[g].name = name /\ ~Globals[g].isDeclaration
    BY <1>2 DEF NamesOf, ToSet
  <2>2. PICK g \in DOMAIN Globals : g = DefinedIn(Globals, name)
                                    /\ Globals[g].name = name /\ ~Globals[g].isDeclaration
    BY <2>1 DEF DefinedIn
  <2>3. /\ symbols[c].section = SectionOf(Globals[g])
        /\ symbols[c].offset = StartIn(SectionOf(Globals[g]), LAMBDA of : of = <<g>>)
    BY <1>2, <2>2, GlobalStart
  <2> QED BY <1>2, <2>2, <2>3 DEF AddressOfName, PlaceOf
<1>3. CASE name \notin NamesOf(Functions) /\ name \notin NamesOf(Globals)
  <2>1. PICK s : s = symbols[c]
    OBVIOUS
  <2>2. OfGlobal(s, global) \/ OfFunction(s, place) \/ s.section = "Undefined"
    BY <2>1 DEF LinkInv, TableInv, TableIn, OriginIn
  <2>3. ~OfFunction(s, place)
    BY <1>3, <2>1 DEF OfFunction, NamesOf, ToSet
  <2>4. OfGlobal(s, global) => s.section = "Undefined"
    BY <1>3, <2>1 DEF OfGlobal, NamesOf, ToSet
  <2>5. s.section = "Undefined" /\ s.offset = 0
    BY <2>1, <2>2, <2>3, <2>4 DEF LinkInv, StartInv, FirstIn
  <2>6. PlaceOf(symbols[c]) = Base("Undefined") + 0
    BY <2>1, <2>5 DEF PlaceOf
  <2>7. Base("Undefined") \in Int
    BY SMT DEF Base
  <2>8. Base("Undefined") + 0 = Base("Undefined")
    BY <2>7
  <2> QED BY <1>3, <2>6, <2>8 DEF AddressOfName
<1> QED BY <1>1, <1>2, <1>3

\* The linker fills the field of every relocation in with the place of its
\* symbol.
LEMMA LinkedPlace ==
    ASSUME LinkInv, NEW c \in DOMAIN symbols, NEW reloc, NEW symbol,
           reloc.offset \in Int, reloc.addend = IF target.elf THEN -4 ELSE 0,
           symbol.section = symbols[c].section, symbol.value = symbols[c].offset
    PROVE  Linked(reloc, symbol) = PlaceOf(symbols[c])
<1>1. symbols[c] \in SymbolSet
  BY DEF LinkInv, Inv, SymbolInv
<1>2. symbols[c].section \in SectionTypes \cup {"Undefined"} /\ symbols[c].offset \in Nat
  BY <1>1 DEF SymbolSet
<1>3. \A type \in SectionTypes \cup {"Undefined"} : Base(type) \in Int
  BY SMT DEF Base, SectionTypes
<1>4. PICK S \in Int : S = PlaceOf(symbols[c])
  <2>1. Base(symbols[c].section) \in Int
    BY <1>2, <1>3
  <2> QED BY <1>2, <2>1 DEF PlaceOf
<1>5. PICK field \in Int : field = Base("Text") + reloc.offset
  <2>1. Base("Text") \in Int
    BY <1>3, TextSection
  <2> QED BY <2>1
<1>6. Linked(reloc, symbol) = field + 4 + (IF target.elf THEN S + reloc.addend - field ELSE S - (field + 4))
  BY <1>4, <1>5 DEF Linked, PlaceOf
<1>7. CASE target.elf
  BY <1>4, <1>6, <1>7
<1>8. CASE ~target.elf
  BY <1>4, <1>6, <1>8
<1> QED BY <1>7, <1>8

\* Every instruction leads to what it names.
LEMMA ReferencesReachThen == ASSUME LinkInv, NamesDistinct PROVE ReferencesReach
<1> SUFFICES ASSUME status = "Written", NEW p \in Referring("Function") \cup Referring("Global")
             PROVE  LET name == Entity(InstOf(p).ref).name
                        hits == {k \in DOMAIN file.relocs : file.relocs[k].offset = Field(p)}
                    IN  /\ hits # {} /\ \A j, k \in hits : j = k
                        /\ \A k \in hits :
                               LET reloc == file.relocs[k]
                                   symbol == file.symbols[reloc.symbol + 1 - FirstSymbol]
                               IN  /\ symbol.name = name
                                   /\ ~target.riscv => Linked(reloc, symbol) = AddressOfName(name)
  BY DEF ReferencesReach, Field
<1>1. PICK name : name = Entity(InstOf(p).ref).name
  OBVIOUS
<1>2. PICK i \in DOMAIN objectRelocs :
          /\ objectRelocs[i].name = name
          /\ objectRelocs[i].addend = IF target.elf THEN -4 ELSE 0
          /\ \A k \in DOMAIN objectRelocs : objectRelocs[k].offset = Field(p) <=> k = i
  BY <1>1, OneReloc
<1>3. RelocsInFile
  BY DEF LinkInv, FileRelocInv
<1>4. DOMAIN file.relocs = DOMAIN objectRelocs
      /\ \A k \in DOMAIN objectRelocs : file.relocs[k].offset = objectRelocs[k].offset
  BY <1>3 DEF RelocsInFile
<1>5. {k \in DOMAIN file.relocs : file.relocs[k].offset = Field(p)} = {i}
  BY <1>2, <1>4
<1>6. PICK reloc : reloc = file.relocs[i]
  OBVIOUS
<1>7. PICK at : at = reloc.symbol + 1 - FirstSymbol
  OBVIOUS
<1>8. at \in DOMAIN symbols /\ file.symbols[at].name = name
  <2>1. HasSymbol(symbols, name)
    BY <1>1, NameHasSymbol
  <2>2. HasItsSymbol(i)
    BY <1>2, <1>3 DEF RelocsInFile
  <2> QED BY <1>2, <1>6, <1>7, <2>1, <2>2 DEF HasItsSymbol
<1>9. PICK symbol : symbol = file.symbols[at]
  OBVIOUS
<1>10. ASSUME ~target.riscv PROVE Linked(reloc, symbol) = AddressOfName(name)
  <2>1. PICK q : SymbolsInFile(q)
    BY DEF LinkInv, FileInv
  <2>2. PICK c \in DOMAIN symbols : c = q[at]
    BY <1>8, <2>1 DEF SymbolsInFile
  <2>3. symbol.name = symbols[c].name /\ symbol.section = symbols[c].section /\ symbol.value = symbols[c].offset
    BY <1>8, <1>9, <2>1, <2>2 DEF SymbolsInFile, FileSymbol
  <2>4. reloc.offset = Field(p) /\ reloc.addend = IF target.elf THEN -4 ELSE 0
    BY <1>2, <1>3, <1>4, <1>6 DEF RelocsInFile
  <2>5. Field(p) \in Int
    <3>1. HasField(p)
      BY InstructionsAre DEF Referring, HasField, LinkInv
    <3>2. PICK j \in DOMAIN AllRelocs : AllRelocs[j].of = p
      <4>1. relocations \in Seq(RelocSet(Functions))
        BY DEF LinkInv, Inv, RelocInv
      <4> QED BY <3>1, <4>1, AllResolved
    <3>3. PICK x \in AllPieces["Text"] : x.of = p
      BY <3>2 DEF LinkInv, RecordInv, RelocsIn, Recording
    <3>4. StartOf(p) = x.at
      BY <3>3, PieceStart DEF LinkInv
    <3>5. x.at \in Nat
      BY TextSection DEF LinkInv, TableInv, TableIn, PiecesIn
    <3>6. LengthOf(InstOf(p)) \in Nat
      BY <3>1, FieldRoom DEF LinkInv
    <3> QED BY <3>4, <3>5, <3>6 DEF Field
  <2>6. Linked(reloc, symbol) = PlaceOf(symbols[c])
    BY <2>3, <2>4, <2>5, LinkedPlace
  <2>7. AddressOfName(name) = PlaceOf(symbols[c])
    BY <1>8, <1>9, <2>3, NamePlace DEF Late
  <2> QED BY <2>6, <2>7
<1> QED BY <1>1, <1>5, <1>6, <1>7, <1>8, <1>9, <1>10

\* The references of the file, for any module and target in which whatever
\* gets a symbol of its own has a name of its own: the field of an instruction
\* that names a function or a global has one relocation, with the symbol of
\* that name, and on x86-64 the instruction leads there once it is linked.
THEOREM ReferencesAlwaysReach == Spec => [](NamesDistinct => ReferencesReach)
<1>1. Init => LinkInv
  <2>1. Init => Inv /\ TextInv /\ ResolveInv
    BY InitEstablishesInv, InitText, InitResolve
  <2>2. Init => ReferInv
    BY NothingReferred DEF Init
  <2>3. Init => NamedInv /\ FileInv /\ FileRelocInv
    BY DEF Init, NamedInv, FileInv, FileRelocInv
  <2> QED BY <2>1, <2>2, <2>3, InitTable, InitStart, InitRecord DEF LinkInv
<1>2. LinkInv /\ [Next]_vars => LinkInv'
  BY StepKeepsInv, StepKeepsText, StepKeepsStage, StepKeepsTable, StepKeepsStart, StepKeepsResolve,
     StepKeepsRefer, StepKeepsRecord, StepKeepsNamed, StepKeepsFile, StepKeepsFileRelocs DEF LinkInv
<1>3. LinkInv => (NamesDistinct => ReferencesReach)
  BY ReferencesReachThen
<1> QED BY <1>1, <1>2, <1>3, PTL DEF Spec
=============================================================================
