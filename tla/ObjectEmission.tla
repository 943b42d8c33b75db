--------------------------- MODULE ObjectEmission ---------------------------
(***************************************************************************)
(* From selected code to an object file: EmissionEngine::emitModule with   *)
(* the label and relocation tables of CodeEmitterContext, the emitters and *)
(* relocation resolvers of both targets, and the ELF and COFF writers.     *)
(*                                                                         *)
(* A section is the sequence of what was appended to it (the engine never  *)
(* goes back in one; CodeSection models the stream itself), with the       *)
(* running offset it reports.  An instruction is its size, the field its   *)
(* displacement is in and what it refers to; a name stands for a symbol.   *)
(* Functions and globals are known by their place in the module, blocks by *)
(* an id that no other block of the module has (createId).                 *)
(***************************************************************************)
EXTENDS Integers, Sequences, SequencesExt

CONSTANTS
    Modules,    \* the modules that are compiled
    Targets     \* what they are compiled for

X86Elf == [riscv |-> FALSE, elf |-> TRUE]
X86Coff == [riscv |-> FALSE, elf |-> FALSE]
RiscVElf == [riscv |-> TRUE, elf |-> TRUE]

\* The sections the writers know, in the order they write them, and what
\* the binary descriptor gives each as alignment.
Written == <<"Text", "ReadOnly", "Data", "NonInitialized">>
SectionTypes == {"Text", "ReadOnly", "Data", "NonInitialized"}
SectionAlignment(type) == IF type \in {"Text", "ReadOnly"} THEN 16 ELSE 8
FunctionAlignment == 16

\* What a module is made of.
Insts == [kind : {"Plain", "Jump", "Jcc", "Access", "Unencodable"}, size : Nat,
          ref : [to : {"None", "Block", "Function", "Global"}, id : Nat]]
Linkages == {"Internal", "Weak", "External"}
GlobalVars == [name : STRING, linkage : Linkages, isDeclaration : BOOLEAN, isConstant : BOOLEAN,
               init : {"None", "Zero", "Value"}, typeSize : Nat, initSize : Nat]
Blocks == [id : Nat, code : Seq(Insts)]
MirFunctions == [name : STRING, linkage : Linkages, isDeclaration : BOOLEAN, blocks : Seq(Blocks)]
ASSUME ModulesAssumption ==
    Modules \subseteq [globals : Seq(GlobalVars), functions : Seq(MirFunctions)]
ASSUME ReferencesAssumption ==
    \A m \in Modules : \A f \in DOMAIN m.functions : \A b \in DOMAIN m.functions[f].blocks :
        LET code == m.functions[f].blocks[b].code
        IN  \A i \in DOMAIN code : code[i].ref.to = "Function" =>
                                     code[i].ref.id \in DOMAIN m.functions
\* Only an instruction with a field refers to something, the field of an
\* operand is in its instruction, and a global that is named is in the module.
ASSUME FieldsAssumption ==
    \A m \in Modules : \A f \in DOMAIN m.functions : \A b \in DOMAIN m.functions[f].blocks :
        LET code == m.functions[f].blocks[b].code
        IN  \A i \in DOMAIN code :
                /\ code[i].ref.to # "None" => code[i].kind \in {"Jump", "Jcc", "Access"}
                /\ code[i].kind = "Access" => code[i].size >= 4
                /\ code[i].ref.to = "Global" => code[i].ref.id \in DOMAIN m.globals
\* A declaration has no blocks (isDeclaration), createId gives no id twice and
\* none to a block in front of its function, a branch names a block of its
\* function, and the last block ends in a terminator: the peephole empties a
\* block only of a jump to the next one.
ASSUME BlocksAssumption ==
    \A m \in Modules : \A f \in DOMAIN m.functions :
        LET blocks == m.functions[f].blocks
        IN  /\ m.functions[f].isDeclaration <=> blocks = <<>>
            /\ blocks # <<>> => blocks[Len(blocks)].code # <<>>
            /\ \A b \in DOMAIN blocks :
                   /\ blocks[b].id # 0
                   /\ \A g \in DOMAIN m.functions : \A c \in DOMAIN m.functions[g].blocks :
                          m.functions[g].blocks[c].id = blocks[b].id => g = f /\ c = b
                   /\ \A i \in DOMAIN blocks[b].code :
                          LET inst == blocks[b].code[i]
                          IN  inst.ref.to = "Block" =>
                                  /\ inst.kind \in {"Jump", "Jcc"}
                                  /\ \E t \in DOMAIN blocks : blocks[t].id = inst.ref.id
ASSUME TargetsAssumption == Targets \subseteq [riscv : BOOLEAN, elf : BOOLEAN]

VARIABLES
    module, target,
    status,
    global,        \* the next global
    place,         \* <<function, block, instruction>> that is emitted next
    stream,        \* what each section holds
    cursorOffset,  \* the running offset of each section
    functionOffset,
    symbols, allLabels,
    funcRelocs,    \* m_currentFuncRelocs
    relocations,   \* m_relocations of the text section
    address,       \* m_calculatedOffset of the labels, after finalize
    displacement,  \* what has been patched into the text, by its relocation
    resolved,      \* how many relocations have been resolved
    objectRelocs,
    file

labelling == <<allLabels, funcRelocs, relocations>>
emission == <<stream, cursorOffset, functionOffset, labelling>>
resolution == <<address, displacement, resolved, objectRelocs>>
vars == <<module, target, status, global, place, emission, symbols, resolution, file>>

Functions == module.functions
Globals == module.globals
NoFile == [symbols |-> <<>>]

Init ==
    /\ module \in Modules /\ target \in Targets
    /\ status = "Emitting"
    /\ global = 1 /\ place = <<1, 0, 0>>
    /\ stream = [t \in SectionTypes |-> <<>>]
    /\ cursorOffset = [t \in SectionTypes |-> 0]
    /\ functionOffset = 0
    /\ symbols = <<>> /\ allLabels = {} /\ funcRelocs = <<>> /\ relocations = <<>>
    /\ address = <<>> /\ displacement = <<>> /\ resolved = 0 /\ objectRelocs = <<>>
    /\ file = NoFile

-----------------------------------------------------------------------------
(* Sections and symbols.                                                   *)

Data(size, of) == [kind |-> "Data", size |-> size, of |-> of]
Align(a) == [kind |-> "Align", size |-> a, of |-> <<>>]
Label(id) == [kind |-> "Label", size |-> 0, of |-> id]

AlignUp(offset, a) == offset + ((a - (offset % a)) % a)

\* Where each node of a stream starts, and where the stream ends.
After(offset, node) == IF node.kind = "Align" THEN AlignUp(offset, node.size) ELSE offset + node.size
Starts(nodes) ==
    LET start[k \in 1 .. Len(nodes) + 1] ==
            IF k = 1 THEN 0 ELSE After(start[k - 1], nodes[k - 1])
    IN  start

Symbol(entity, type, offset, size, isFunction) ==
    [name |-> entity.name, section |-> type, offset |-> offset, size |-> size,
     isGlobal |-> entity.linkage # "Internal", isWeak |-> entity.linkage = "Weak",
     isFunction |-> isFunction]

\* An undefined function is global whatever its linkage (makeUndefinedFunctionSymbol).
UndefinedFunction(f) == [Symbol(f, "Undefined", 0, 0, TRUE) EXCEPT !.isGlobal = TRUE]

-----------------------------------------------------------------------------
(* Globals.                                                                *)

Larger(a, b) == IF a < b THEN b ELSE a
SizeOf(g) == LET size == Larger(g.typeSize, g.initSize) IN IF size = 0 THEN 8 ELSE size
AlignmentOf(g) == IF SizeOf(g) < 16 THEN SizeOf(g) ELSE 16
SectionOf(g) ==
    IF g.isConstant THEN "ReadOnly"
    ELSE IF g.init \in {"None", "Zero"} THEN "NonInitialized" ELSE "Data"

\* Mutation: the padding is counted in the stream but not in the symbol.
OffsetOf_Unpadded(g) == cursorOffset[SectionOf(g)]
OffsetOf(g) == AlignUp(cursorOffset[SectionOf(g)], AlignmentOf(g))

\* A declaration is an undefined symbol; a definition goes, aligned, to the
\* section its value calls for, with a symbol for the bytes it takes there.
EmitGlobal ==
    /\ status = "Emitting" /\ global <= Len(Globals)
    /\ LET g == Globals[global]
           type == SectionOf(g)
       IN  IF g.isDeclaration
           THEN /\ symbols' = Append(symbols, Symbol(g, "Undefined", 0, 0, FALSE))
                /\ UNCHANGED <<stream, cursorOffset>>
           ELSE /\ stream' = [stream EXCEPT ![type] =
                                 @ \o <<Align(AlignmentOf(g)), Data(SizeOf(g), <<global>>)>>]
                /\ cursorOffset' = [cursorOffset EXCEPT ![type] =
                                       AlignUp(@, AlignmentOf(g)) + SizeOf(g)]
                /\ symbols' = Append(symbols, Symbol(g, type, OffsetOf(g), SizeOf(g), FALSE))
    /\ global' = global + 1
    /\ UNCHANGED <<module, target, status, place, functionOffset, labelling, resolution, file>>

-----------------------------------------------------------------------------
(* Functions.                                                              *)

\* "Jump" is a near jump or call, "Jcc" a conditional branch, "Access" names
\* its operand in a 32 bit field at its end, "Plain" has no field.
LengthOf(inst) ==
    CASE inst.kind \in {"Plain", "Unencodable"} -> inst.size
      [] inst.kind \notin {"Plain", "Unencodable"} /\ target.riscv -> 4
      [] inst.kind = "Jump" /\ ~target.riscv -> 5
      [] inst.kind = "Jcc" /\ ~target.riscv -> 6
      [] inst.kind = "Access" /\ ~target.riscv -> inst.size

\* Mutation: the field is looked for without the copy the encoder puts first.
RelocOf_NoCopy(inst, offset) ==
    [type |-> IF inst.kind = "Access" THEN "PCRel32" ELSE "BranchRel32",
     address |-> IF inst.kind = "Access" /\ ~target.riscv THEN offset + 3 ELSE offset,
     of |-> place, ref |-> inst.ref]

\* The relocation the emitter records for an instruction at an offset: a
\* branch where it starts, any other reference where its field is.
RelocOf(inst, offset) ==
    [type |-> IF inst.kind = "Access" THEN "PCRel32" ELSE "BranchRel32",
     address |-> IF inst.kind = "Access" /\ ~target.riscv
                 THEN offset + LengthOf(inst) - 4 ELSE offset,
     of |-> place, ref |-> inst.ref]

Code(p) == Functions[p[1]].blocks[p[2]].code
NextPlace(p) == IF p[3] < Len(Code(p)) THEN <<p[1], p[2], p[3] + 1>> ELSE <<p[1], p[2] + 1, 0>>

ReadyFor(f) == status = "Emitting" /\ global > Len(Globals) /\ f \in 1 .. Len(Functions)

\* A declaration is left for the relocations that refer to it.
SkipDeclaration ==
    /\ ReadyFor(place[1]) /\ place[2] = 0
    /\ Functions[place[1]].isDeclaration
    /\ place' = <<place[1] + 1, 0, 0>>
    /\ UNCHANGED <<module, target, status, global, emission, symbols, resolution, file>>

BeginFunction ==
    /\ ReadyFor(place[1]) /\ place[2] = 0
    /\ ~Functions[place[1]].isDeclaration
    /\ LET aligned == AlignUp(cursorOffset["Text"], FunctionAlignment)
       IN  /\ functionOffset' = aligned
           /\ cursorOffset' = [cursorOffset EXCEPT !["Text"] = aligned]
    /\ stream' = [stream EXCEPT !["Text"] = @ \o <<Align(FunctionAlignment), Label(0)>>]
    /\ place' = <<place[1], 1, 0>>
    /\ UNCHANGED <<module, target, status, global, symbols, labelling, resolution, file>>

InFunction(f) == ReadyFor(f) /\ place[2] \in 1 .. Len(Functions[f].blocks)

\* The label of the block gets its node at the end of the text.
BindBlock ==
    /\ InFunction(place[1]) /\ place[3] = 0
    /\ LET id == Functions[place[1]].blocks[place[2]].id
       IN  /\ stream' = [stream EXCEPT !["Text"] = Append(@, Label(id))]
           /\ allLabels' = allLabels \cup {id}
    /\ place' = NextPlace(place)
    /\ UNCHANGED <<module, target, status, global, cursorOffset, functionOffset, symbols,
                   funcRelocs, relocations, resolution,
                   file>>

EmitInst ==
    /\ InFunction(place[1]) /\ place[3] > 0
    /\ LET inst == Code(place)[place[3]]
           offset == cursorOffset["Text"]
       IN  /\ inst.kind # "Unencodable"
           /\ funcRelocs' = IF inst.ref.to = "None" THEN funcRelocs
                            ELSE Append(funcRelocs, RelocOf(inst, offset))
           /\ stream' = [stream EXCEPT !["Text"] = Append(@, Data(LengthOf(inst), place))]
           /\ cursorOffset' = [cursorOffset EXCEPT !["Text"] = offset + LengthOf(inst)]
    /\ place' = NextPlace(place)
    /\ UNCHANGED <<module, target, status, global, functionOffset, symbols, allLabels,
                   relocations, resolution,
                   file>>

\* No encoding: an exception that ends the compilation.
RejectInst ==
    /\ InFunction(place[1]) /\ place[3] > 0
    /\ Code(place)[place[3]].kind = "Unencodable"
    /\ status' = "Failed"
    /\ UNCHANGED <<module, target, global, place, emission, symbols, resolution, file>>

\* endFunction flushes the relocations of the function.
EndFunction ==
    /\ ReadyFor(place[1]) /\ place[2] > Len(Functions[place[1]].blocks)
    /\ relocations' = relocations \o funcRelocs
    /\ funcRelocs' = <<>>
    /\ symbols' = Append(symbols, Symbol(Functions[place[1]], "Text", functionOffset,
                                         cursorOffset["Text"] - functionOffset, TRUE))
    /\ place' = <<place[1] + 1, 0, 0>>
    /\ UNCHANGED <<module, target, status, global, stream, cursorOffset, functionOffset,
                   allLabels, resolution, file>>

-----------------------------------------------------------------------------
(* Labels, branches and relocations.                                       *)

\* Where a label node is in the laid out text.
AddressOf(id) ==
    LET text == stream["Text"]
    IN  Starts(text)[CHOOSE k \in DOMAIN text : text[k].kind = "Label" /\ text[k].of = id]

Finalize ==
    /\ status = "Emitting" /\ global > Len(Globals) /\ place[1] > Len(Functions)
    /\ address' = [id \in allLabels |-> AddressOf(id)]
    /\ status' = "Resolving"
    /\ UNCHANGED <<module, target, global, place, emission, symbols, displacement, resolved,
                   objectRelocs, file>>

\* Two's complement in a field of some bits.
Truncated(value, bits) == ((value + 2 ^ (bits - 1)) % (2 ^ bits)) - (2 ^ (bits - 1))

InstOf(p) == Code(p)[p[3]]

\* Mutation: every branch has the length of a jump.
Displacement_OneLength(reloc, to) ==
    IF target.riscv
    THEN Truncated(to - reloc.address, IF InstOf(reloc.of).kind = "Jcc" THEN 13 ELSE 21)
    ELSE to - (reloc.address + 5)

\* patch: from the next instruction on x86-64, from the branch on RISC-V.
Displacement(reloc, to) ==
    IF target.riscv
    THEN Truncated(to - reloc.address, IF InstOf(reloc.of).kind = "Jcc" THEN 13 ELSE 21)
    ELSE to - (reloc.address + LengthOf(InstOf(reloc.of)))

\* getRelocationFieldOffset: where the field of the instruction is.
FieldOffset(reloc) ==
    IF target.riscv \/ reloc.type # "BranchRel32" THEN reloc.address
    ELSE reloc.address + LengthOf(InstOf(reloc.of)) - 4

ObjectReloc(reloc, entity) ==
    [offset |-> FieldOffset(reloc), name |-> entity.name, type |-> reloc.type,
     addend |-> IF target.elf THEN -4 ELSE 0]

NextReloc == relocations[resolved + 1]
Resolving(to) ==
    /\ status = "Resolving" /\ resolved < Len(relocations)
    /\ NextReloc.ref.to = to
    /\ resolved' = resolved + 1

PatchBranch ==
    /\ Resolving("Block")
    /\ displacement' = Append(displacement,
           [of |-> NextReloc.of, value |-> Displacement(NextReloc, address[NextReloc.ref.id])])
    /\ UNCHANGED <<module, target, status, global, place, emission, symbols, address,
                   objectRelocs, file>>

IsDefined(name) == \E k \in DOMAIN symbols : symbols[k].name = name

\* The first reference to a name without a symbol adds an undefined one.
ReferToFunction ==
    /\ Resolving("Function")
    /\ LET f == Functions[NextReloc.ref.id]
       IN  /\ symbols' = IF IsDefined(f.name) THEN symbols ELSE Append(symbols, UndefinedFunction(f))
           /\ objectRelocs' = Append(objectRelocs, ObjectReloc(NextReloc, f))
    /\ UNCHANGED <<module, target, status, global, place, emission, address, displacement, file>>

ReferToGlobal ==
    /\ Resolving("Global")
    /\ objectRelocs' = Append(objectRelocs, ObjectReloc(NextReloc, Globals[NextReloc.ref.id]))
    /\ UNCHANGED <<module, target, status, global, place, emission, symbols, address,
                   displacement, file>>

-----------------------------------------------------------------------------
(* The object file.                                                        *)

SizeIn(type) == Last(Starts(stream[type]))

IsLocal(symbol) == ~symbol.isWeak /\ ~symbol.isGlobal
Locals == {k \in DOMAIN symbols : IsLocal(symbols[k])}

\* The symbols at some places of the engine's list, in their order there.
SymbolsAt(places) ==
    LET found[k \in 0 .. Len(symbols)] ==
            IF k = 0 THEN <<>>
            ELSE IF k \in places THEN Append(found[k - 1], symbols[k]) ELSE found[k - 1]
    IN  found[Len(symbols)]

\* ELF wants the local symbols first and numbers symbols from 1; COFF keeps
\* the order of the engine and numbers from 0.
Sorted == IF target.elf THEN SymbolsAt(Locals) \o SymbolsAt(DOMAIN symbols \ Locals) ELSE symbols
FirstSymbol == IF target.elf THEN 1 ELSE 0

\* symIndexMap: the last symbol of a name, and entry 0 for a name without any.
IndexOf(name, table) ==
    LET k == SelectLastInSeq(table, LAMBDA symbol : symbol.name = name)
    IN  IF k = 0 THEN 0 ELSE k - 1 + FirstSymbol

Binding(symbol) ==
    IF symbol.isWeak /\ target.elf THEN "Weak"
    ELSE IF symbol.isGlobal THEN "Global" ELSE "Local"

FileSymbol(symbol) ==
    [name |-> symbol.name, section |-> symbol.section, value |-> symbol.offset,
     size |-> symbol.size, binding |-> Binding(symbol)]
FileReloc(reloc) ==
    [offset |-> reloc.offset, symbol |-> IndexOf(reloc.name, Sorted),
     type |-> reloc.type, addend |-> reloc.addend]

\* The parts of the file in their order, with their sizes and alignments
\* there; a section of zeros takes no room.
NameSize == 4
Part(name, size, align) == [name |-> name, size |-> size, align |-> align]
SectionPart(type) ==
    Part(type, IF type = "NonInitialized" THEN 0 ELSE SizeIn(type),
         IF target.elf THEN SectionAlignment(type) ELSE 4)
Relocs(entry, align) ==
    IF objectRelocs = <<>> THEN <<>> ELSE <<Part("Relocations", entry * Len(objectRelocs), align)>>

ElfParts ==
    <<Part("FileHeader", 64, 1)>> \o [k \in 1 .. 4 |-> SectionPart(Written[k])] \o Relocs(24, 8)
    \o <<Part("Symbols", 24 * (Len(symbols) + 1), 8), Part("Names", 1 + NameSize * Len(symbols), 1),
         Part("SectionNames", 52 + (IF objectRelocs = <<>> THEN 0 ELSE 11), 1),
         Part("SectionHeaders", 64 * (8 + (IF objectRelocs = <<>> THEN 0 ELSE 1)), 8)>>
CoffParts ==
    <<Part("FileHeader", 20, 1), Part("SectionHeaders", 40 * 4, 1)>>
    \o [k \in 1 .. 4 |-> SectionPart(Written[k])] \o Relocs(10, 4)
    \o <<Part("Symbols", 18 * Len(symbols), 4), Part("Names", 4 + NameSize * Len(symbols), 1)>>

\* Mutation: the room of a part is counted from before its padding.
EndAfter_NoPadding(before, part) == before + part.size
EndAfter(before, part) == AlignUp(before, part.align) + part.size

\* Where each part ends, and where it is.
Ends(parts) ==
    LET end[k \in 0 .. Len(parts)] == IF k = 0 THEN 0 ELSE EndAfter(end[k - 1], parts[k])
    IN  end
Laid(parts) ==
    [k \in DOMAIN parts |->
        [name |-> parts[k].name, at |-> AlignUp(Ends(parts)[k - 1], parts[k].align),
         size |-> parts[k].size]]

Write ==
    /\ status = "Resolving" /\ resolved = Len(relocations)
    /\ LET parts == IF target.elf THEN ElfParts ELSE CoffParts
       IN  file' = [symbols |-> [k \in DOMAIN symbols |-> FileSymbol(Sorted[k])],
                    locals |-> Len(SymbolsAt(Locals)),
                    relocs |-> [k \in DOMAIN objectRelocs |-> FileReloc(objectRelocs[k])],
                    parts |-> Laid(parts), size |-> Ends(parts)[Len(parts)]]
    /\ status' = "Written"
    /\ UNCHANGED <<module, target, global, place, emission, symbols, resolution>>

Next ==
    \/ EmitGlobal
    \/ SkipDeclaration \/ BeginFunction \/ BindBlock \/ EmitInst \/ RejectInst \/ EndFunction
    \/ Finalize
    \/ PatchBranch \/ ReferToFunction \/ ReferToGlobal
    \/ Write

Spec == Init /\ [][Next]_vars
-----------------------------------------------------------------------------
(* Properties.                                                             *)

Instructions ==
    UNION {UNION {{<<f, b, i>> : i \in DOMAIN Functions[f].blocks[b].code} :
                  b \in DOMAIN Functions[f].blocks} : f \in DOMAIN Functions}
Referring(to) == {p \in Instructions : InstOf(p).ref.to = to}

\* Where what was emitted for something is in the laid out section.
StartIn(type, Test(_)) ==
    LET nodes == stream[type]
        k == SelectInSeq(nodes, LAMBDA node : node.kind = "Data" /\ Test(node.of))
    IN  Starts(nodes)[k]
StartOf(p) == StartIn("Text", LAMBDA of : of = p)
\* From a block of a function on: the code of an empty block is what follows.
CodeStart(f, b) == StartIn("Text", LAMBDA of : of[1] = f /\ of[2] >= b)
BlockStart(f, id) ==
    CodeStart(f, CHOOSE b \in DOMAIN Functions[f].blocks : Functions[f].blocks[b].id = id)

\* patch and the labels: in the finished text every branch to a block has been
\* patched and leads to the first instruction of that block.
BranchesLand ==
    status = "Written" =>
        \A p \in Referring("Block") :
            LET patches == {k \in DOMAIN displacement : displacement[k].of = p}
                base == IF target.riscv THEN StartOf(p) ELSE StartOf(p) + LengthOf(InstOf(p))
            IN  /\ patches # {}
                /\ \A k \in patches : base + displacement[k].value = BlockStart(p[1], InstOf(p).ref.id)

Entity(ref) == IF ref.to = "Function" THEN Functions[ref.id] ELSE Globals[ref.id]
NamesOf(entities) == {e.name : e \in {e \in ToSet(entities) : ~e.isDeclaration}}
DefinedIn(entities, name) ==
    CHOOSE k \in DOMAIN entities : entities[k].name = name /\ ~entities[k].isDeclaration

\* The nodes that hold what a name stands for.
Holds(type, name, of) ==
    IF type = "Text" THEN Functions[of[1]].name = name ELSE Globals[of[1]].name = name

\* The symbol table of the engine: a symbol covers the bytes that were emitted
\* for its function or global, all of them and no others, whatever padding and
\* whatever other objects the section holds; a name has one symbol, and it is
\* undefined only when the module does not define the name.
SymbolsDescribeObjects ==
    status = "Written" =>
        \A k \in DOMAIN file.symbols :
            LET symbol == file.symbols[k]
                nodes == stream[symbol.section]
                data == {n \in DOMAIN nodes : nodes[n].kind = "Data"}
                starts == Starts(nodes)
                Inside(n) == /\ symbol.value <= starts[n]
                             /\ starts[n] + nodes[n].size <= symbol.value + symbol.size
                Outside(n) == \/ starts[n] + nodes[n].size <= symbol.value
                              \/ symbol.value + symbol.size <= starts[n]
            IN  /\ \A other \in DOMAIN file.symbols \ {k} : file.symbols[other].name # symbol.name
                /\ IF symbol.section = "Undefined"
                   THEN symbol.name \notin NamesOf(Functions) \cup NamesOf(Globals)
                   ELSE \A n \in data :
                            IF Holds(symbol.section, symbol.name, nodes[n].of)
                            THEN Inside(n) ELSE Outside(n)

\* A linker: it puts sections somewhere, gives undefined names an address, and
\* fills the field of a relocation in.  What the field then leads to is counted
\* from the end of the field on x86-64.
Base(type) ==
    CASE type = "Text" -> 4096 [] type = "ReadOnly" -> 8192 [] type = "Data" -> 12288
      [] type = "NonInitialized" -> 16384 [] type = "Undefined" -> 20480
Linked(reloc, symbol) ==
    LET field == Base("Text") + reloc.offset
        S == Base(symbol.section) + symbol.value
    IN  field + 4 + (IF target.elf THEN S + reloc.addend - field ELSE S - (field + 4))

AddressOfName(name) ==
    IF name \in NamesOf(Functions)
    THEN Base("Text") + CodeStart(DefinedIn(Functions, name), 1)
    ELSE IF name \in NamesOf(Globals)
    THEN LET g == DefinedIn(Globals, name)
             type == SectionOf(Globals[g])
         IN  Base(type) + StartIn(type, LAMBDA of : of = <<g>>)
    ELSE Base("Undefined")

\* The relocations: the field of every instruction that names a function or a
\* global has one relocation, with the symbol of that name, and on x86-64 the
\* instruction leads there once a linker has filled the field in.
ReferencesReach ==
    status = "Written" =>
        \A p \in Referring("Function") \cup Referring("Global") :
            LET name == Entity(InstOf(p).ref).name
                field == IF target.riscv THEN StartOf(p) ELSE StartOf(p) + LengthOf(InstOf(p)) - 4
                hits == {k \in DOMAIN file.relocs : file.relocs[k].offset = field}
            IN  /\ hits # {} /\ \A j, k \in hits : j = k
                /\ \A k \in hits :
                       LET reloc == file.relocs[k]
                           symbol == file.symbols[reloc.symbol + 1 - FirstSymbol]
                       IN  /\ symbol.name = name
                           /\ ~target.riscv => Linked(reloc, symbol) = AddressOfName(name)

\* The layout of both writers: parts of the file follow one another without
\* sharing a byte and end with it, and the local symbols of an ELF file are
\* those in front of the index that its header gives.
FileWellFormed ==
    status = "Written" =>
        /\ \A j, k \in DOMAIN file.parts :
               j < k => file.parts[j].at + file.parts[j].size <= file.parts[k].at
        /\ file.size = Last(file.parts).at + Last(file.parts).size
        /\ target.elf => \A k \in DOMAIN file.symbols :
                             (k <= file.locals) <=> (file.symbols[k].binding = "Local")

\* Symbols of one section follow one another: none shares a byte with another.
SymbolsDisjoint ==
    \A j, k \in DOMAIN symbols :
        /\ j < k
        /\ symbols[j].section = symbols[k].section
        /\ symbols[k].section # "Undefined"
        => symbols[j].offset + symbols[j].size <= symbols[k].offset
=============================================================================
