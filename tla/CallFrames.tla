------------------------------ MODULE CallFrames ------------------------------
(***************************************************************************)
(* A call, from the operands of a CALL to the registers and the stack:     *)
(* the legalization of calls, returns and signatures, MirAbiLowererPass    *)
(* with the conventions of the targets, and the frame lowerers.            *)
(*                                                                         *)
(* A caller without parameters calls a callee once.  Both are lowered, the *)
(* one after the other, and then run on a machine of registers and words   *)
(* of the stack.  What the two do apart from the call is to write all over *)
(* the objects of their frames and the registers they may use.  The        *)
(* registers of a function before allocation ("virtual") are storage of    *)
(* their own; the register allocator adds spill slots and the registers to *)
(* save.  Frames are smaller than the 4096 bytes from which they would be  *)
(* probed.                                                                 *)
(***************************************************************************)
EXTENDS Integers, Sequences, FiniteSets, SequencesExt, TLC

CONSTANT Calls  \* the calls that are compiled

-----------------------------------------------------------------------------
(* Conventions and calls.                                                  *)

SysV == [riscv |-> FALSE, positional |-> FALSE, shadow |-> 0,
         integer |-> <<"rdi", "rsi", "rdx", "rcx", "r8", "r9">>,
         float |-> <<"xmm0", "xmm1", "xmm2", "xmm3", "xmm4", "xmm5", "xmm6", "xmm7">>,
         returns |-> [Int |-> "rax", Pointer |-> "rax", Float |-> "xmm0"],
         sret |-> "rdi", memory |-> TRUE,
         saved |-> <<"rbp", "rbx", "r12", "r13">>, sp |-> "rsp", fp |-> "rbp"]
Win64 == [riscv |-> FALSE, positional |-> TRUE, shadow |-> 32,
          integer |-> <<"rcx", "rdx", "r8", "r9">>,
          float |-> <<"xmm0", "xmm1", "xmm2", "xmm3">>,
          returns |-> [Int |-> "rax", Pointer |-> "rax", Float |-> "xmm0"],
          sret |-> "rcx", memory |-> FALSE,
          saved |-> <<"rbp", "rbx", "rdi", "rsi">>, sp |-> "rsp", fp |-> "rbp"]
LP64D == [riscv |-> TRUE, positional |-> FALSE, shadow |-> 0,
          integer |-> <<"a0", "a1", "a2", "a3", "a4", "a5", "a6", "a7">>,
          float |-> <<"fa0", "fa1", "fa2", "fa3", "fa4", "fa5", "fa6", "fa7">>,
          returns |-> [Int |-> "a0", Pointer |-> "a0", Float |-> "fa0"],
          sret |-> "a0", memory |-> FALSE,
          saved |-> <<"s0", "s1", "s2", "s3">>, sp |-> "sp", fp |-> "s0"]
Conventions == {SysV, Win64, LP64D}

\* A frame: ALLOCs with their sizes and alignments, a DALLOC or none, spill
\* slots, does the allocator take the frame pointer's register where it is free,
\* and the other registers to save that it takes, by their places in "saved".
Objects == [size : Nat, align : Nat]
Frames == [allocs : Seq(Objects), dynamic : BOOLEAN, spills : Nat, fp : BOOLEAN, saves : Seq(2 .. 4)]
ASSUME CallsAssumption ==
    Calls \subseteq [cc : Conventions, args : Seq({"Int", "Float", "Pointer"}),
                     result : {"Void", "Int", "Float", "Big"}, caller : Frames, callee : Frames]

Names == <<"1", "2", "3", "4", "5", "6", "7", "8", "9">>
Functions == {"caller", "callee"}

VARIABLES
    call,
    stage,      \* of the function that is being compiled, or "Running" and what follows
    function,
    legal,      \* the token-bound instructions: PUSH_ARG, POP_RET, POP_ARG, PUSH_RET
    objects,    \* of the stack frames
    usedCalleeSavedRegs,
    layout,     \* how far calculateFrameLayout has come
    code,
    pc, registers, memory,
    entered     \* what the registers held when a function was entered

lowering == <<function, legal, objects, usedCalleeSavedRegs, layout, code>>
machine == <<pc, registers, memory, entered>>
vars == <<call, stage, lowering, machine>>

cc == call.cc
FrameOf(f) == call[f]

Instr(op, dst, src, imm) == [op |-> op, dst |-> dst, src |-> src, imm |-> imm]
Copy(dst, src) == Instr("Add", dst, src, 0)
Add(dst, src, imm) == Instr("Add", dst, src, imm)
Load(dst, base, imm) == Instr("Load", dst, base, imm)
Store(base, imm, src) == Instr("Store", base, src, imm)
Push(reg) == Instr("Push", "", reg, 0)
Pop(reg) == Instr("Pop", reg, "", 0)
Plain(op) == Instr(op, "", "", 0)
\* The same of a stack object, until the frame is laid out.
OfObject(op, reg, k) == Instr(op, reg, reg, k)

NoLayout == [laid |-> 0, currentOffset |-> 0, incoming |-> 0]
StackTop == 4000

Init ==
    /\ call \in Calls
    /\ stage = "Legalize" /\ function = "caller"
    /\ legal = [pushes |-> <<>>, results |-> <<>>, pops |-> <<>>, returns |-> <<>>]
    /\ objects = [f \in Functions |-> <<>>]
    /\ usedCalleeSavedRegs = [f \in Functions |-> <<>>]
    /\ layout = NoLayout
    /\ code = [f \in Functions |-> <<>>]
    /\ pc = <<"caller", 1>> /\ registers = <<>> /\ memory = <<>> /\ entered = <<>>

Compiling(f, at) == function = f /\ stage = at

-----------------------------------------------------------------------------
(* Legalization.                                                           *)

\* canReturnInRegs: only System V has a rule about sizes.
CanReturnInRegs(type) == ~(cc.memory /\ type = "Big")
Value(name, type) == [name |-> name, type |-> type]

\* LegalizeCall: the address of the room for a large result comes first, and
\* only a result in a register is taken back.
LegalizeCall ==
    /\ Compiling("caller", "Legalize")
    /\ LET args == [k \in DOMAIN call.args |-> Value("arg" \o Names[k], call.args[k])]
       IN  legal' = [legal EXCEPT
               !.pushes = IF CanReturnInRegs(call.result) THEN args
                          ELSE <<Value("buffer", "Pointer")>> \o args,
               !.results = IF call.result = "Void" \/ ~CanReturnInRegs(call.result) THEN <<>>
                           ELSE <<Value("result", call.result)>>]
    /\ stage' = "Abi"
    /\ UNCHANGED <<call, function, objects, usedCalleeSavedRegs, layout, code, machine>>

\* Mutation: the parameter for the address of the result is forgotten.
Parameters_NoSret == [k \in DOMAIN call.args |-> Value("param" \o Names[k], call.args[k])]

\* The parameters of the callee; a pointer that is there already in front is
\* taken for the one that the result needs.
Parameters ==
    LET declared == [k \in DOMAIN call.args |-> Value("param" \o Names[k], call.args[k])]
        hasSretParam == declared # <<>> /\ Head(declared).type = "Pointer"
    IN  IF CanReturnInRegs(call.result) \/ hasSretParam THEN declared
        ELSE <<Value("sret", "Pointer")>> \o declared

\* MirFunctionSignatureLegalizerPass and LegalizeReturn: a result that does not
\* fit goes through the first parameter, which is then what is returned.
LegalizeCallee ==
    /\ Compiling("callee", "Legalize")
    /\ legal' = [legal EXCEPT
           !.pops = Parameters,
           !.returns = IF call.result = "Void" THEN <<>>
                       ELSE IF CanReturnInRegs(call.result) \/ Parameters = <<>>
                       THEN <<Value("value", call.result)>> ELSE <<Head(Parameters)>>]
    /\ stage' = "Abi"
    /\ UNCHANGED <<call, function, objects, usedCalleeSavedRegs, layout, code, machine>>

-----------------------------------------------------------------------------
(* The ABI lowerer.                                                        *)

Bank(value) == IF value.type = "Float" THEN "float" ELSE "integer"

\* getArgLoc: the register of the slot, or the next one of the bank; on the
\* stack once they are used up.
Cursor(values, k) ==
    IF cc.positional THEN k - 1
    ELSE Cardinality({j \in 1 .. k - 1 : Bank(values[j]) = Bank(values[k])})
InRegister(values, k) == Cursor(values, k) < Len(cc[Bank(values[k])])
RegisterOf(values, k) == cc[Bank(values[k])][Cursor(values, k) + 1]

OnStack(values) == {k \in DOMAIN values : ~InRegister(values, k)}
\* allocateStack: each has an object in the frame of the function that is compiled.
StackParams(values) ==
    [j \in 1 .. Cardinality(OnStack(values)) |->
        [source |-> "Parameter", size |-> 8, align |-> 8, offset |-> 0]]
ObjectOf(values, k) == Cardinality({j \in OnStack(values) : j <= k})

ToLocation(values, k) ==
    IF InRegister(values, k) THEN Copy(RegisterOf(values, k), values[k].name)
    ELSE OfObject("StoreObject", values[k].name, ObjectOf(values, k))
FromLocation(values, k) ==
    IF InRegister(values, k) THEN Copy(values[k].name, RegisterOf(values, k))
    ELSE OfObject("LoadObject", values[k].name, ObjectOf(values, k))

\* What the caller has to do: fill its frame, make room for a large result,
\* pass the arguments, call, take the result.
CallSequence(args, results) ==
    <<Plain("Fill")>>
    \o (IF CanReturnInRegs(call.result) THEN <<>> ELSE <<OfObject("Alloc", "buffer", 0)>>)
    \o [k \in DOMAIN args |-> ToLocation(args, k)]
    \o <<Plain("Call")>>
    \o [k \in DOMAIN results |-> Copy(results[k].name, cc.returns[results[k].type])]
    \o <<Plain("Use"), Plain("Ret")>>

\* Mutation: the result is taken in front of the call.
ProcessCall_ResultFirst ==
    /\ Compiling("caller", "Abi")
    /\ LET args == legal.pushes
           sequence == CallSequence(args, legal.results)
           at == SelectInSeq(sequence, LAMBDA i : i.op = "Call")
       IN  /\ code' = [code EXCEPT !["caller"] =
                  IF legal.results = <<>> THEN sequence
                  ELSE ReplaceAt(ReplaceAt(sequence, at, sequence[at + 1]), at + 1, sequence[at])]
           /\ objects' = [objects EXCEPT !["caller"] = @ \o StackParams(args)]
    /\ stage' = "Allocate"
    /\ UNCHANGED <<call, function, legal, usedCalleeSavedRegs, layout, machine>>

\* processCallBlock and processCallReturnBlock.
ProcessCall ==
    /\ Compiling("caller", "Abi")
    /\ code' = [code EXCEPT !["caller"] = CallSequence(legal.pushes, legal.results)]
    /\ objects' = [objects EXCEPT !["caller"] = @ \o StackParams(legal.pushes)]
    /\ stage' = "Allocate"
    /\ UNCHANGED <<call, function, legal, usedCalleeSavedRegs, layout, machine>>

\* processReturnBlock: a large result leaves its address in the register that
\* it came in.
ReturnMoves(returns) ==
    IF returns = <<>> THEN <<>>
    ELSE IF CanReturnInRegs(call.result)
    THEN <<Copy(cc.returns[returns[1].type], returns[1].name)>>
    ELSE <<Store(returns[1].name, 0, "value"), Copy(cc.sret, returns[1].name)>>

\* processFunctionArguments and processReturnBlock.
ProcessCallee ==
    /\ Compiling("callee", "Abi")
    /\ LET params == legal.pops
       IN  /\ code' = [code EXCEPT !["callee"] =
                  [k \in DOMAIN params |-> FromLocation(params, k)]
                  \o (IF call.callee.dynamic THEN <<Plain("Dalloc")>> ELSE <<>>)
                  \o <<Plain("Fill")>> \o ReturnMoves(legal.returns) \o <<Plain("Ret")>>]
           /\ objects' = [objects EXCEPT !["callee"] = @ \o StackParams(params)]
    /\ stage' = "Allocate"
    /\ UNCHANGED <<call, function, legal, usedCalleeSavedRegs, layout, machine>>

\* The register allocator adds slots for what it spills, and records the callee
\* saved registers it takes.  It takes the frame pointer's until the frame has
\* an object; a record it has made before the first slot stays.
Allocate ==
    /\ stage = "Allocate"
    /\ LET frame == FrameOf(function)
       IN  usedCalleeSavedRegs' = [usedCalleeSavedRegs EXCEPT ![function] =
               (IF frame.fp /\ objects[function] = <<>> THEN <<cc.fp>> ELSE <<>>)
               \o [k \in DOMAIN frame.saves |-> cc.saved[frame.saves[k]]]]
    /\ objects' = [objects EXCEPT ![function] = @ \o
           [k \in 1 .. FrameOf(function).spills |->
               [source |-> "Spill", size |-> 8, align |-> 8, offset |-> 0]]]
    /\ stage' = "Allocs"
    /\ UNCHANGED <<call, function, legal, layout, code, machine>>

-----------------------------------------------------------------------------
(* The frame lowerers.                                                     *)

Object(source, size, align) == [source |-> source, size |-> size, align |-> align, offset |-> 0]
Allocs(f) ==
    [k \in DOMAIN FrameOf(f).allocs |->
        Object("Variable", FrameOf(f).allocs[k].size, FrameOf(f).allocs[k].align)]
    \o (IF f = "caller" /\ ~CanReturnInRegs(call.result) THEN <<Object("Variable", 72, 8)>> ELSE <<>>)

DynamicSize == 32

\* lowerAlloc: an ALLOC becomes the address of a new object; lowerDAlloc: room
\* under the stack pointer.
LowerInst(i) ==
    CASE i.op = "Alloc" -> <<OfObject("AddressOf", i.dst, Len(objects[function]) + Len(Allocs(function)))>>
      [] i.op = "Dalloc" -> <<Add(cc.sp, cc.sp, -DynamicSize), Copy("dynamic", cc.sp)>>
      [] i.op \notin {"Alloc", "Dalloc"} -> <<i>>
LowerAllocs ==
    /\ stage = "Allocs"
    /\ objects' = [objects EXCEPT ![function] = @ \o Allocs(function)]
    /\ code' = [code EXCEPT ![function] = FlattenSeq([k \in DOMAIN @ |-> LowerInst(@[k])])]
    /\ layout' = [laid |-> 0, currentOffset |-> 8 * Len(usedCalleeSavedRegs[function]),
                  incoming |-> 16 + cc.shadow]
    /\ stage' = "Layout"
    /\ UNCHANGED <<call, function, legal, usedCalleeSavedRegs, machine>>

Larger(a, b) == IF a < b THEN b ELSE a
AlignUp(offset, a) == offset + ((a - (offset % a)) % a)
AlignOf(object) == Larger(object.align, 8)

\* Mutation: the offset is taken before the object has its room.
Below_NoSize(object) == AlignUp(layout.currentOffset, AlignOf(object))

\* How far below the frame pointer an object has to begin.
Below(object) == AlignUp(layout.currentOffset + object.size, AlignOf(object))

\* calculateFrameLayout, for one object: parameters upwards behind the return
\* address, all others down from the frame pointer.
LayObject ==
    /\ stage = "Layout" /\ layout.laid < Len(objects[function])
    /\ LET k == layout.laid + 1
           object == objects[function][k]
           in == AlignUp(layout.incoming, AlignOf(object))
       IN  IF object.source = "Parameter"
           THEN /\ objects' = [objects EXCEPT ![function][k].offset = in]
                /\ layout' = [layout EXCEPT !.laid = k, !.incoming = in + Larger(object.size, 8)]
           ELSE /\ objects' = [objects EXCEPT ![function][k].offset = -Below(object)]
                /\ layout' = [layout EXCEPT !.laid = k, !.currentOffset = Below(object)]
    /\ UNCHANGED <<call, stage, function, legal, usedCalleeSavedRegs, code, machine>>

TotalFrameSize == AlignUp(layout.currentOffset + cc.shadow, 16)

HasFramePointer(f) == objects[f] # <<>>
\* The frame pointer is saved apart, in a function that has one.
Saved(f) == SelectSeq(usedCalleeSavedRegs[f], LAMBDA r : ~(HasFramePointer(f) /\ r = cc.fp))
MoveSp(n) == IF n = 0 THEN <<>> ELSE <<Add(cc.sp, cc.sp, n)>>

Prologue(f) ==
    LET saved == Saved(f)
    IN  IF cc.riscv
        THEN (IF HasFramePointer(f)
              THEN <<Add(cc.sp, cc.sp, -16), Store(cc.sp, 8, "ra"), Store(cc.sp, 0, cc.fp),
                     Add(cc.fp, cc.sp, 16)>>
              ELSE <<>>)
             \o MoveSp(-TotalFrameSize)
             \o FlattenSeq([k \in DOMAIN saved |-> <<Add(cc.sp, cc.sp, -16), Store(cc.sp, 0, saved[k])>>])
        ELSE (IF HasFramePointer(f) THEN <<Push(cc.fp), Copy(cc.fp, cc.sp)>> ELSE <<>>)
             \o MoveSp(-TotalFrameSize)
             \o [k \in DOMAIN saved |-> Push(saved[k])]

\* Mutation: the frame pointer is popped with the others.
RestoreOrder_All(f) == Reverse(usedCalleeSavedRegs[f])
RestoreOrder(f) == Reverse(Saved(f))

Epilogue(f) ==
    LET saved == RestoreOrder(f)
    IN  IF cc.riscv
        THEN FlattenSeq([k \in DOMAIN saved |-> <<Load(saved[k], cc.sp, 0), Add(cc.sp, cc.sp, 16)>>])
             \o (IF HasFramePointer(f)
                 THEN <<Add(cc.sp, cc.fp, -16), Load(cc.fp, cc.sp, 0), Load("ra", cc.sp, 8),
                        Add(cc.sp, cc.sp, 16)>>
                 ELSE MoveSp(TotalFrameSize))
        ELSE [k \in DOMAIN saved |-> Pop(saved[k])]
             \o (IF HasFramePointer(f) THEN <<Copy(cc.sp, cc.fp), Pop(cc.fp)>> ELSE MoveSp(TotalFrameSize))

\* lowerStackObjectReferences, and the epilogue in front of the return.
Finished(f, i) ==
    LET at == objects[f][i.imm].offset
    IN  CASE i.op = "Ret" -> Epilogue(f) \o <<i>>
          [] i.op = "LoadObject" -> <<Load(i.dst, cc.fp, at)>>
          [] i.op = "StoreObject" -> <<Store(cc.fp, at, i.src)>>
          [] i.op = "AddressOf" -> <<Add(i.dst, cc.fp, at)>>
          [] i.op \notin {"Ret", "LoadObject", "StoreObject", "AddressOf"} -> <<i>>

\* What the machine holds when the caller is called: the return address on the
\* stack or in ra, and something of its own in every register to keep.
OuterReturn == 8001
CallerReturn == 8002
Scratch == ToSet(cc.integer) \cup ToSet(cc.float) \cup {cc.returns.Int, cc.returns.Float}
StartRegisters ==
    [k \in ToSet(cc.saved) |-> 10 + SelectInSeq(cc.saved, LAMBDA r : r = k)]
    @@ [k \in {"arg" \o Names[j] : j \in DOMAIN call.args} |->
           100 + (CHOOSE j \in DOMAIN call.args : k = "arg" \o Names[j])]
    @@ (cc.sp :> StackTop @@ "ra" :> OuterReturn @@ "value" :> 500)
    @@ [r \in Scratch \cup {"buffer", "result", "sret", "dynamic"}
              \cup {"param" \o Names[j] : j \in DOMAIN call.args} |-> 0]

\* insertPrologue, insertEpilogue and the references; then the next function
\* is compiled, or the two are run.
FinishFrame ==
    /\ stage = "Layout" /\ layout.laid = Len(objects[function])
    /\ code' = [code EXCEPT ![function] =
           Prologue(function) \o FlattenSeq([k \in DOMAIN @ |-> Finished(function, @[k])])]
    /\ layout' = NoLayout
    /\ IF function = "caller"
       THEN /\ function' = "callee" /\ stage' = "Legalize"
            /\ UNCHANGED machine
       ELSE /\ stage' = "Running"
            /\ registers' = StartRegisters
            /\ memory' = IF cc.riscv THEN <<>> ELSE StackTop :> OuterReturn
            /\ entered' = "caller" :> StartRegisters
            /\ UNCHANGED <<function, pc>>
    /\ UNCHANGED <<call, legal, objects, usedCalleeSavedRegs>>

-----------------------------------------------------------------------------
(* The machine.                                                            *)

Current == code[pc[1]][pc[2]]
Executing(op) == stage = "Running" /\ Current.op = op
Contents(a) == IF a \in DOMAIN memory THEN memory[a] ELSE 0
Write(a, value) == memory' = (a :> value) @@ memory
Proceed == pc' = <<pc[1], pc[2] + 1>>

ExecuteAdd ==
    /\ Executing("Add")
    /\ registers' = [registers EXCEPT ![Current.dst] = registers[Current.src] + Current.imm]
    /\ Proceed
    /\ UNCHANGED <<call, stage, lowering, memory, entered>>

ExecuteLoad ==
    /\ Executing("Load")
    /\ registers' = [registers EXCEPT ![Current.dst] = Contents(registers[Current.src] + Current.imm)]
    /\ Proceed
    /\ UNCHANGED <<call, stage, lowering, memory, entered>>

ExecuteStore ==
    /\ Executing("Store")
    /\ Write(registers[Current.dst] + Current.imm, registers[Current.src])
    /\ Proceed
    /\ UNCHANGED <<call, stage, lowering, registers, entered>>

ExecutePush ==
    /\ Executing("Push")
    /\ registers' = [registers EXCEPT ![cc.sp] = @ - 8]
    /\ Write(registers[cc.sp] - 8, registers[Current.src])
    /\ Proceed
    /\ UNCHANGED <<call, stage, lowering, entered>>

ExecutePop ==
    /\ Executing("Pop")
    /\ registers' = [registers EXCEPT ![Current.dst] = Contents(registers[cc.sp]), ![cc.sp] = @ + 8]
    /\ Proceed
    /\ UNCHANGED <<call, stage, lowering, memory, entered>>

WordsFrom(a, size) == {a + 8 * j : j \in 0 .. (size + 7) \div 8 - 1}
Variables(f) == {k \in DOMAIN objects[f] : objects[f][k].source # "Parameter"}
WordsOf(f, k) == WordsFrom(registers[cc.fp] + objects[f][k].offset, objects[f][k].size)
Mark(f, k) == (IF f = "caller" THEN 1000 ELSE 2000) + k
Marked(f, m, k) ==
    IF k \in Variables(f) THEN [a \in WordsOf(f, k) |-> Mark(f, k)] @@ m ELSE m

\* The registers that hold values of a function in the end: not the frame
\* pointer's when it has been given up for spill slots.
Holding(f) == {r \in ToSet(usedCalleeSavedRegs[f]) : r = cc.fp => FrameOf(f).spills = 0}

\* A function uses what it may: its objects, its room under the stack pointer,
\* the registers it holds values in, and those that nobody expects it to keep.
Fill ==
    /\ Executing("Fill")
    /\ LET f == pc[1]
           m == FoldLeft(LAMBDA acc, k : Marked(f, acc, k), memory, [k \in DOMAIN objects[f] |-> k])
       IN  /\ memory' = IF f = "callee" /\ call.callee.dynamic
                        THEN [a \in WordsFrom(registers["dynamic"], DynamicSize) |-> 3000] @@ m ELSE m
           /\ registers' = [r \in Holding(f) |-> 700 + SelectInSeq(cc.saved, LAMBDA s : s = r)
                                               + (IF f = "callee" THEN 50 ELSE 0)]
                           @@ [r \in Scratch |-> 0] @@ registers
    /\ Proceed
    /\ UNCHANGED <<call, stage, lowering, entered>>

Use ==
    /\ Executing("Use")
    /\ Proceed
    /\ UNCHANGED <<call, stage, lowering, registers, memory, entered>>

ExecuteCall ==
    /\ Executing("Call")
    /\ IF cc.riscv
       THEN /\ registers' = [registers EXCEPT !["ra"] = CallerReturn]
            /\ UNCHANGED memory
       ELSE /\ registers' = [registers EXCEPT ![cc.sp] = @ - 8]
            /\ Write(registers[cc.sp] - 8, CallerReturn)
    /\ entered' = ("callee" :> registers') @@ entered
    /\ pc' = <<"callee", 1>>
    /\ UNCHANGED <<call, stage, lowering>>

ReturnAddress == IF cc.riscv THEN registers["ra"] ELSE Contents(registers[cc.sp])
ExecuteRet ==
    /\ Executing("Ret")
    /\ registers' = IF cc.riscv THEN registers ELSE [registers EXCEPT ![cc.sp] = @ + 8]
    /\ IF ReturnAddress = CallerReturn
       THEN /\ pc' = <<"caller", SelectInSeq(code["caller"], LAMBDA i : i.op = "Call") + 1>>
            /\ UNCHANGED stage
       ELSE /\ stage' = "Left"
            /\ UNCHANGED pc
    /\ UNCHANGED <<call, lowering, memory, entered>>

Next ==
    \/ LegalizeCall \/ LegalizeCallee
    \/ ProcessCall \/ ProcessCallee
    \/ Allocate \/ LowerAllocs \/ LayObject \/ FinishFrame
    \/ ExecuteAdd \/ ExecuteLoad \/ ExecuteStore \/ ExecutePush \/ ExecutePop
    \/ Fill \/ Use \/ ExecuteCall \/ ExecuteRet

Spec == Init /\ [][Next]_vars
-----------------------------------------------------------------------------
(* Properties.                                                             *)

At(f, op) == stage = "Running" /\ pc[1] = f /\ Current.op = op

\* processCallBlock against processFunctionArguments: every argument that goes
\* in a register, the address for a large result with them, is in the parameter
\* it was meant for when the body of the callee begins.
ArgumentsArrive ==
    At("callee", "Fill") =>
        \A k \in DOMAIN legal.pushes : InRegister(legal.pushes, k) =>
            /\ k \in DOMAIN legal.pops
            /\ registers[legal.pops[k].name] = registers[legal.pushes[k].name]

\* processReturnBlock against processCallReturnBlock: after the call the caller
\* has the result, in its register or in the room it made for it.
ResultArrives ==
    At("caller", "Use") =>
        /\ legal.results # <<>> => registers["result"] = 500
        /\ ~CanReturnInRegs(call.result) => Contents(registers["buffer"]) = 500

\* Prologue against epilogue: when a function is about to return, the stack
\* pointer, the frame pointer and every register that it has to keep are what
\* they were when it was called, and it returns to where it was called from,
\* whatever it did with its frame.
CalleeRestores ==
    \A f \in Functions :
        At(f, "Ret") =>
            /\ \A r \in ToSet(cc.saved) \cup {cc.sp} : registers[r] = entered[f][r]
            /\ ReturnAddress = IF f = "caller" THEN OuterReturn ELSE CallerReturn

\* calculateFrameLayout: after the call every object of the caller holds what
\* the caller has put there, except for the result, and so do the registers
\* that it keeps values in across the call.
ObjectsKept ==
    At("caller", "Use") =>
        /\ \A k \in Variables("caller") : \A a \in WordsOf("caller", k) :
               Contents(a) = Mark("caller", k) \/ (~CanReturnInRegs(call.result) /\ a = registers["buffer"])
        /\ \A r \in Holding("caller") :
               registers[r] = 700 + SelectInSeq(cc.saved, LAMBDA s : s = r)

\* The loop of calculateFrameLayout: no two objects of a frame that have their
\* offset share a byte, and all of them are inside the room that is taken.
ObjectsApart ==
    stage = "Layout" =>
        \A k \in 1 .. layout.laid :
            LET o == objects[function][k]
            IN  o.source # "Parameter" =>
                    /\ o.offset + o.size <= 0 /\ -layout.currentOffset <= o.offset
                    /\ \A j \in 1 .. k - 1 :
                           objects[function][j].source # "Parameter" =>
                               o.offset + o.size <= objects[function][j].offset
=============================================================================
