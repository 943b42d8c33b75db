--------------------------- MODULE MC_ObjectEmission ---------------------------
(***************************************************************************)
(* Modules of two globals and of two functions, or of a function declared  *)
(* twice: every way a global can be declared, initialised and sized, and   *)
(* branches forward and back, calls and accesses with plain code around.   *)
(***************************************************************************)
EXTENDS ObjectEmission

None == [to |-> "None", id |-> 0]
To(to, id) == [to |-> to, id |-> id]
Inst(kind, size, ref) == [kind |-> kind, size |-> size, ref |-> ref]

Plain == Inst("Plain", 4, None)
Ret == Inst("Plain", 1, None)
Odd == Inst("Plain", 3, None)
Far == Inst("Plain", 4096, None)
Stuck == Inst("Unencodable", 4, None)
Jump(id) == Inst("Jump", 0, To("Block", id))
Jcc(id) == Inst("Jcc", 0, To("Block", id))
Call(f) == Inst("Jump", 0, To("Function", f))
Lea(g) == Inst("Access", 7, To("Global", g))
CopyAndLoad(g) == Inst("Access", 10, To("Global", g))

Block(id, code) == [id |-> id, code |-> code]
Function(name, linkage, blocks) ==
    [name |-> name, linkage |-> linkage, isDeclaration |-> blocks = <<>>, blocks |-> blocks]

\* Sizes as a byte, a struct of six bytes, and a vector give them.
Global(name, linkage, isDeclaration, isConstant, init, typeSize, initSize) ==
    [name |-> name, linkage |-> linkage, isDeclaration |-> isDeclaration,
     isConstant |-> isConstant, init |-> init, typeSize |-> typeSize, initSize |-> initSize]
FirstGlobals ==
    {Global("g", l, FALSE, c, i, s, IF i = "None" THEN 0 ELSE s) :
        l \in {"Internal", "External"}, c \in BOOLEAN, i \in {"None", "Zero", "Value"}, s \in {1, 6, 16}}
    \cup {Global("g", "Weak", TRUE, FALSE, "None", 8, 0)}
SecondGlobals ==
    {Global("h", l, FALSE, FALSE, i, 0, IF i = "None" THEN 0 ELSE 4) :
        l \in {"Internal", "Weak"}, i \in {"None", "Value"}}

\* A loop with an exit, and a way forward, that also call and access.
Looping(callee) ==
    <<Block(11, <<Odd, Lea(1)>>), Block(12, <<Plain, Jcc(14), Call(callee)>>),
      Block(13, <<CopyAndLoad(2), Jump(12)>>), Block(14, <<Ret>>)>>
Straight == <<Block(21, <<Odd, Call(1), Jump(22)>>), Block(22, <<Ret>>)>>

\* Blocks that the peephole has emptied.
Emptied == <<Block(41, <<>>), Block(42, <<Jcc(43), Call(2)>>), Block(43, <<>>),
             Block(44, <<Jcc(41), Ret>>)>>

FunctionLists ==
    {<<Function("f", l, Looping(2)), Function("e", "External", Straight)>> : l \in {"Internal", "External"}}
    \cup {<<Function("f", "Internal", Looping(2)), Function("e", l, <<>>)>> : l \in {"Weak", "External"}}
    \cup {<<Function("f", "External", Looping(2)), Function("e", "External", Emptied)>>,
          <<Function("f", "External", Looping(2)), Function("e", "External", <<>>),
            Function("e", "External", <<>>), Function("d", "Internal", <<Block(31, <<Call(3), Stuck>>)>>)>>,
          <<Function("f", "External", Looping(2)), Function("e", "External", <<>>),
            Function("d", "Internal", <<Block(31, <<Call(3), Call(2), Ret>>)>>),
            Function("unused", "External", <<>>)>>,
          <<Function("f", "External", Looping(2)), Function("e", "External", <<>>),
            Function("e", "External", Straight)>>}

MCModules ==
    {[globals |-> <<g, h>>, functions |-> fs] :
        g \in FirstGlobals, h \in SecondGlobals, fs \in FunctionLists}
MCTargets == {X86Elf, X86Coff, RiscVElf}
MCRiscV == {RiscVElf}

\* A conditional branch over more code than its field can count.
FarModules ==
    {[globals |-> <<>>,
      functions |-> <<Function("f", "External", <<Block(11, <<Jcc(13)>>), Block(12, <<Far>>),
                                                  Block(13, <<Ret>>)>>)>>]}
=============================================================================
