---------------------------- MODULE MC_CallFrames ----------------------------
(***************************************************************************)
(* Calls of both x86-64 conventions with arguments in all registers and on *)
(* the stack, and frames with objects, saved registers and room that is    *)
(* taken at run time; on RISC-V callers with objects and saved registers.  *)
(***************************************************************************)
EXTENDS CallFrames

Frame(allocs, dynamic, spills, fp, saves) ==
    [allocs |-> allocs, dynamic |-> dynamic, spills |-> spills, fp |-> fp, saves |-> saves]
Of(size, align) == [size |-> size, align |-> align]

Lists == {<<>>, <<"Int">>, <<"Float", "Int", "Float", "Int">>, <<"Int", "Pointer", "Float", "Int", "Int">>,
          <<"Int", "Int", "Float", "Int", "Int", "Pointer", "Int", "Int">>}
Results == {"Void", "Int", "Float"}

AllocLists == {<<>>, <<Of(8, 8)>>, <<Of(12, 4), Of(1, 1)>>, <<Of(6, 2), Of(16, 16), Of(24, 8)>>}

\* The frame pointer's register holds a value in a frame that gets no object,
\* and is only recorded where a spill then makes it the frame pointer.
Saves == {<<>>, <<2>>, <<3, 2, 4>>}
StaticFrames ==
    {Frame(a, FALSE, n, FALSE, s) : a \in AllocLists, n \in {0, 2}, s \in Saves}
    \cup {Frame(<<>>, FALSE, 0, TRUE, s) : s \in {<<>>, <<2>>}}
    \cup {Frame(a, FALSE, 2, TRUE, <<2>>) : a \in AllocLists}
DynamicFrames == {Frame(a, TRUE, 0, FALSE, <<>>) : a \in AllocLists \ {<<>>}}
CallerFrames ==
    {Frame(<<>>, FALSE, 0, FALSE, <<>>), Frame(<<>>, FALSE, 0, TRUE, <<2>>),
     Frame(<<Of(12, 4)>>, FALSE, 1, TRUE, <<2, 3>>)}

\* The first 16 bytes under the frame pointer hold ra and s0 on RISC-V.
RiscVFrames ==
    {Frame(a, FALSE, 0, FALSE, <<2, 4, 3>>) : a \in AllocLists}
    \cup {Frame(<<>>, FALSE, 0, FALSE, s) : s \in {<<>>, <<2>>}}
    \cup {Frame(<<>>, FALSE, 0, TRUE, s) : s \in {<<>>, <<2>>}}
    \cup {Frame(a, FALSE, 1, TRUE, <<2>>) : a \in AllocLists}

MCCalls ==
    {[cc |-> c, args |-> a, result |-> r, caller |-> f, callee |-> g] :
        c \in {SysV, Win64}, a \in Lists, r \in Results, f \in CallerFrames,
        g \in StaticFrames \cup DynamicFrames}
    \cup {[cc |-> SysV, args |-> a, result |-> "Big", caller |-> f, callee |-> g] :
            a \in Lists, f \in {h \in CallerFrames : h.fp => h.spills > 0}, g \in StaticFrames}
    \cup {[cc |-> LP64D, args |-> a, result |-> r, caller |-> f, callee |-> g] :
            a \in Lists, r \in Results, f \in {g \in RiscVFrames : g.allocs # <<>>},
            g \in RiscVFrames}

\* A caller on RISC-V with an object and nothing to save.
RiscVCalls ==
    {[cc |-> LP64D, args |-> <<>>, result |-> "Void", caller |-> Frame(<<Of(8, 8)>>, FALSE, 0, FALSE, <<>>),
      callee |-> Frame(<<>>, FALSE, 0, FALSE, s)] : s \in {<<>>, <<2>>}}

\* Callees with locals that are allocated before the locals are objects: what
\* holds a value in the body is then made the frame pointer.
FramePointerCalls ==
    {[cc |-> c, args |-> <<>>, result |-> "Void", caller |-> Frame(<<>>, FALSE, 0, FALSE, <<>>),
      callee |-> Frame(<<Of(8, 8)>>, FALSE, 0, TRUE, <<2>>)] : c \in {SysV, Win64}}
=============================================================================
