-------------------------- MODULE RegisterAllocator --------------------------
(***************************************************************************)
(* The graph coloring register allocator of EzTriple (MirRegisterAllocator *)
(* and the loop of MirRegisterAllocatorPass::run) on one function.         *)
(*                                                                         *)
(* An iteration builds the interference graph from liveness, coalesces     *)
(* copy related registers, takes the virtual registers off the graph onto  *)
(* a stack, and colors them in the reverse order.  Registers left without  *)
(* a color are spilled: the code is rewritten around stack slots and the   *)
(* next iteration starts.  What iterates over a hash table in the code     *)
(* (the colors of a class, the nodes of the graph) goes in an arbitrary   *)
(* order.                                                                  *)
(***************************************************************************)
EXTENDS MirCode, FiniteSetsExt

CONSTANTS
    Programs,     \* the functions: code (by block), succ (by block), class (of each virtual register)
    Banks,        \* the banks of registers: the colors of the stack pointer (sp) and the
                  \* frame pointer (fp) in it, a set that is empty in a bank without one
    CalleeSaved,  \* the callee saved register references
    Coalescing,   \* whether coalescing may be on (the optimization level decides): a subset of BOOLEAN
    MaxIterations \* the iterations after which the pass gives up (100 in the code)

\* A function as instruction selection leaves it: every virtual register it
\* names has a class.
ASSUME ProgramsAssumption ==
    \A p \in Programs :
        /\ p.code \in Seq(Seq(MachineInstructions))
        /\ p.class \in Seq(STRING \ {"v"})
        /\ p.succ \in [DOMAIN p.code -> SUBSET DOMAIN p.code]
        /\ \A r \in RegsOf(p.code) : IsVirtual(r) => r[2] \in DOMAIN p.class

\* A bank has registers besides the two pointers.
ASSUME BankAssumption ==
    /\ IsFiniteSet(Colors)
    /\ \A b \in Banks : Colors \ (b.sp \cup b.fp) # {}
    /\ IsFiniteSet(CallerSaved) /\ \A r \in CallerSaved : ~IsVirtual(r)

VARIABLES
    prog,         \* the function the pass was called on
    code, class,  \* m_targetFunction, rewritten in place: its blocks, its virtual registers
    coalescing,   \* m_enableCoalescing
    bank,
    palette,      \* the colors, in the order a class lists its registers, without the stack
                  \* pointer's: always reserved, it can have any place
    stage, iteration,
    objects,      \* does the stack frame have an object (getAllocatedObjectCount() > 0)?
    reserved,     \* m_reservedRegs, by color: only ever added to
    nodes, edges, \* m_iGraph: its registers, and the pairs that interfere
    candidates,   \* the copy related pairs, in program order
    scan,         \* the candidate coalesce() is at
    coalesced,    \* m_coalescedRegs
    affinity,     \* m_affinity
    degree,       \* m_degree of the virtual nodes
    queue,        \* lowDegreeQueue
    removed,      \* m_removedNodes
    stack,        \* m_selectStack
    allocated,    \* m_allocatedRegs of the virtual nodes
    spilled,      \* spilledNodes of selectColors
    unspillable,  \* m_unspillableRegs, kept from iteration to iteration
    physUses      \* the callee saved registers recorded for the prologue

function == <<prog, code, class, coalescing, bank, palette>>
frame == <<objects, reserved>>
graph == <<nodes, edges>>
merging == <<candidates, scan, coalesced, affinity>>
coloring == <<degree, queue, removed, stack, allocated, spilled>>
allocatorVars == <<function, frame, stage, iteration, graph, merging, coloring, unspillable, physUses>>

AllocatorInit ==
    /\ prog \in Programs
    /\ code = prog.code
    /\ class = prog.class
    /\ coalescing \in Coalescing
    /\ bank \in Banks
    /\ palette \in SetToSeqs(Colors \ bank.sp)
    /\ objects \in BOOLEAN   \* locals of the front end, parameters on the stack
    /\ reserved = {}
    /\ stage = "build"
    /\ iteration = 1
    /\ nodes = {} /\ edges = {}
    /\ candidates = << >> /\ scan = 1 /\ coalesced = << >> /\ affinity = << >>
    /\ degree = << >> /\ queue = << >> /\ removed = {} /\ stack = << >>
    /\ allocated = << >> /\ spilled = {}
    /\ unspillable = {}
    /\ physUses = {}

\* A hash table in which x is entered.
WithEntry(f, x, y) == [z \in DOMAIN f \cup {x} |-> IF z = x THEN y ELSE f[z]]

ClassOf(r) == IF IsVirtual(r) THEN class[r[2]] ELSE r[1]
IsReserved(r) == ~IsVirtual(r) /\ r[2] \in reserved
K == Cardinality(Colors \ reserved)   \* the usable colors of every class
VirtualNodes == {n \in nodes : IsVirtual(n)}

\* Virtual registers by number, the order of MirRegisterRef::operator<.
Ascending(S) ==
    [k \in 1 .. Cardinality(S) |-> CHOOSE r \in S : Cardinality({s \in S : s[2] < r[2]}) = k - 1]

-----------------------------------------------------------------------------
(* buildInterferenceGraph *)

Pairs(A, B) == {{a, b} : a \in A, b \in B} \ {{a} : a \in A}

\* A definition interferes with what is live after the instruction.
DefinitionEdges(i, live) == Pairs(Defs(i), live)

\* A call interferes with what is live after it.
CallEdges_None(i, live) == {}
CallEdges(i, live) == IF i.kind = "call" THEN Pairs(CallerSaved, live) ELSE {}

\* The single destination of an instruction of three or more operands keeps
\* away from the register operands after the first source.
TwoAddressEdges(i) ==
    IF Len(DefinedRegisters(i)) = 1 /\ Len(i.ops) >= 3
    THEN Pairs(Defs(i), {i.ops[k].regs[1] : k \in {k \in 3 .. Len(i.ops) : i.ops[k].kind = "reg"}})
    ELSE {}

VisitBackwards(g, i) ==
    [live |-> (g.live \ Defs(i)) \cup Uses(i),
     nodes |-> g.nodes \cup Defs(i) \cup Uses(i) \cup (IF i.kind = "call" THEN CallerSaved ELSE {}),
     edges |-> g.edges \cup DefinitionEdges(i, g.live) \cup CallEdges(i, g.live) \cup TwoAddressEdges(i)]

BlockGraph(b, liveOut) ==
    FoldLeft(VisitBackwards, [live |-> liveOut, nodes |-> liveOut, edges |-> {}], Reverse(code[b]))

\* What coalesce() tries to merge: the two registers of a copy, and the
\* destination with the first source of a three operand instruction.
IsCandidate(i) ==
    /\ Len(i.ops) >= 2 /\ i.ops[1].kind = "reg" /\ i.ops[2].kind = "reg"
    /\ i.ops[1].regs[1] # i.ops[2].regs[1]
    /\ i.kind # "move" => Len(i.ops) >= 3 /\ DefinedRegisters(i) = <<i.ops[1].regs[1]>>

CandidatePairs ==
    LET is == SelectSeq(FlattenSeq(code), IsCandidate)
    IN  [k \in DOMAIN is |-> <<is[k].ops[1].regs[1], is[k].ops[2].regs[1]>>]

\* The registers an iteration may not use: the stack pointer always, the frame
\* pointer as soon as the frame has an object.
Pointers == bank.sp \cup (IF objects THEN bank.fp ELSE {})

\* One iteration starts: the per iteration state is cleared, the unspillable
\* and the reserved registers are not.
Build ==
    /\ stage = "build"
    /\ LET out == LiveOut(code, prog.succ)
           g == [b \in DOMAIN code |-> BlockGraph(b, out[b])]
       IN  /\ nodes' = UNION {g[b].nodes : b \in DOMAIN code}
           /\ edges' = UNION {g[b].edges : b \in DOMAIN code}
    /\ candidates' = IF coalescing THEN CandidatePairs ELSE << >>
    /\ scan' = 1 /\ coalesced' = << >> /\ affinity' = << >>
    /\ degree' = << >> /\ queue' = << >> /\ removed' = {} /\ stack' = << >>
    /\ allocated' = << >> /\ spilled' = {}
    /\ reserved' = reserved \cup Pointers
    /\ stage' = "coalesce"
    /\ UNCHANGED <<function, objects, iteration, unspillable, physUses>>

-----------------------------------------------------------------------------
(* coalesce *)

Neighbors(n) == (UNION {e \in edges : n \in e}) \ {n}

\* getCoalescedLeader
Leader(r) ==
    LET up[x \in nodes \cup RegsOf(code)] == IF x \in DOMAIN coalesced THEN up[coalesced[x]] ELSE x
    IN  up[r]

Significant(t) == ~IsVirtual(t) \/ Cardinality(Neighbors(t)) >= K

George(u, v) == \A t \in Neighbors(v) \ {u} : t \in Neighbors(u) \/ ~Significant(t)

Briggs(u, v) ==
    Cardinality({t \in (Neighbors(u) \cup Neighbors(v)) \ {u, v} : Significant(t)}) < K
Conservative(u, v) == IF IsVirtual(u) THEN Briggs(u, v) ELSE George(u, v)

\* The physical register of a candidate, if there is one, absorbs the other.
Oriented(u, v) == IF IsVirtual(u) /\ ~IsVirtual(v) THEN <<v, u>> ELSE <<u, v>>

MayMerge(u, v) ==
    /\ u # v
    /\ IsVirtual(v)
    /\ ~IsReserved(u)
    /\ ClassOf(u) = ClassOf(v)
    /\ {u, v} \subseteq nodes
    /\ {u, v} \notin edges

SameNumber_SameClass(r) == CalleeSaved \cap {r}

\* The callee saved registers that a physical register is a part of.
SameNumber(r) == {s \in CalleeSaved : ~IsVirtual(r) /\ s[2] = r[2]}

EdgesOfMerge_Lost(u, v) == {e \in edges : v \notin e}

\* What interfered with v interferes with u, which absorbs it.
EdgesOfMerge(u, v) == {e \in edges : v \notin e} \cup {{u, w} : w \in Neighbors(v)}

Merge(u, v) ==
    /\ coalesced' = WithEntry(coalesced, v, u)
    /\ physUses' = physUses \cup SameNumber(u)
    /\ unspillable' = IF v \in unspillable THEN (unspillable \cup {u}) \ {v} ELSE unspillable
    /\ nodes' = nodes \ {v}
    /\ edges' = EdgesOfMerge(u, v)
    /\ scan' = 1
    /\ UNCHANGED affinity

WithPartner(aff, r, s) ==
    LET old == IF r \in DOMAIN aff THEN aff[r] ELSE << >>
    IN  WithEntry(aff, r, IF s \in ToSet(old) THEN old ELSE Append(old, s))

Prefer(u, v) ==
    /\ affinity' = WithPartner(WithPartner(affinity, u, v), v, u)
    /\ scan' = scan + 1
    /\ UNCHANGED <<coalesced, physUses, unspillable, graph>>

CoalesceCandidate ==
    /\ stage = "coalesce"
    /\ scan <= Len(candidates)
    /\ LET uv == Oriented(Leader(candidates[scan][1]), Leader(candidates[scan][2]))
       IN  IF ~MayMerge(uv[1], uv[2])
              THEN scan' = scan + 1 /\ UNCHANGED <<coalesced, affinity, physUses, unspillable, graph>>
              ELSE IF Conservative(uv[1], uv[2]) THEN Merge(uv[1], uv[2]) ELSE Prefer(uv[1], uv[2])
    /\ UNCHANGED <<function, frame, stage, iteration, candidates, coloring>>

-----------------------------------------------------------------------------
(* evaluateInterferenceGraphDegree and simplify *)

\* The order in which the nodes come out of a hash table is any of these: by
\* number upwards or downwards, starting anywhere (the bound on that order).
HashOrders(S) ==
    LET up == Ascending(S)
        Turned(s, n) == SubSeq(s, n + 1, Len(s)) \o SubSeq(s, 1, n)
    IN  UNION {{Turned(up, n), Turned(Reverse(up), n)} : n \in 0 .. Len(up)}

StartSimplify ==
    /\ stage = "coalesce"
    /\ scan > Len(candidates)
    /\ degree' = [n \in VirtualNodes |-> Cardinality(Neighbors(n))]
    /\ queue' \in HashOrders({n \in VirtualNodes : degree'[n] < K})
    /\ stage' = "simplify"
    /\ UNCHANGED <<function, frame, iteration, graph, merging, removed, stack, allocated, spilled,
                   unspillable, physUses>>

\* The virtual neighbors that the removal of n makes low degree, by number.
Unlocked(n) ==
    Ascending({m \in (Neighbors(n) \cap VirtualNodes) \ removed : degree[m] = K})

RemoveNode(n, rest) ==
    /\ removed' = removed \cup {n}
    /\ stack' = Append(stack, n)
    /\ degree' = [m \in DOMAIN degree |-> IF m \in Neighbors(n) \ removed /\ degree[m] > 0
                                          THEN degree[m] - 1 ELSE degree[m]]
    /\ queue' = rest \o Unlocked(n)
    /\ UNCHANGED <<function, frame, stage, iteration, graph, merging, allocated, spilled, unspillable, physUses>>

Simplifying == stage = "simplify" /\ Cardinality(VirtualNodes) > Len(stack)

SimplifyLowDegree ==
    /\ Simplifying
    /\ queue # << >>
    /\ RemoveNode(Last(queue), Front(queue))

\* calculateSpillCost: one per definition and per use.
SpillCost(n) ==
    LET Count(i) == Cardinality({k \in DOMAIN UsedRegisters(i) : UsedRegisters(i)[k] = n})
                    + Cardinality({k \in DOMAIN DefinedRegisters(i) : DefinedRegisters(i)[k] = n})
    IN  FoldLeft(LAMBDA sum, i : sum + Count(i), 0, FlattenSeq(code))

\* Mutation: the temporaries of spill code are candidates like all others.
SpillCandidates_All == VirtualNodes \ removed
SpillCandidates == (VirtualNodes \ removed) \ unspillable

\* The node of least cost per degree leaves optimistically.
SimplifySpillCandidate ==
    /\ Simplifying
    /\ queue = << >>
    /\ LET cost == [n \in SpillCandidates |-> SpillCost(n)]
           Deg(n) == IF degree[n] > 1 THEN degree[n] ELSE 1
       IN  \E n \in SpillCandidates :
              /\ \A m \in SpillCandidates : cost[n] * Deg(m) <= cost[m] * Deg(n)
              /\ RemoveNode(n, << >>)

SimplifyUnspillable ==
    /\ Simplifying
    /\ queue = << >>
    /\ SpillCandidates = {}
    /\ \E n \in VirtualNodes \ removed : RemoveNode(n, << >>)

StartSelect ==
    /\ stage = "simplify"
    /\ Cardinality(VirtualNodes) = Len(stack)
    /\ stage' = "select"
    /\ UNCHANGED <<function, frame, iteration, graph, merging, coloring, unspillable, physUses>>

-----------------------------------------------------------------------------
(* selectColors *)

Node == Last(stack)

\* The colors of the neighbors that are back in the graph, and the reserved.
UsedColors ==
    reserved \cup {(IF IsVirtual(m) THEN allocated[m] ELSE m)[2] : m \in Neighbors(Node) \ removed}

\* The color an affinity partner has got, if it has one.
ColorOfPartner(r) ==
    LET leader == Leader(r)
    IN  IF ~IsVirtual(leader) THEN {leader}
        ELSE IF leader \in DOMAIN allocated THEN {allocated[leader]} ELSE {}

FreeFor(n, color) == ClassOf(color) = ClassOf(n) /\ color[2] \notin UsedColors

\* The colors in the order they are tried: the partners' first.
ColorOrder ==
    LET partners == IF Node \in DOMAIN affinity THEN affinity[Node] ELSE << >>
        preferred == FlattenSeq([k \in DOMAIN partners |-> SetToSeq(ColorOfPartner(partners[k]))])
        others == [k \in DOMAIN palette |-> P(ClassOf(Node), palette[k])]
    IN  preferred \o others

\* Which of them are free; the first is taken.
FreeColors == {k \in DOMAIN ColorOrder : FreeFor(Node, ColorOrder[k])}

AssignColor ==
    /\ stage = "select"
    /\ stack # << >>
    /\ FreeColors # {}
    /\ LET color == ColorOrder[Min(FreeColors)]
       IN  /\ allocated' = WithEntry(allocated, Node, color)
           /\ physUses' = physUses \cup SameNumber(color)
    /\ removed' = removed \ {Node}
    /\ stack' = Front(stack)
    /\ UNCHANGED <<function, frame, stage, iteration, graph, merging, degree, queue, spilled, unspillable>>

\* A node left without a color stays out of the graph.
MarkSpilled ==
    /\ stage = "select"
    /\ stack # << >>
    /\ FreeColors = {}
    /\ Node \notin unspillable
    /\ spilled' = spilled \cup {Node}
    /\ stack' = Front(stack)
    /\ UNCHANGED <<function, frame, stage, iteration, graph, merging, degree, queue, removed, allocated,
                   unspillable, physUses>>

NextIteration ==
    IF iteration < MaxIterations THEN stage' = "build" /\ iteration' = iteration + 1
    ELSE stage' = "failed" /\ iteration' = iteration

\* An unspillable node without a color ends the iteration before anything is
\* rewritten.
OutOfColors ==
    /\ stage = "select"
    /\ stack # << >>
    /\ FreeColors = {}
    /\ Node \in unspillable
    /\ NextIteration
    /\ UNCHANGED <<function, frame, graph, merging, coloring, unspillable, physUses>>

-----------------------------------------------------------------------------
(* rewriteSpilledRegisters.  No target instruction is rematerializable (only  *)
(* a generic MOV of a constant is, and none is left after selection).         *)

\* The spilled registers of an instruction, each with the access of the first
\* operand that names it: that operand decides on the reload and on the store.
FirstTouches(i) ==
    LET all == FlattenSeq([k \in DOMAIN i.ops |->
                   [j \in DOMAIN i.ops[k].regs |-> [reg |-> i.ops[k].regs[j], acc |-> i.ops[k].acc]]])
        IsFirst(k) == all[k].reg \in spilled /\ \A j \in 1 .. k - 1 : all[j].reg # all[k].reg
    IN  FlattenSeq([k \in DOMAIN all |-> IF IsFirst(k) THEN <<all[k]>> ELSE << >>])

\* An instruction with other registers in its operands.
Renamed(i, To(_)) ==
    LET Operand(k) == [i.ops[k] EXCEPT !.regs = [j \in DOMAIN i.ops[k].regs |-> To(i.ops[k].regs[j])]]
    IN  [i EXCEPT !.ops = [k \in DOMAIN i.ops |-> Operand(k)]]

Temporaries(before, after) == {V(n) : n \in before + 1 .. after}

Surrounded_StoresFirst(reloads, i, stores) == reloads \o stores \o <<i>>

Surrounded(reloads, i, stores) == reloads \o <<i>> \o stores

\* One temporary for each, reloaded before and stored after the instruction.
Rewritten(i, firstTemp) ==
    LET touches == FirstTouches(i)
        Temp(k) == V(firstTemp - 1 + k)
        InPlace(r) == IF r \in spilled THEN Temp(CHOOSE k \in DOMAIN touches : touches[k].reg = r) ELSE r
        Reload(k) == IF touches[k].acc = "W" THEN << >> ELSE <<Move(Reg(Temp(k), "W"), Slot(touches[k].reg))>>
        Store(k) == IF touches[k].acc = "R" THEN << >> ELSE <<Move(Slot(touches[k].reg), Reg(Temp(k), "R"))>>
    IN  Surrounded(FlattenSeq([k \in DOMAIN touches |-> Reload(k)]),
                   Renamed(i, InPlace),
                   FlattenSeq(Reverse([k \in DOMAIN touches |-> Store(k)])))

\* The new registers of an instruction have the classes of those they stand for.
RewriteInstruction(acc, i) ==
    LET touches == FirstTouches(i)
    IN  [out |-> acc.out \o Rewritten(i, Len(acc.classes) + 1),
         classes |-> acc.classes \o [k \in DOMAIN touches |-> ClassOf(touches[k].reg)]]

RewriteBlock(acc, block) ==
    LET one == FoldLeft(RewriteInstruction, [out |-> << >>, classes |-> acc.classes], block)
    IN  [code |-> Append(acc.code, one.out), classes |-> one.classes]

RewriteSpilled ==
    /\ stage = "select"
    /\ stack = << >>
    /\ spilled # {}
    /\ LET done == FoldLeft(RewriteBlock, [code |-> << >>, classes |-> class], code)
       IN  /\ code' = done.code
           /\ class' = done.classes
           /\ unspillable' = unspillable \cup Temporaries(Len(class), Len(done.classes))
    /\ objects' = TRUE   \* each spilled register gets a slot
    /\ NextIteration
    /\ UNCHANGED <<prog, coalescing, bank, palette, reserved, graph, merging, coloring, physUses>>

-----------------------------------------------------------------------------
(* rewriteColors and eliminateRedundantCopies *)

Final(r) ==
    LET leader == Leader(r)
    IN  IF ~IsVirtual(r) THEN r
        ELSE IF ~IsVirtual(leader) THEN leader
        ELSE IF leader \in DOMAIN allocated THEN allocated[leader] ELSE r

WithColors(i) == Renamed(i, Final)

IsRedundant(i) == IsRegisterMove(i) /\ i.ops[1].regs = i.ops[2].regs

Recolored(i) == IF IsRedundant(WithColors(i)) THEN << >> ELSE <<WithColors(i)>>

RewriteColors ==
    /\ stage = "select"
    /\ stack = << >>
    /\ spilled = {}
    /\ code' = [b \in DOMAIN code |-> FlattenSeq([k \in DOMAIN code[b] |-> Recolored(code[b][k])])]
    /\ stage' = "done"
    /\ UNCHANGED <<prog, class, coalescing, bank, palette, frame, iteration, graph, merging, coloring, unspillable, physUses>>

AllocatorNext ==
    \/ Build \/ CoalesceCandidate
    \/ StartSimplify \/ SimplifyLowDegree \/ SimplifySpillCandidate \/ SimplifyUnspillable
    \/ StartSelect \/ AssignColor \/ MarkSpilled \/ OutOfColors
    \/ RewriteSpilled \/ RewriteColors

AllocatorSpec == AllocatorInit /\ [][AllocatorNext]_allocatorVars

-----------------------------------------------------------------------------

AllocatorTypeOK ==
    /\ prog \in Programs
    /\ stage \in {"build", "coalesce", "simplify", "select", "done", "failed"}
    /\ iteration \in 1 .. MaxIterations
    /\ objects \in BOOLEAN /\ reserved \subseteq bank.sp \cup bank.fp
    /\ \A e \in edges : e \subseteq nodes /\ Cardinality(e) = 2
    /\ DOMAIN coalesced \cap nodes = {}
    /\ DOMAIN degree \subseteq nodes
    /\ ToSet(queue) \subseteq DOMAIN degree
    /\ ToSet(stack) \subseteq VirtualNodes /\ Cardinality(ToSet(stack)) = Len(stack)
    /\ spilled \cup removed \subseteq VirtualNodes
    /\ physUses \subseteq CalleeSaved
    /\ \A r \in RegsOf(code) : r[2] \in (IF IsVirtual(r) THEN DOMAIN class ELSE Colors)

LongestPath == 4

SameMeaning(machine) ==
    \A path \in Paths(prog.succ, LongestPath) :
        Trace(code, path, machine) = Trace(prog.code, path, FALSE)

\* Every instruction of the allocated function reads what the same instruction
\* of the function given to the pass would read, along every path, with the
\* copies the encoder adds and the registers that calls clobber.
AllocationPreservesMeaning == stage = "done" => SameMeaning(TRUE)

\* Spill code alone changes nothing: what an iteration starts from means what
\* the function meant (rewriteSpilledRegisters).
SpillCodePreservesMeaning == stage \in {"build", "failed"} => SameMeaning(FALSE)

\* rewriteColors leaves an operand alone when it finds no color for it: no
\* such operand exists.
NoVirtualRegisterLeft == stage = "done" => \A r \in RegsOf(code) : ~IsVirtual(r)

\* A callee saved register that the allocation brought into the function has
\* been recorded, so the prologue saves it.
CalleeSavedRecorded ==
    stage = "done" =>
        \A r \in RegsOf(code) \ RegsOf(prog.code) : \A s \in CalleeSaved : r[2] = s[2] => s \in physUses

\* Registers that interfere in the code are given different hardware registers,
\* whatever they have been merged with, when colors are about to be written
\* into it.  Only references of several classes to one hardware register, which
\* interfere as they stand, can keep their number after a merge.
InterferingRegistersApart ==
    stage = "select" /\ stack = << >> /\ spilled = {} =>
        LET out == LiveOut(code, prog.succ)
        IN  \A b \in DOMAIN code : \A e \in BlockGraph(b, out[b]).edges : \A r, s \in e :
                r # s => /\ Final(r) # Final(s)
                         /\ Final(r)[2] = Final(s)[2] => ~IsVirtual(Leader(r)) /\ ~IsVirtual(Leader(s))

\* What simplify() can take off a graph one low degree node after the other.
Simplifies(ns, es) ==
    LET Degree(n, in) == Cardinality({e \in es : n \in e /\ \E m \in e \ {n} : ~IsVirtual(m) \/ m \in in})
        left[k \in Nat] == IF k = 0 THEN {n \in ns : IsVirtual(n)}
                           ELSE LET in == left[k - 1] IN {n \in in : Degree(n, in) >= K}
    IN  left[Cardinality(ns)] = {}

\* Coalescing is conservative: it never turns a graph that colors without a
\* spill into one that does not.
CoalescingIsConservative ==
    [][stage = "coalesce" /\ Simplifies(nodes, edges) => Simplifies(nodes', edges')]_allocatorVars

\* Spill temporaries are as short as a live range can be: none is spilled again.
TemporariesStayInRegisters ==
    \A r \in spilled : r[2] <= Len(prog.class)

\* Spilling converges: the pass runs into its iteration limit only on an
\* instruction that reads more registers than there are.
Converges ==
    stage = "failed" => \E b \in DOMAIN prog.code : \E k \in DOMAIN prog.code[b] : Cardinality(Uses(prog.code[b][k])) > K
=============================================================================
