# A verification project for EzPacker

TLA+ models of the EzPacker compiler backend, TLC configurations that check
them on small functions, and theorems proved with TLAPS for all functions.
The reference is the code under `src/`; every definition that models code is
mapped to its lines in `PROJECT.json` (`map`).

## 1. The system

EzPacker turns SSA machine IR (MIR), or C through an embedded chibicc, into ELF
and COFF object files for x86-64 and RISC-V. It is one single threaded process
per run. What makes it hard is not concurrency: it is that every pass rewrites a
shared program in place, that analyses are cached while it changes, and that
each lowering has to keep the meaning of the function along every path.

| Part | State | Operations | What must hold |
| --- | --- | --- | --- |
| EzMir analyses (`CodeFlowAnalysisPass`, `LivenessAnalysisPass`) | per function block sets | run, reset | live sets are exactly the liveness of the function |
| EzMir core (`MirFunction`, `MirBlock`, `MirInstruction`, builders, `MirFunctionRegisterInfo`) | blocks and instructions in intrusive lists, a def/use registry | build, insert, erase, replace | the registry agrees with the instructions |
| `MirPassManager` | passes in order, cached analyses | run, getAnalysis, invalidateAnalysis | no pass reads an analysis older than the code |
| EzMir transforms (`NonSsaToSsaPass`, `MirPeepholePass`, `MirVerifierPass`) | the function | run | the function means the same, SSA form |
| EzTriple lowering (`MirLegalizerPass`, `MirAbiLowererPass`, `MirInstructionSelectorPass`, `MirRegisterAllocatorPass`, `MirFrameLowererPass`, `MirTargetPeepholePass`) | the function, allocator contexts, stack frames | run | same meaning; every virtual register gone; calling convention kept |
| EzTargets (x86-64, riscv64) | tables, encoders | selectors, spill hooks, emitters, branch relaxers | branches reach their targets; encodings exact |
| EzCodeEmitter | sections, symbols, relocations | emit, resolve, write ELF/COFF | offsets and sizes agree |
| EzCompiler (`CompilationPipeline`, `EmissionEngine`, front ends) | stages of one compilation, three pass managers, the output file | run stages, emit a module, publish a file | a failed stage stops the run; the output is a whole file or none |
| EzLinker, EzLibStdC, exception runtime | system linker choice, handler chain | link, throw, catch | handlers unwound in order |
| EzCore (`IntrusiveLinkedList`, `DenseBitSet`, `FlexInt`, diagnostics) | containers, numbers | container operations | list links consistent |
| EzDsl | - | generates tables at build time | - |
| web | the pages of the compiler explorer | HTTP handlers | - |

Passes share the function and ask a `MirPassManager` for analyses (`getAnalysis`), which the manager
runs once and keeps until `invalidateAnalysis`. The pipeline runs the transforms
itself, past the manager, which therefore does not know that the code has
changed; the pipeline and the allocator invalidate by hand. The allocator pass
calls liveness again in every iteration, liveness calls the control flow
analysis. The engine appends the selected code of all functions to sections,
resolves branches against the laid out text, and leaves the other references to
the object file writers.

Hard behaviours: fixed points that must end at the least solution (liveness,
coalescing, spilling, branch relaxation), parallel assignments made sequential
(PHI elimination, argument moves), two sides of a call lowered separately, offsets
recorded while a section grows, state left over between iterations,
results that depend on hash table order, cached analyses, failures and crashes
while the output is written, boundary values in branch displacements. `PROJECT.json`
lists the hazards at their lines; those outside the models are in section 5.

## 2. Modules

A module per component, an `MC_` module that gives its constants for TLC with a
`.cfg`, a `_proofs` module where something is proved.

| Module | Code | Composes |
| --- | --- | --- |
| `LivenessAnalysis` | `LivenessAnalysisPass` | - |
| `CodeFlow` | `CodeFlowAnalysisPass` on generic and selected code | - |
| `MirCode` | what instructions read, write and compute | - |
| `RegisterAllocator` | `MirRegisterAllocator`, `MirRegisterAllocatorPass` | `MirCode` |
| `PhiElimination` | `MirInstructionSelector`, `selectPHI` of both targets | `MirCode` |
| `DefUseRegistry` | `MirFunctionRegisterInfo` under `MirInstructionBuilder` | - |
| `MirPeephole` | `MirPeepholePass` | `DefUseRegistry` |
| `PeepholeMeaning` | what a function computes before and after it | `MirPeephole` |
| `BranchRelaxer` | both branch relaxers | - |
| `SsaConstruction` | `NonSsaToSsaPass` | `MirCode` |
| `CallFrames` | legalization of calls, `MirAbiLowerer`, `MirFrameLowerer`, the frame lowerers and conventions of the targets | - |
| `SectionText` | what a section promises (abstract) | - |
| `CodeSection` | `CodeSection`, `CodeEmitterContext::bindLabel` | refines `SectionText` |
| `ObjectEmission` | `EmissionEngine`, `CodeEmitterContext`, emitters, relocation resolvers, ELF and COFF writers | - |
| `Compilation` | `runCompiler`, `CompilationPipeline`, `MirPassManager`, the loop of the allocator, the output file | - |

### LivenessAnalysis

One function of `NumBlocks` blocks, bodies from `Bodies`, any successor
relation. The variables are the solver's: `def`, `use` (`m_def`, `m_use`),
`universe` (`globalRegUniverse`), `liveIn`, `liveOut` (bit sets), `changed`. The
actions follow `computeGlobalLiveness`: `ScanInstruction` and `ScanNextBlock`
(the local scan), `BuildUniverse` (the registers that get a bit),
`VisitBlock` (one block of a sweep, from the last block to the first, including
the decision to sweep again). Bit vectors are sets; the order of bits is
irrelevant.

### CodeFlow

`CodeFlowAnalysisPass::run` as it walks the instructions: `ScanBranch`,
`ScanExit`, `ScanOther` by the flags of the instruction, `FallThrough` at the
end of a block, `Publish` for the predecessor lists left in the blocks.
`Select` then replaces every generic instruction by what the target's selector
makes of it, and the pass runs again on the target's flags (the `.idf` files),
as it does under the register allocator. `GenericOps` and `TargetOps` are the
opcodes of the two kinds of code, `BodiesAssumption` says that a body is written
with the first kind.

### MirCode

Registers, operands, instructions, what an instruction reads and writes, and a
symbolic execution of a path: a value is named by the step that made it, and
the trace of a path records what every instruction other than a copy was given.
Two functions mean the same when their traces agree on every path. The hardware
side is in `Step`: the copy the encoder adds in front of a two address
instruction, the registers a call clobbers, the registers an instruction
touches beyond its operands.

### RegisterAllocator

`MirRegisterAllocator` and the loop of `MirRegisterAllocatorPass::run`, one action
for each step of a phase: `Build` (liveness and the interference graph),
`CoalesceCandidate`, `StartSimplify`, `SimplifyLowDegree`,
`SimplifySpillCandidate`, `SimplifyUnspillable`, `StartSelect`, `AssignColor`,
`MarkSpilled`, `OutOfColors`, `RewriteSpilled`, `RewriteColors`. The graph is a
set of nodes and a set of two element edges. Liveness is taken as its
least solution (what the first module shows the pass to return). Iteration over
hash tables is a nondeterministic order: which order a class lists its colors
in, the order of the low degree queue (by number in either direction from any
start, `HashOrders`), and which of equally cheap candidates is spilled.
The registers that may not be used are found anew by each `Build` (`Pointers`, kept in
`reserved` as in `m_reservedRegs`): of a bank the stack pointer always, and the frame pointer
when `hasFramePointer` says so, which is when the frame has an object. The function may
come with one (`objects`), or get its first one with a spill slot; from the next iteration on
the bank has a color less, and the limit `K` of simplification with it.
`ProgramsAssumption` is what selection leaves (a virtual register has a class, a
block leads to blocks), `BankAssumption` that a bank has a usable register beside its
pointers; the specification is `AllocatorSpec`.

Left out: several register banks (each is colored independently of the others
in the same way), rematerialization (only a generic constant MOV qualifies and
none is left after selection).

### PhiElimination

`selectFunction`: rounds over the blocks (`EnterBlock`, `SkipBlock`), the
cursor from the last instruction to the first (`SelectInstruction`, `SelectFolding`,
`SelectPhi`), until a round finds nothing. `select()` erases the instruction it has
replaced, so that `selectBlock` goes on with the one in front of it; where that is gone too, or
there was none, the walk starts anew from `block->back()` (`Onward`, `MoveOn`). One pattern takes a
second instruction away: `Select_ADD64rm` of x86-64, which makes a LOAD the memory operand of
the only addition that reads what it loads (`IsFoldable`, `SelectFolding`). Other
instructions are `generic` and become one target instruction each. `SelectPhi` is the whole of
`selectPHI`: which phis are dropped for having no use, how operands are matched
to the published predecessor lists (`SlotOf`), where the copy goes
(`InsertPoint`, which differs between the targets). The parser's reordering of
phi pairs (`Parsed`) decides what the operands are. The meaning of a function in
SSA form is compared with the selected code along every path of `LongestPath`
blocks. The specification is `SelectorSpec`; `ProgramsAssumption` says that the
blocks of a function are lists of instructions behind lists of phis.

### DefUseRegistry

`code` is what each instruction is; `uses` and `def` are the registry. A use is
recorded as (instruction, operand), so `uses[i][r][k]` counts how often operand
`k` of `i` is recorded for `r`; the builder's edits all have the form `Edit`:
unregister some operands by the access flags of the old instruction, change it,
register some operands by the flags of the new one. `removeUse` erases every use
of the register by that instruction, at whatever operand: `UsesWithout`.

### MirPeephole

The pass over one function, whose instructions live in `DefUseRegistry`; each
builder call of the pass (`swapOperand`, `clearOperand`, `erase`) is the
registry's action, with the pass's cursor moving along. A rewrite to a MOV
is three steps, in the code's order: `Rewrite`, `ClearSecond`, `SetOpcode`.
`Executed` and `Outcome`, in `PeepholeMeaning`, say what a function computes on words of
`Bits` bits. `FunctionsAssumption` says that a function has a block, that an
instruction stands in one place, and that a JMP has one operand.

### BranchRelaxer

The client fills a stream (`EmitBytes`, `DefineLabel`, `EmitBranch`, `Clear`) and
calls `relaxAndResolve` (`Relax`), which runs as `LayoutItem`, `LayoutDone`,
`CheckItem`, `CheckDone`, `EmitItem`, `EmitDone`; it may edit and relax again.
The record `X86` or `RiscV` gives the sizes, the base a displacement is counted
from, the short range and whether a last layout pass is made. Only tests call
the relaxers; the pipeline emits all branches in their long form.

Facts about them that no property says: a branch to a label that is never
defined is a truncated jump to offset 0 (x86-64) or to itself (RISC-V), with an
entry in the returned map made up by the lookup on x86-64; the one megabyte
range of the RISC-V long form is never checked; offsets are stale within the
round that widens a branch, and put right by the next one.

### SsaConstruction

The pass step by step: `BuildDefSites`, the depth-first walk of
`buildPostOrderIndexList`, whose recursion is the stack `walk` (`EnterSuccessor`,
`LeaveBlock`), the sweeps of `buildImmDomTree` block by block (`StartDominators`,
`VisitBlock`, `Sweep`), `BuildFrontier`, phis for one register after the other with the
worklist (`TakeRegister`, `PlacePhis`), and `renameVariables`, whose recursion is the
stack `frames` (`RenameBlock` up to the recursive calls, `Descend`, `Leave`). Loops
inside a step are recursive functions with as many steps as they can need: the fingers
of `Intersect`, the predecessors of `NewIdom`, the runner of `Runners`. The
specification is `SsaSpec`; `ProgramsAssumption` says that a function has an entry
and that edges lead to its blocks, `BodiesAssumption` that the bodies are generic code:
an operand is read or written, never both, and names registers as they were before the
pass. `DominanceExact` compares the tree and the
frontiers with `Dominated`, which is what paths say. An entry that is the head of a loop
is left out of the frontiers there: control also comes from the caller, which the
graph does not show as a predecessor (section 5). A register is a base with a version; what a
stack of names would have on top inside a block is computed by `Reaching` from
the names given so far, which is what the loop over the block leaves there.
Base and index of memory operands are renamed like all others. `Supplier`
follows an operand back along a path to the instruction that made its value,
before and after, so the property does not depend on what operations compute.

### CallFrames

A caller and a callee are legalized, lowered and framed one after the other,
then executed. `LegalizeCall`, `LegalizeCallee` bind arguments and results to the
call's token; `ProcessCall`, `ProcessCallee` turn them into moves by the
convention's `getArgLoc` (`InRegister`, `RegisterOf`), which numbers registers per
bank (System V, LP64D) or per position (Windows); `LowerAllocs`, `LayObject`,
`FinishFrame` are the frame lowerer. `Allocate` records the callee saved registers that a
function takes (`usedCalleeSavedRegs`), the frame pointer's among them as long as the frame has no
object; prologue and epilogue leave that one out in a function that has a frame pointer
(`Saved`), which by then may have got one from its spill slots. The machine (`Execute...`) has registers and
words of memory; `Fill` lets each function write everything it owns, which is
what makes overlap and lost registers visible. The conventions are translated
from the `.ezcc` files.

### SectionText and CodeSection

`CodeSection` has the nodes with their links, the cursor and its running offset.
`SectionText` is what users of a section rely on: a text of bytes, labels and
alignments written at a position, laid out when asked, patched afterwards. The
refinement reads the text off the list (`TextOf(Chain)`) and the position off the
cursor; `setCursor` is a move, `bindLabel` a write or a move.

### ObjectEmission

`emitModule` for one module: `EmitGlobal`; per function `BeginFunction`,
`BindBlock`, `EmitInst`, `EndFunction` (which flushes the relocations), or
`SkipDeclaration`; `Finalize`; one relocation at a time `PatchBranch`,
`ReferToFunction`, `ReferToGlobal`; `Write`. An instruction is its kind, size and
reference. A block may be empty, as the peephole leaves it; a branch to it leads
to the code that follows (`BlockStart`), in the next function if there is no more
in this one. Two assumptions are about the input. `BlocksAssumption`: branches stay in
their function, a block holds instructions. `FieldsAssumption`: only an instruction with
a field refers to something, the four bytes of an operand are inside their instruction,
and a global that is named is in the module. The properties look at the finished file: they find the bytes of an
object in the stream and compare them with what symbol, displacement and
relocation say, the last one after a linker has filled in the field.

### Compilation

The whole process. What a pass does is whether it succeeds and that it makes
what the managers have cached stale (`Rewritten`): for each cached analysis the
model remembers of which functions it still tells the truth. The loop of the
allocator is in it (`BuildInterference`, `Spill`, `Color`, `AllocationFails`) because
it asks for liveness anew in every round. The output goes through `Open`, `Write`,
`RemoveFinal`, `Rename`, each of which may fail; `Kill` ends the process between any
two steps, `Fatal` is an exception, `Restart` the next run of the compiler over what
the last one left. `--help`, which exits before anything is loaded, is not there.

## 3. What the runs check

| Run | Instance | What it shows |
| --- | --- | --- |
| `liveness` | every graph of 3 blocks, 3 bodies, 2 registers | the solver ends with the least solution; live-in is what some path reads before writing |
| `control_flow` | every x86-64 function of 3 blocks, dead code included | edges are exactly the control flow, before and after selection; predecessor lists in phi order |
| `allocation` | 9 functions, banks of 4 colors, in one of which 2 are the stack and the frame pointer; frames with and without objects; with and without coalescing | code after spilling and coloring computes the same on every path; registers that interfere are kept apart through merges; spilling converges; callee saved registers recorded |
| `phi_elimination` | 231 functions (loops, nested loops, joins, loads in front of additions), both targets | selection leaves nothing generic; conventional phis keep their meaning |
| `def_use` | an instruction of 3 operands (4 kinds) and one of 1, two registers, addresses | no use is recorded that is not there; what stays exact; definitions stay known |
| `peephole` | 800 arithmetic functions, 84 of three blocks, 2 bit words | same result and registers for every input; same edges; ends at a fixed point in 3 iterations |
| `branch_relaxation` | every stream of 5 items next to the limits of the short forms, both encodings | branches land on labels, short ones reach, rounds end |
| `ssa` | every graph of 4 blocks with two successors at most, 6 bodies, 2 registers, one of them an argument | exact dominators and frontiers; strict SSA; every operand has the same origin on every path; the pass ends |
| `calls` | 5 argument lists, 4 results, 3 conventions, frames with 0 to 3 objects, spills, saved registers, the frame pointer's among them, and dynamic room | arguments and results arrive; registers, stack and return address are restored; objects do not overlap |
| `section` | streams of 4 nodes, 2 labels, alignment 4, layouts and patches in between | the running offset is exact; the section is the text it promises |
| `object` | 148 pairs of globals with 8 lists of functions (one with blocks the peephole has emptied), three targets | branches, symbols and relocations mean in the file what they meant in the code; parts of the file do not overlap |
| `compile` | 4 modules with declarations, 5 stages, 3 allocator rounds, 2 starts, failures and crashes anywhere | the liveness that the allocator reads is of the code as it is; only lowered code is emitted; the output is never half written; every run ends |

Bounds. Three blocks hold every shape of edge between two blocks and a third
that sees both: a loop, a join, a branch around; four, with an entry nothing
leads to, add a loop entered at two places and a join of unreachable code. The
allocator's functions are chosen so that each phase has work with two, three or
four colors: a diamond and a loop, pressure above the number of colors, values alive
across a call, a fixed shift count, a chain of moves, and an instruction with more
operands than colors. `Crowd` has four values at once and would do with
three colors and one slot, but the slot makes the frame pointer a frame pointer, and the two colors
left do not hold the operands of one instruction: `Converges` allows a failure only for such. The
stack pointer is never a color, so that its place in the order of a class does not matter.
The loads of the selector's functions stand directly in front of the addition or further
off, are its only operand of that kind or read again, have a call in between, are the
first instruction of a block or stand behind phis whose moves come into the same block: the
walk restarts with nothing left, with what it has just been through, or with moves that
were put behind it. Branch streams have byte strings one below and at the
limits of the short forms, and five items are two branches that widen each other
and the labels between them. Two operands that name one register, and an
instruction beside the one edited, are what the registry needs to go wrong.
Paths of six blocks (`LongestPath`) go around a loop twice. Argument lists use up
the registers of a bank and go beyond; frames have objects whose sizes are no
multiples of their alignments; the frame pointer's register holds a value in callers and
callees without objects, or is recorded and then given up for spill slots. Four nodes are an insertion between two others
behind a label; runs are up to two bytes, so that alignment to four pads. Globals
have a byte, six bytes and sixteen, so that each pads the next; a module has a
loop, a forward branch, calls in both directions and a name declared twice.
`MaxIterations` of the allocator (6) is above what any function of the run needs
(`Converges` says so); in `Compilation` it is 3 for 100, which is enough to reach
the limit; that of the peephole is the code's own. Two starts are a crash and
what comes after it.

Inputs the passing runs leave out, because the code does something else with
them: section 5.

Several models stop: the passes return, the file is written, or the client of
the builder, the section or the relaxer has no more room. Their configurations
switch the deadlock check off for that reason.

Fairness. `LivenessAnalysis` and `SsaConstruction` assume weak fairness of the
next-state relation: a loop on one thread that nothing can hold up takes its next
step as long as it has one. `Compilation` assumes it of the compiler's own steps
only; crashes, exceptions and restarts are never assumed, and a round of the
allocator may end either way. `Terminates` then says that the process exits, by
whatever way. That other loops end is stated without fairness, as a bound on
their rounds (`RoundsBounded`, `EndsAtFixpoint`, `Converges`).

The modules state more than the configurations list (`TypeOK` of each,
`LocalSetsExact`, `BelowEverySolution`, `OnlyGrows`, `ResolvedWhereDefined`,
`DefIsWriter`, `RebuildIsExact`, `SymbolsDisjoint`, `LinksAgree`,
`NoVirtualRegisterLeft`, which are proved, and `TemporariesStayInRegisters`, `CoalescingIsConservative`,
`ThreeRoundsAtMost`, `CopiesBeforeBranches`, `ObjectsKept`, which hold on the same
instances): add the name to the configuration to check one.

## 4. What is proved

For every value of the constants, with the assumptions named in the modules.

* `LivenessAnalysis_proofs`. `Soundness`: the result satisfies the liveness
  equations. `Precision`: no set ever exceeds any solution, so the result is the
  least one. `Monotonicity`, `LocalSetsAreExact`. The inductive invariant adds to
  the types what a partial scan has found (`ScanInv`), that nothing is live yet
  before the sweeps (`QuietInv`), which registers have bits (`UniverseInv`), that
  live sets are consistent with earlier, smaller ones (`GrowthInv`), and that the
  tail of a sweep in which nothing has changed satisfies the equations
  (`SweepInv`): without the last, the end of the sweeps would say nothing about
  the blocks visited first. `LiveInAlwaysLiveness` takes the step from equations to
  paths: a register is live into a block exactly if some path from there reads it
  before it is written. One direction goes backwards along the path; for the other,
  the sets of registers that paths read are themselves a solution of the equations,
  and the result is below every solution.
* The register allocator, in the same module, which has it use the liveness facts on
  blocks. `ColoringIsProper`: when colors are about to be written into the code, two
  registers that interfere in it have different hardware registers, whatever each of
  them has been merged with, for any function, any bank and any order of the
  candidates, of the queue and of the colors. `NoOperandLeftVirtual`: when the allocator
  is done no operand and no address names a virtual register. `PrologueSavesWhatIsTaken`:
  a callee saved register that the code has got is recorded. The invariant
  (`AllocatorInvariant`) says that every virtual register of the code has a class and every
  other one was there before (`CodeInv`); that the graph has lost only merged virtual
  registers (`GraphInv`); that chains of merges end in the graph (`LeaderInv`, by
  a rank that falls along them); that whatever has interfered at the start of the iteration
  still does, in the name of the leaders (`MergedInv`); and while coloring, that
  the stack, the spilled and the colored registers divide the virtual ones between them, and
  those that are back in the graph have numbers that differ from their neighbors'
  (`SimplifyInv`, `SelectInv`). Without `MergedInv` a proper coloring of the merged
  graph would say nothing about the code. Operands that name one hardware register in
  several classes may keep that number after a merge: George's test goes by
  the register reference and not by what overlaps it (`MirRegisterAllocator.cpp:362-398`), so
  the property has different numbers only where a virtual register was colored.
* `CodeFlow_proofs`. `EdgesAreAlwaysControlFlow`, for any function, on generic code
  and on selected x86-64 code; `SelectionAlwaysKeepsEdges`, on x86-64 for code without
  TRY; `AlwaysPublishedInPhiOrder`; `PassAlwaysTyped`. The two restrictions are where
  the code does something else (section 5). The invariant says that code is
  generic before and the target's after selection (`CodeInv`), how far the
  pass is (`PhaseInv`), that the set of successors so far is what the instructions
  scanned so far ask for (`FlowInv`, `EdgeInv`), what is published (`PublishInv`)
  and, across the two passes, that the edges of the first belong to the code the
  second one reads, as selected from it (`SelectInv`).
* The loop of `selectFunction`, in the same module. `SelectionIsComplete`: when
  the rounds end no instruction is generic any more, for any function and both
  targets, although `selectPHI` puts moves into blocks the round has been through
  and erases instructions that the walk was about to come to. The invariant (`SelectorInv`) says
  that the cursor stands on what has to be selected, and
  that a round that has found nothing so far has left nothing unselected behind it: the
  moves come only with a phi that was found, after which there is another round. From
  which place the walk goes on in a block does not matter then (`MoveOnKeeps`): something has been
  found, and the block will be walked again.
* `BranchRelaxer_proofs`. `ShortBranchesFit`, `BranchesLand`, `LabelsResolved`,
  `Growth`, `TypeCorrect`, `RoundsAlwaysBounded`, for streams of any length, any encoding and any
  history of edits. The invariant (`LoopInv`, `WideInv`, `OutInv`) says that the
  running offset of a partial pass is where a walk from the start would be, that
  a check that has changed nothing so far leaves only branches that fit, and that
  the code emitted so far agrees with the layout. The rounds are bounded because
  each one but the last widens a branch that was short and none is ever made short
  again: rounds and branches still short never add up to more than the branches
  there were. `RoundsNeverExceedItems` gives the bound in terms of the length of the
  stream.
* `DefUseRegistry_proofs`. `NoStaleUses`, `NoStaleDefinitions`, `ExactnessKept`,
  `RebuildRestores`, `DefinitionsKnown`, `TypeCorrect`, for any instructions,
  registers and operands. All edits are brought to one form (`EditOf`): some
  operands are unregistered, some registered, the others are the same before and
  after (`Fits`). The invariant is the two properties with the types and the bound
  on operands; an edit preserves it because an operand that is left alone keeps
  its access (`FlagSteady`, which is where UNMERGE_VALUES has to be excluded).
* The peephole pass, the registry's client, in the same module. `PeepholeAlwaysKeepsEdges`: for
  any function, no step of it adds or takes away an edge of the control flow graph.
  `PeepholeAlwaysEndsAtFixpoint`: three rounds are enough for any function, so that the limit
  of ten is never what ends the pass, and nothing is left to simplify then. The invariant
  (`PeepholeInv`) says that a block which is being scanned has no code behind its first
  terminator (`CursorInv`: a jump that is dropped was the only terminator), that an instruction
  stands in one place (`Placed`: else what is rewritten here would change an edge there), and, of
  what has been scanned (`RoundInv`), that the first round leaves only moves to be erased, and a
  round after it, or one that has changed nothing so far, leaves none behind.
* `CodeSection_proofs`. `LinksAlwaysAgree`, for any number of nodes and any way of
  writing. The invariant adds that head, tail and cursor are nodes already
  allocated, and the nodes of labels too (`Allocated`): an insertion behind a
  cursor that is not in the list would break it. `CursorOffsetAlwaysExact`: the
  running offset is the sum of the sizes in front of the cursor, whenever the section
  claims to know it. `SectionImplementsText` is the refinement: every step of the
  list is a step of the text or leaves it alone. Its invariant (`SectionInv`)
  describes the list by a sequence of its own rather than by following links
  (`HasChain`: some sequence without repetition lists the nodes from head to tail),
  and adds what nodes and labels are (`NodesInv`, `LabelsInv`) and which addresses and offsets
  are up to date (`AddressInv`, `OffsetInv`). A chain is unique, so that the recursive walk
  of the model is that sequence, and an insertion, at either end or inside, is an
  insertion into it.
* `ObjectEmission_proofs`. `SymbolsAlwaysDisjoint`, for any module and target. The
  invariant relates every symbol to the offset of its section (`SymbolInv`: it ends
  before the cursor) and, while a function is emitted, the offset recorded at its
  beginning to the cursor now (`OffsetInv`). `BranchesAlwaysLand`: in the file, every
  branch that is left to the emitter leads to the code of its block, as long as
  its distance fits (`DistancesFit`, which always holds on x86-64, where every
  displacement has 32 bits, and on RISC-V excludes the truncation of section 5). The invariant follows a
  relocation from the instruction to the patched field: the stream ends where the
  cursor is and blocks follow each other in it (`StreamInv`), the code emitted so
  far is in the stream and has its record (`EmittedIn`, `RecordsIn`), a label is bound
  to the beginning of its block or still waits for it (`BoundIn`, `LabelsIn`), what is flushed
  is resolved (`FlushInv`), and a patched branch stays patched (`ResolveInv`).
  `FileAlwaysWellFormed`: the parts of a file are laid out in order, by induction over
  them, and the local symbols are in front, because the two passes over the list of
  the engine together make a permutation of it (`Permutes`). `SymbolsAlwaysDescribeObjects`
  assumes that whatever gets a symbol of its own has a name of its own
  (`NamesDistinct`; a function may be declared many times). It sees what a section holds
  as a set of pieces, each with its place and size, and the invariant (`TableInv`) says what
  the pieces are of and how far they reach (`PiecesIn`), what each symbol is of
  (`OriginIn`), that all that has been emitted has its symbol (`CompleteIn`), that a name has one
  (`UniqueIn`), and that it covers the pieces of what it is of and no others (`CoverIn`);
  what follows in the file is the permutation again (`FileInv`). `ReferencesAlwaysReach`,
  with names of their own too: an instruction that names a function or a global has
  one relocation, with the symbol of that name, and on x86-64 leads there once it is
  linked. The invariant (`LinkInv`) adds that a relocation records where the piece of its
  instruction is and no instruction is recorded twice (`RecordInv`); that a symbol starts
  where the first piece of what it is of does (`StartInv`), which for a function needs
  that its last block ends in an instruction: a function without code has a symbol
  at an offset where nothing is; that a function has its symbol from the moment
  a relocation that refers to it is resolved (`NamedInv`), declared or defined; and that
  a relocation of the file has the index of that symbol in the order of the file, not of the engine
  (`FileRelocInv`). That it has only one follows from where fields are: inside their
  instructions, which share no byte.
* `CallFrames_proofs`. `ObjectsAlwaysApart`, for frames of any number of objects of
  any size and alignment, with stack parameters between them. The invariant says
  what the objects of both functions are, that the registers to save are a list (`RecordShape`:
  the layout begins under them) and how far the layout is.
* `Compilation_proofs`, the first part. `OutputIsAlwaysWhole`, for any modules and any failures. The
  invariant says what each place in the engine implies for the two files
  (`FilesFollowTheEngine`) and each exit code for the output (`ExitFollowsTheDriver`).
  `EmittedCodeIsAlwaysLowered`: nothing is emitted that has not been through all stages,
  whatever was given up before. `AllocationAlwaysSeesItsCode`: the liveness that the
  allocator is given for a function is that of the function as it then is, although
  each round changes it and most passes make cached analyses stale.
* The dominators, in the second part of that module. `DominanceAlwaysExact`: for any
  graph, the sweeps end with the immediate dominators of exactly the blocks that can be reached,
  and the frontiers are those of the definition. The invariant (`DominanceInv`) says
  of the walk that every block listed is entered from one listed later or still open
  (`WalkInv`), so that in the list each block but the entry comes behind a predecessor of
  higher index (`OrderInv`) and no sweep ever finds a block without a known one. Of the tree it
  says that parents have higher indexes (`IsTree`), that whatever dominates a block is above it
  (`TreeInv`), and that a block above another leads to it through blocks listed before it
  (`Below`). The last is what makes a change of one block's dominator safe for the
  subtree that hangs from it: a dominator of something down there with a higher index than
  the block dominates the block too. A sweep that has changed nothing so far leaves
  behind it only blocks that intersecting again would not move (`SweepInv`, `Settled`); when
  all are settled, nothing is above a block that does not dominate it. What the fingers meet
  at is above exactly what is above both (`IntersectIs`), and the runners are what is above a
  predecessor and not above the dominator of the join (`RunnersAre`).
* Strict SSA form, on top of that, in the same module. `SsaIsAlwaysStrict`: in the code
  that the pass leaves, of every function, each name has one definition and each use is behind
  it on every path, the operand of a phi at the end of its predecessor. The invariant
  (`StrictInv`) adds to `DominanceInv` that the phis of a block are for different registers
  (`PhisInv`) and that a register in the worklist has them only where `hasPhi` says so
  (`PlaceInv`: else a block would get two). Of the walk that renames it says that its open
  calls lie on a path down the tree, and that no call has a child left that has been called
  (`FramesInv`): the renamed blocks are those with no block above them that still waits, so
  each is renamed once and in the end all are; that the stack of a register consists of segments, one for each open call, with
  names that the block of that call defines (`StackInv`: what `Leave` pops is
  what the call pushed, and what is on top is defined in a block above); and that names are
  numbered up to the counters, none in two places, with every use in a renamed block behind
  its definition (`NamesInv`). That the names on top are also the right ones is
  `MeaningKept`, which is model-checked.

Recursion in these modules is by recursive functions and folds. The prover has no
induction theorem with an operator as parameter, so the proofs state induction
with sets: the numbers for which a fact fails have no least element, hence are none.

Model-checked only:

* the temporal properties under fairness (`Termination`, `Completes`, `Terminates`),
  which the prover cannot treat, as it cannot ENABLED;
* `ArgumentsArrive`, `ResultArrives` and `CalleeRestores` of `CallFrames`, which run the
  code of caller and callee on a machine whose places are named by strings;
* what compares the meaning of whole functions along all their paths:
  `AllocationPreservesMeaning`, `SpillCodePreservesMeaning`, `ConventionalPhisKeepMeaning`,
  and `MeaningKept` of `SsaConstruction`.
  What an instruction computes is found by recursion along a path, and the proof would be an
  induction over paths of two functions at once;
* `Converges`: a bound on the iterations for the functions of the run, which for an arbitrary
  `MaxIterations` does not hold;
* `MeaningKept` of `PeepholeMeaning`: words of bits, with which the prover has no arithmetic.

## 5. Where the code does something else

Each case shows when a configuration is changed as said and TLC is run; it then
finds a short counterexample. The passing runs leave these inputs out.

Against what a document, a comment or a test says:

* A two address instruction with a folded load may get the register of its
  address as destination (`MirRegisterAllocator.cpp:146` looks at plain registers
  only), and the encoder's copy destroys the address: "If dst shares a physical
  register with src2 (operand index >= 2), materializing the move would destroy
  src2 before it can be read" (lines 138-140). `RegisterAllocator.cfg` with
  `Programs <- FoldedLoad`: `AllocationPreservesMeaning`.
* A selected call names no argument registers, so that one is free again before
  the call (`X86_64TargetInstructionSelector.cpp:214`), although
  `docs/projects/EzTriple.md:135` has the arguments in registers for the call to
  read. The same with `Programs <- Arguments`.
* RISC-V conditional branches have no `ReadsCPUFlags` and end the scan of their block
  (`CodeFlowAnalysisPass.cpp:213`): "If it's an unconditional branch (does NOT read
  CPU flags), no subsequent instructions in this block can execute." The edge of
  the false block is missing under the register allocator. `CodeFlow.cfg` with
  `Target = "riscv64"`, `Bodies <- MCBranchBodies`: `EdgesAreControlFlow`.
* A phi copy in front of a branch runs on every way out of the predecessor
  (`X86_64TargetInstructionSelector.cpp:726`), although `docs/examples.md:94` says
  "along the incoming edges". `PhiElimination.cfg` with `Programs <- LostCopy`:
  `PhisBecomeMoves`.
* `rewriteToMov` leaves a MOV whose source has no recorded use when the operand it
  clears names the same register (`MirPeepholePass.cpp:109`), where
  `T_MirFunctionRegisterInfo.cpp:11-12` says that the registry "maintains coherent
  def-use chains across all MirInstructionBuilder mutations". `MirPeephole.cfg`:
  `ReadMeansUsed`.
* A RISC-V conditional branch over more than four kilobytes is truncated: the
  pipeline has no relaxation and the encoder no check
  (`RiscV64InstructionEncoder.cpp:385`), where `docs/projects/EzTargets.md:373`
  says that ranges are enforced. `ObjectEmission.cfg` with `Modules <- FarModules`,
  `Targets <- MCRiscV`: `BranchesLand`.
* A RISC-V function with an object and less than two saved registers keeps the
  object where its prologue has put ra and s0 (`MirFrameLowerer.cpp:36`), which
  `docs/projects/EzTargets.md:383-398` keeps apart. `CallFrames.cfg` with
  `Calls <- RiscVCalls`: `CalleeRestores`.
* The allocator means to "Reserve the frame and stack pointer registers"
  (`MirRegisterAllocator.cpp:179`), but asks for a frame pointer before the locals are
  objects: those of ALLOC become objects only in `MirFrameLowererPass.cpp:44-63`. A function with
  a local that needs no spill slot may hold a value in rbp (s0), which its prologue then makes the
  frame pointer: whatever the body writes to the register moves the frame, and on x86-64 the epilogue
  takes the stack pointer from it. A caller that makes room for a large result is another such
  function. `CallFrames.cfg` with
  `Calls <- FramePointerCalls`: `CalleeRestores`.
* The previous output is removed before the new one is renamed
  (`EmissionEngine.cpp:868`); killed in between, the compiler leaves no file, where
  the comment above says it "never replaces a good previous artifact" with a
  failed one. In `Compilation`, the state after `RemoveFinal` and `Kill`, with `final`
  "old" at the start and "none" at the end.
* A dynamic allocation neither aligns nor forces a frame pointer, as
  `docs/projects/EzTriple.md:330` has it, and the epilogue pops saved registers from
  under it (`X86_64FrameLowerer.cpp:204-211`). Add frames with `dynamic` and `saves` to
  the callees of `MC_CallFrames`: `CalleeRestores`.
* An odd number of saved registers leaves the stack misaligned at calls
  (`docs/projects/EzTargets.md:257` has it aligned): no property, the machine of
  `CallFrames` does not mind.
* After `finalize`, `getCurrentOffset` is the size of the image and not "where the
  next emitted byte lands" (`CodeSection.h:194`): `SectionText` has it as the code does.
* A function with a phi is left as it is, where `docs/projects/EzMir.md:189` speaks of
  "partially-SSA code": not an input of `SsaConstruction`.

Cases nothing is written about:

* `PhiElimination.cfg`, invariant `PhisBecomeMoves`. `Programs <- Swap`: two phis of a
  loop that exchange their values; the copies of a block are made one after the
  other. `LatchCondition`: a loop of two blocks that branches at its end on the phi;
  the copy stands in front of a branch that is selected later. `PairOrder`: phi pairs
  written in another order than their blocks (`MirParser.cpp:1171`). `Literal`: a
  literal as phi operand is not moved. `AfterCall`: an indirect call on RISC-V counts
  as the first branch, and the copy of its result lands before it.
* `CodeFlow.cfg`, `Target = "riscv64"`, `Bodies <- MCTryBodies` or `MCCallBodies`,
  invariant `SelectionKeepsEdges`: the edge to the handler of a TRY, and the edges
  behind an indirect call, are missing after selection.
* `RegisterAllocator.cfg`, `Programs <- InPlace`, invariant
  `SpillCodePreservesMeaning`: an instruction that writes and reads one spilled
  register (`LUI dst; ADDI dst, dst, lo`) gets a store and no reload.
* `DefUseRegistry.cfg` with UNMERGE_VALUES among the opcodes of `i1` and `KeepsFlags`
  taken out of `NoDanglingUse`: its results are recorded as uses while it is built.
* `SsaConstruction.cfg`, `Programs <- EntryLoop`: a loop whose head is the entry gets no
  phi for an argument: `MeaningKept`.
* `CallFrames`: arguments beyond the registers are stored into the caller's own
  incoming area and read elsewhere by the callee (take `InRegister` out of
  `ArgumentsArrive`); a leading pointer argument is taken for the address of a large
  result; a RISC-V caller without objects loses its return address.

Read in the code while it was modelled, and outside every model:

* `CoffWriter.cpp:298` writes the number of relocations of a section in sixteen bits,
  and line 144 makes a weak definition an ordinary global.
* `EmissionEngine.cpp:668` gives RISC-V relocations the addend -4 of x86-64, and a
  call of one JAL the type of an AUIPC and JALR pair (`Elf64Writer.cpp:127`). Line 722
  counts the addend from the end of the field, also where an immediate follows.
  Line 237 aligns a global of sixteen bytes inside a section aligned to eight. Line
  474 skips an instruction without description.
* `X86_64CodeEmitter.cpp:152` drops the offset of a reference to a global.
* `LegalizeCallAction.cpp:72`: a large result stays in the caller's buffer.
* `CppCallingConvGenerator.cpp:425`: aggregates have a register counter of their own.
* `X86_64FrameLowerer.cpp:152`: on Windows saved registers are pushed below the shadow
  space. `RiscV64FrameLowerer.cpp:173`: frame offsets are not checked against twelve bits.
* `RiscV64BranchRelaxer.cpp:86`: the long form is a JAL whose own range is not checked.
* `MirPassManager.cpp:199` caches the result of an analysis that failed;
  `CompilationPipeline.cpp:322` prints the control flow of the function analysed last.
* `CodeSection.cpp:205`: writing behind a label in mid-stream moves what follows, and
  offsets recorded before keep their values; no emitter does so after recording one.

## 6. Not modelled

* Addressing modes (`MirAddressingModeMatcher`), the target peephole, the selection of
  arithmetic by generated patterns but the one that folds a load: each other instruction of
  `PhiElimination` becomes one.
* The work list of the legalizer and its widening, narrowing and libcall actions.
* Aggregates split over registers, variadic calls, stack probes.
* Bit patterns of single instructions and constant fields of headers: data without
  control, tested against tables.
* The intrusive list under erasure while it is walked (`MirPeephole` has the
  sequence it stands for), the exception runtime's chain of handlers.
* The parser and printer, the verifier, front ends, the linker driver, number
  classes, the generator EzDsl (build time), the C library and the web page:
  translations of one tree or text into another, or programs around the compiler.
  Most of the repository's lines are in these.

Next would be, in this order: addressing modes on top of `DefUseRegistry`, whose `hasOneUse`
is what `ReadOnlyBy` takes from the code itself; the legalizer's work list; the exception runtime; stack
arguments as a property once caller and callee agree on them; and a proof of
`MeaningKept` of `SsaConstruction`, for which `NamesInv` is the beginning.

`components` in `PROJECT.json` lists each part with its status and reason.
