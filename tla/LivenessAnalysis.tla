-------------------------- MODULE LivenessAnalysis --------------------------
(***************************************************************************)
(* The backward liveness solver of EzMir (LivenessAnalysisPass::           *)
(* computeGlobalLiveness) on one function.                                 *)
(*                                                                         *)
(* A function is its blocks in list order, 1..NumBlocks, each with a body  *)
(* (a sequence of instructions, of which only the registers read and the   *)
(* registers written matter here) and the successors the control flow      *)
(* analysis returned for it.  The solver scans every body once for its     *)
(* upward exposed uses and its definitions, collects the registers that    *)
(* get a bit (the universe), and then sweeps the blocks from last to first *)
(* until a whole sweep changes no bit.                                     *)
(***************************************************************************)
EXTENDS Integers, Sequences

CONSTANTS
    NumBlocks,  \* number of blocks of the function
    Regs,       \* the register references (id and class) the code names
    Bodies      \* the block bodies the function may be made of

Instrs == [reads : SUBSET Regs, writes : SUBSET Regs]

ASSUME NumBlocksAssumption == NumBlocks \in Nat \ {0}
ASSUME BodiesAssumption == Bodies \subseteq Seq(Instrs)

Blocks == 1 .. NumBlocks

VARIABLES
    body,       \* the function: the body of each block
    succ,       \* the function: the successors of each block
    phase,      \* the stage of computeGlobalLiveness being executed
    blk,        \* the block the current loop is at
    pc,         \* the instruction of blk the local scan is at
    def,        \* m_def: registers defined in the block
    use,        \* m_use: registers read in the block before any definition
    universe,   \* globalRegUniverse: the registers that have a bit
    liveIn,     \* globalLiveInBits
    liveOut,    \* globalLiveOutBits
    changed     \* the flag of the fixed point loop

input == <<body, succ>>
vars == <<body, succ, phase, blk, pc, def, use, universe, liveIn, liveOut, changed>>

NoRegs == [b \in Blocks |-> {}]

Init ==
    /\ body \in [Blocks -> Bodies]
    /\ succ \in [Blocks -> SUBSET Blocks]
    /\ phase = "local"
    /\ blk = 1
    /\ pc = 1
    /\ def = NoRegs
    /\ use = NoRegs
    /\ universe = {}
    /\ liveIn = NoRegs
    /\ liveOut = NoRegs
    /\ changed = FALSE

\* The registers an instruction exposes when the block has defined "defined".
ExposedReads(instr, defined) == instr.reads \ defined

\* One instruction of the local scan: a read is upward exposed unless the
\* block has defined the register, and only then do the writes kill.
ScanInstruction ==
    /\ phase = "local"
    /\ pc \in 1 .. Len(body[blk])
    /\ LET instr == body[blk][pc]
       IN  /\ use' = [use EXCEPT ![blk] = @ \cup ExposedReads(instr, def[blk])]
           /\ def' = [def EXCEPT ![blk] = @ \cup instr.writes]
    /\ pc' = pc + 1
    /\ UNCHANGED <<input, phase, blk, universe, liveIn, liveOut, changed>>

\* The scan of a block ends; after the last block comes the universe.
ScanNextBlock ==
    /\ phase = "local"
    /\ pc > Len(body[blk])
    /\ IF blk < NumBlocks
          THEN blk' = blk + 1 /\ pc' = 1 /\ phase' = phase
          ELSE phase' = "universe" /\ UNCHANGED <<blk, pc>>
    /\ UNCHANGED <<input, def, use, universe, liveIn, liveOut, changed>>

\* The registers that always have a bit.  Mutation: only those that the
\* function also defines.
Exposing_DefinedOnly(uses, defs) == uses \cap defs
Exposing(uses, defs) == uses

\* Every upward exposed use gets a bit.  A register that is only defined gets
\* one when it is physical or when the def/use registry of the function lists
\* a use of it in another block; what the registry holds is not this pass's
\* to guarantee, so any set of defined registers may be added.  Without a
\* single bit the pass returns before the solver.
BuildUniverse ==
    /\ phase = "universe"
    /\ \E crossBlock \in SUBSET (UNION {def[b] : b \in Blocks}) :
          universe' = Exposing((UNION {use[b] : b \in Blocks}), (UNION {def[b] : b \in Blocks}))
                          \cup crossBlock
    /\ phase' = IF universe' = {} THEN "done" ELSE "solve"
    /\ blk' = NumBlocks
    /\ UNCHANGED <<input, pc, def, use, liveIn, liveOut, changed>>

\* The two assignments of the loop body, on the bits of block b.
OutOf(b, in, out) == out[b] \cup (UNION {in[s] : s \in succ[b]})
InOf(b, outSet) == (use[b] \cap universe) \cup (outSet \ (def[b] \cap universe))

\* Mutations: a block that changes nothing clears the flag of the sweep; the
\* flag survives into the next sweep.
SweepChanged_LastOnly(out, in) == out # liveOut[blk] \/ in # liveIn[blk]
NextSweep_Kept(now) == blk' = NumBlocks /\ changed' = now

SweepChanged(out, in) == changed \/ out # liveOut[blk] \/ in # liveIn[blk]

\* A sweep that changed something is followed by another one, from the last
\* block, with the flag cleared.
NextSweep(now) == blk' = NumBlocks /\ changed' = FALSE

\* One iteration of the inner loop, and the test of the outer one when it was
\* the last of its sweep.
VisitBlock ==
    /\ phase = "solve"
    /\ LET out == OutOf(blk, liveIn, liveOut)
           in  == InOf(blk, out)
           now == SweepChanged(out, in)
       IN  /\ liveOut' = [liveOut EXCEPT ![blk] = out]
           /\ liveIn' = [liveIn EXCEPT ![blk] = in]
           /\ \/ blk > 1 /\ blk' = blk - 1 /\ changed' = now /\ phase' = phase
              \/ blk = 1 /\ now /\ NextSweep(now) /\ phase' = phase
              \/ blk = 1 /\ ~now /\ phase' = "done" /\ UNCHANGED <<blk, changed>>
    /\ UNCHANGED <<input, pc, def, use, universe>>

Next == ScanInstruction \/ ScanNextBlock \/ BuildUniverse \/ VisitBlock

\* The pass is one synchronous call: nothing can keep it from its next step.
Spec == Init /\ [][Next]_vars /\ WF_vars(Next)

-----------------------------------------------------------------------------

TypeOK ==
    /\ body \in [Blocks -> Bodies]
    /\ succ \in [Blocks -> SUBSET Blocks]
    /\ phase \in {"local", "universe", "solve", "done"}
    /\ blk \in Blocks
    /\ pc \in Nat \ {0}
    /\ def \in [Blocks -> SUBSET Regs]
    /\ use \in [Blocks -> SUBSET Regs]
    /\ universe \in SUBSET Regs
    /\ liveIn \in [Blocks -> SUBSET Regs]
    /\ liveOut \in [Blocks -> SUBSET Regs]
    /\ changed \in BOOLEAN

\* What the local scan has to find in the first n instructions of a body.
ExposedIn(b, n) == {r \in Regs : \E i \in 1 .. n : /\ r \in body[b][i].reads
                                                  /\ \A j \in 1 .. i - 1 : r \notin body[b][j].writes}
WrittenIn(b, n) == {r \in Regs : \E i \in 1 .. n : r \in body[b][i].writes}
Exposed(b) == ExposedIn(b, Len(body[b]))
Written(b) == WrittenIn(b, Len(body[b]))

\* Before the solver starts, the two local sets of every block are exactly
\* the upward exposed reads and the definitions of its instructions: an
\* instruction that reads and writes a register exposes the read.
LocalSetsExact ==
    phase \in {"universe", "solve", "done"} =>
        \A b \in Blocks : use[b] = Exposed(b) /\ def[b] = Written(b)

\* A family of sets that accounts for every read of the function: it holds
\* the exposed reads of a block and what its successors need and it does not
\* define.  The liveness of a function is the least such family.
IsSolution(in) ==
    \A b \in Blocks : Exposed(b) \cup ((UNION {in[s] : s \in succ[b]}) \ Written(b)) \subseteq in[b]

\* When the pass returns, no register that a later instruction reads is
\* missing from a live-in or a live-out set, whichever registers were given
\* a bit: a sweep without a change is a solution of the equations.
SolutionAtExit ==
    phase = "done" => /\ IsSolution(liveIn)
                      /\ \A b \in Blocks : liveOut[b] = (UNION {liveIn[s] : s \in succ[b]})

\* At no point does the solver hold a register live that need not be: every
\* intermediate live-in set is inside every solution.
BelowEverySolution ==
    \A in \in [Blocks -> SUBSET Regs] :
        IsSolution(in) => \A b \in Blocks : liveIn[b] \subseteq in[b]

\* The operational reading of "live", by paths: some path from b reads r
\* before any block of the path defines it.  NumBlocks blocks are enough, a
\* longer path repeats one.
LiveByPath(b, r) ==
    \E n \in Blocks : \E p \in [1 .. n -> Blocks] :
        /\ p[1] = b
        /\ \A k \in 1 .. n - 1 : p[k + 1] \in succ[p[k]] /\ r \notin Written(p[k])
        /\ r \in Exposed(p[n])

\* What the pass returns is the liveness of the function, read by read along
\* its paths (getAnalysis<LivenessAnalysisPass> is what the register
\* allocator builds interference from).
LiveInIsLiveness ==
    phase = "done" => \A b \in Blocks : liveIn[b] = {r \in Regs : LiveByPath(b, r)}

\* Bits are only ever set: no visit takes back what an earlier one found, which
\* is what makes the sweeps converge.
OnlyGrows ==
    [][\A b \in Blocks : liveIn[b] \subseteq liveIn'[b] /\ liveOut[b] \subseteq liveOut'[b]]_vars

\* The fixed point loop ends on every function.
Termination == <>(phase = "done")
=============================================================================
