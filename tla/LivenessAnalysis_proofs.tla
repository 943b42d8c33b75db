----------------------- MODULE LivenessAnalysis_proofs -----------------------
(***************************************************************************)
(* What computeGlobalLiveness computes, proved for every number of blocks, *)
(* every set of registers and every function over them, and what the       *)
(* register allocator that uses it leaves, proved for every function, every *)
(* bank of registers and every number of iterations.                       *)
(***************************************************************************)
EXTENDS LivenessAnalysis, RegisterAllocator, FiniteSetTheorems, WellFoundedInduction, TLAPS

-----------------------------------------------------------------------------
(* The inductive invariant, in parts.                                      *)

\* The local scan, up to the instruction it is at.
ScanInv ==
    IF phase = "local"
    THEN /\ pc \in 1 .. Len(body[blk]) + 1
         /\ \A b \in Blocks : b < blk => use[b] = Exposed(b) /\ def[b] = Written(b)
         /\ use[blk] = ExposedIn(blk, pc - 1)
         /\ def[blk] = WrittenIn(blk, pc - 1)
         /\ \A b \in Blocks : b > blk => use[b] = {} /\ def[b] = {}
    ELSE \A b \in Blocks : use[b] = Exposed(b) /\ def[b] = Written(b)

\* Before the solver no bit is set and no change has been seen.
QuietInv ==
    phase \in {"local", "universe"} => liveIn = NoRegs /\ liveOut = NoRegs /\ ~changed

\* Every register a block needs has a bit, and only registers with a bit are
\* ever live.
UniverseInv ==
    phase \in {"solve", "done"} =>
        \A b \in Blocks : /\ use[b] \subseteq universe
                          /\ liveIn[b] \subseteq universe
                          /\ liveOut[b] \subseteq universe

\* The sets lie below the values the two assignments would give them now.
GrowthInv ==
    \A b \in Blocks : /\ liveOut[b] \subseteq (UNION {liveIn[s] : s \in succ[b]})
                      /\ liveIn[b] \subseteq use[b] \cup (liveOut[b] \ def[b])

\* Block b satisfies both equations.
Settled(b) ==
    /\ (UNION {liveIn[s] : s \in succ[b]}) \subseteq liveOut[b]
    /\ liveIn[b] = use[b] \cup (liveOut[b] \ def[b])

\* As long as a sweep has changed nothing, the blocks it has visited are
\* settled; the pass returns when that holds of all of them.
SweepInv ==
    /\ phase = "solve" /\ ~changed => \A b \in Blocks : b > blk => Settled(b)
    /\ phase = "done" => \A b \in Blocks : Settled(b)

IInv == TypeOK /\ ScanInv /\ QuietInv /\ UniverseInv /\ GrowthInv /\ SweepInv

-----------------------------------------------------------------------------
(* The local scan, one instruction further.                                *)

\* A body is a sequence of instructions over Regs.
LEMMA BodyType ==
    ASSUME TypeOK, NEW b \in Blocks, NEW i \in 1 .. Len(body[b])
    PROVE  body[b][i].reads \in SUBSET Regs /\ body[b][i].writes \in SUBSET Regs
<1>1. body[b] \in Seq(Instrs)
  BY BodiesAssumption DEF TypeOK
<1>2. body[b][i] \in Instrs
  BY <1>1
<1> QED
  BY <1>2 DEF Instrs

\* The length of a body is a natural number.
LEMMA BodyLen == ASSUME TypeOK, NEW b \in Blocks PROVE Len(body[b]) \in Nat
<1>1. body[b] \in Seq(Instrs)
  BY BodiesAssumption DEF TypeOK
<1> QED
  BY <1>1

\* The reads of instruction n that its block has not written before are what
\* the n-th instruction adds to the upward exposed uses, and its writes what
\* it adds to the definitions.
LEMMA ScanStep ==
    ASSUME TypeOK, NEW b \in Blocks, NEW n \in 1 .. Len(body[b])
    PROVE  /\ ExposedIn(b, n) = ExposedIn(b, n - 1) \cup (body[b][n].reads \ WrittenIn(b, n - 1))
           /\ WrittenIn(b, n) = WrittenIn(b, n - 1) \cup body[b][n].writes
<1>0. n \in Nat /\ n >= 1 /\ Len(body[b]) \in Nat
  BY BodyLen
<1>1. 1 .. n = (1 .. n - 1) \cup {n}
  BY <1>0
<1>2. body[b][n].reads \subseteq Regs /\ body[b][n].writes \subseteq Regs
  BY BodyType
<1>3. WrittenIn(b, n) = WrittenIn(b, n - 1) \cup body[b][n].writes
  BY <1>1, <1>2 DEF WrittenIn
<1>4. \A r \in Regs : r \in ExposedIn(b, n) <=>
            r \in ExposedIn(b, n - 1) \/ (r \in body[b][n].reads /\ r \notin WrittenIn(b, n - 1))
  BY <1>1 DEF ExposedIn, WrittenIn
<1>5. ExposedIn(b, n) \subseteq Regs /\ ExposedIn(b, n - 1) \subseteq Regs
  BY DEF ExposedIn
<1> QED
  BY <1>2, <1>3, <1>4, <1>5

\* Nothing has been scanned before the first instruction.
LEMMA ScanStart ==
    ASSUME NEW b \in Blocks PROVE ExposedIn(b, 0) = {} /\ WrittenIn(b, 0) = {}
  BY DEF ExposedIn, WrittenIn

-----------------------------------------------------------------------------
\* The invariant holds before the first instruction is scanned.
LEMMA InitInv == Init => IInv
<1> SUFFICES ASSUME Init PROVE IInv
  OBVIOUS
<1> USE NumBlocksAssumption
<1>0. NoRegs \in [Blocks -> SUBSET Regs] /\ 1 \in Blocks /\ 1 \in Nat \ {0}
  BY DEF NoRegs, Blocks
<1>1. TypeOK
  BY <1>0 DEF Init, TypeOK
<1>2. ScanInv
  <2>1. 1 \in Blocks /\ pc = 1 /\ blk = 1
    BY DEF Init, Blocks
  <2>2. Len(body[1]) \in Nat
    BY <1>1, <2>1, BodyLen
  <2>3. \A b \in Blocks : use[b] = {} /\ def[b] = {}
    BY DEF Init, NoRegs
  <2>4. ExposedIn(1, 0) = {} /\ WrittenIn(1, 0) = {}
    BY <2>1, ScanStart
  <2>5. pc - 1 = 0 /\ pc \in 1 .. Len(body[blk]) + 1
    BY <2>1, <2>2
  <2>6. use[blk] = ExposedIn(blk, pc - 1) /\ def[blk] = WrittenIn(blk, pc - 1)
    BY <2>1, <2>3, <2>4, <2>5
  <2>7. \A b \in Blocks : ~(b < blk)
    BY <2>1 DEF Blocks
  <2> QED
    BY <2>3, <2>5, <2>6, <2>7 DEF ScanInv, Init
<1>3. QuietInv
  BY DEF Init, QuietInv
<1>4. UniverseInv /\ GrowthInv /\ SweepInv
  BY DEF Init, UniverseInv, GrowthInv, SweepInv, NoRegs
<1> QED
  BY <1>1, <1>2, <1>3, <1>4 DEF IInv

\* One scanned instruction keeps the invariant.
LEMMA ScanInstructionInv == IInv /\ ScanInstruction => IInv'
<1> SUFFICES ASSUME IInv, ScanInstruction PROVE IInv'
  OBVIOUS
<1> USE NumBlocksAssumption DEF ScanInstruction, ExposedReads, input
<1>0. TypeOK /\ blk \in Blocks /\ pc \in 1 .. Len(body[blk]) /\ Len(body[blk]) \in Nat
  BY BodyLen DEF IInv, TypeOK
<1>1. body[blk][pc].reads \subseteq Regs /\ body[blk][pc].writes \subseteq Regs
  BY <1>0, BodyType
<1>2. TypeOK'
  BY <1>0, <1>1 DEF TypeOK
<1>3. ScanInv'
  <2>1. /\ use' = [use EXCEPT ![blk] = @ \cup (body[blk][pc].reads \ def[blk])]
        /\ def' = [def EXCEPT ![blk] = @ \cup body[blk][pc].writes]
    OBVIOUS
  <2>2. use'[blk] = ExposedIn(blk, pc) /\ def'[blk] = WrittenIn(blk, pc)
    BY <1>0, <2>1, ScanStep DEF IInv, ScanInv, TypeOK
  <2>3. \A b \in Blocks : b # blk => use'[b] = use[b] /\ def'[b] = def[b]
    BY <1>0, <2>1 DEF TypeOK
  <2>4. \A b \in Blocks, n \in Int : ExposedIn(b, n)' = ExposedIn(b, n) /\ WrittenIn(b, n)' = WrittenIn(b, n)
    BY DEF ExposedIn, WrittenIn
  <2>5. \A b \in Blocks : Exposed(b)' = Exposed(b) /\ Written(b)' = Written(b)
    BY DEF Exposed, Written, ExposedIn, WrittenIn
  <2>6. pc' \in 1 .. Len(body[blk]) + 1 /\ pc' - 1 = pc /\ pc \in Int /\ blk' = blk /\ body' = body
    BY <1>0
  <2>7. (use[blk] = ExposedIn(blk, pc - 1) /\ def[blk] = WrittenIn(blk, pc - 1))'
    <3>1. use'[blk'] = ExposedIn(blk, pc) /\ def'[blk'] = WrittenIn(blk, pc)
      BY <2>2
    <3>2. (ExposedIn(blk, pc - 1))' = ExposedIn(blk, pc) /\ (WrittenIn(blk, pc - 1))' = WrittenIn(blk, pc)
      BY <2>6 DEF ExposedIn, WrittenIn
    <3> QED
      BY <3>1, <3>2
  <2>8. \A b \in Blocks : b < blk => use'[b] = Exposed(b)' /\ def'[b] = Written(b)'
    BY <1>0, <2>3, <2>5 DEF IInv, ScanInv, Blocks
  <2>9. \A b \in Blocks : b > blk => use'[b] = {} /\ def'[b] = {}
    BY <1>0, <2>3 DEF IInv, ScanInv, Blocks
  <2> QED
    BY <2>6, <2>7, <2>8, <2>9 DEF ScanInv
<1>4. QuietInv' /\ UniverseInv' /\ SweepInv'
  BY DEF IInv, QuietInv, UniverseInv, SweepInv
<1>5. GrowthInv'
  BY DEF IInv, QuietInv, GrowthInv, NoRegs
<1> QED
  BY <1>2, <1>3, <1>4, <1>5 DEF IInv

\* Going on to the next block keeps it.
LEMMA ScanNextBlockInv == IInv /\ ScanNextBlock => IInv'
<1> SUFFICES ASSUME IInv, ScanNextBlock PROVE IInv'
  OBVIOUS
<1> USE NumBlocksAssumption DEF ScanNextBlock, input
<1>0. TypeOK /\ blk \in Blocks /\ pc = Len(body[blk]) + 1 /\ Len(body[blk]) \in Nat
  BY BodyLen DEF IInv, TypeOK, ScanInv
<1>1. TypeOK'
  BY <1>0 DEF TypeOK, Blocks
<1>2. use[blk] = Exposed(blk) /\ def[blk] = Written(blk)
  BY <1>0 DEF IInv, ScanInv, Exposed, Written
<1>3. \A b \in Blocks : Exposed(b)' = Exposed(b) /\ Written(b)' = Written(b)
  BY DEF Exposed, Written, ExposedIn, WrittenIn
<1>4. ScanInv'
  <2>1. CASE blk < NumBlocks
    <3>1. blk' = blk + 1 /\ pc' = 1 /\ phase' = "local" /\ blk' \in Blocks
      BY <2>1, <1>0 DEF Blocks
    <3>2. Len(body'[blk']) \in Nat
      BY <3>1, <1>0, BodyLen
    <3>3. (ExposedIn(blk, pc - 1))' = {} /\ (WrittenIn(blk, pc - 1))' = {}
      BY <3>1 DEF ExposedIn, WrittenIn
    <3>4. \A b \in Blocks : b < blk' => use'[b] = Exposed(b)' /\ def'[b] = Written(b)'
      BY <1>0, <1>2, <1>3, <3>1 DEF IInv, ScanInv, Blocks
    <3>5. \A b \in Blocks : b > blk => use'[b] = {} /\ def'[b] = {}
      BY <1>0 DEF IInv, ScanInv
    <3>6. use'[blk'] = {} /\ def'[blk'] = {}
      BY <3>1, <3>5, <1>0 DEF Blocks
    <3>7. \A b \in Blocks : b > blk' => use'[b] = {} /\ def'[b] = {}
      BY <3>1, <3>5, <1>0 DEF Blocks
    <3> QED
      BY <3>1, <3>2, <3>3, <3>4, <3>6, <3>7 DEF ScanInv
  <2>2. CASE ~(blk < NumBlocks)
    <3>1. phase' = "universe" /\ \A b \in Blocks : b < blk \/ b = blk
      BY <2>2, <1>0 DEF Blocks
    <3> QED
      BY <1>0, <1>2, <1>3, <3>1 DEF IInv, ScanInv
  <2> QED
    BY <2>1, <2>2
<1>5. QuietInv' /\ UniverseInv' /\ SweepInv'
  BY DEF IInv, QuietInv, UniverseInv, SweepInv
<1>6. GrowthInv'
  BY DEF IInv, QuietInv, GrowthInv, NoRegs
<1> QED
  BY <1>1, <1>4, <1>5, <1>6 DEF IInv

\* Building the universe keeps it, the early return without a bit included.
LEMMA BuildUniverseInv == IInv /\ BuildUniverse => IInv'
<1> SUFFICES ASSUME IInv, BuildUniverse PROVE IInv'
  OBVIOUS
<1> USE NumBlocksAssumption DEF BuildUniverse, Exposing, input
<1>0. TypeOK /\ liveIn = NoRegs /\ liveOut = NoRegs /\ ~changed
  BY DEF IInv, QuietInv
<1>1. (UNION {use[b] : b \in Blocks}) \subseteq universe'
  OBVIOUS
<1>2. universe' \subseteq Regs
  <2>1. \A b \in Blocks : def[b] \subseteq Regs /\ use[b] \subseteq Regs
    BY <1>0 DEF TypeOK
  <2>2. (UNION {def[b] : b \in Blocks}) \subseteq Regs /\ (UNION {use[b] : b \in Blocks}) \subseteq Regs
    BY <2>1
  <2>3. PICK crossBlock \in SUBSET (UNION {def[b] : b \in Blocks}) :
               universe' = (UNION {use[b] : b \in Blocks}) \cup crossBlock
    BY Zenon
  <2>4. crossBlock \subseteq Regs
    BY <2>2, <2>3
  <2> QED
    BY <2>2, <2>3, <2>4
<1>3. TypeOK'
  BY <1>0, <1>2 DEF TypeOK, Blocks
<1>4. \A b \in Blocks : Exposed(b)' = Exposed(b) /\ Written(b)' = Written(b)
  BY DEF Exposed, Written, ExposedIn, WrittenIn
<1>5. ScanInv'
  BY <1>4 DEF IInv, ScanInv
<1>6. QuietInv'
  BY DEF QuietInv
<1>7. UniverseInv'
  BY <1>0, <1>1 DEF UniverseInv, NoRegs
<1>8. GrowthInv'
  BY <1>0 DEF GrowthInv, NoRegs
<1>9. SweepInv'
  <2>1. CASE phase' = "solve"
    BY <2>1 DEF SweepInv, Blocks
  <2>2. CASE phase' = "done"
    <3>1. universe' = {}
      BY <2>2
    <3>2. \A b \in Blocks : use'[b] = {} /\ liveIn'[b] = {} /\ liveOut'[b] = {}
      BY <3>1, <1>0, <1>1 DEF NoRegs
    <3> QED
      BY <3>2, <2>2, <1>0 DEF SweepInv, Settled, TypeOK
  <2> QED
    BY <2>1, <2>2
<1> QED
  BY <1>3, <1>5, <1>6, <1>7, <1>8, <1>9 DEF IInv

\* One visit of the solver keeps it: the only step that changes a live set.
LEMMA VisitBlockInv == IInv /\ VisitBlock => IInv'
<1> SUFFICES ASSUME IInv, VisitBlock PROVE IInv'
  OBVIOUS
<1> DEFINE out == OutOf(blk, liveIn, liveOut)
           in  == InOf(blk, out)
           now == changed \/ out # liveOut[blk] \/ in # liveIn[blk]
<1>0. /\ TypeOK /\ blk \in Blocks /\ phase = "solve"
      /\ UNCHANGED <<body, succ, pc, def, use, universe>>
  BY DEF IInv, TypeOK, VisitBlock, SweepChanged, NextSweep, input
<1>1. liveOut' = [liveOut EXCEPT ![blk] = out] /\ liveIn' = [liveIn EXCEPT ![blk] = in]
  BY DEF VisitBlock, SweepChanged, NextSweep
<1>2. \/ blk > 1 /\ blk' = blk - 1 /\ changed' = now /\ phase' = phase
      \/ blk = 1 /\ now /\ blk' = NumBlocks /\ changed' = FALSE /\ phase' = phase
      \/ blk = 1 /\ ~now /\ phase' = "done" /\ UNCHANGED <<blk, changed>>
  BY DEF VisitBlock, SweepChanged, NextSweep
<1>3. out = liveOut[blk] \cup (UNION {liveIn[s] : s \in succ[blk]})
  BY DEF OutOf
<1>4. \A b \in Blocks : /\ use[b] \subseteq universe /\ liveIn[b] \subseteq universe /\ liveOut[b] \subseteq universe
                        /\ succ[b] \subseteq Blocks /\ liveIn[b] \subseteq Regs /\ liveOut[b] \subseteq Regs
                        /\ use[b] \subseteq Regs
  BY <1>0 DEF IInv, UniverseInv, TypeOK
<1>5. (UNION {liveIn[s] : s \in succ[blk]}) \subseteq universe /\ (UNION {liveIn[s] : s \in succ[blk]}) \subseteq Regs
  BY <1>0, <1>4
<1>6. out \subseteq universe /\ out \subseteq Regs
  BY <1>0, <1>3, <1>4, <1>5
<1>7. in = use[blk] \cup (out \ def[blk])
  BY <1>0, <1>4, <1>6 DEF InOf
<1>8. in \subseteq universe /\ in \subseteq Regs
  BY <1>0, <1>4, <1>6, <1>7
<1> HIDE DEF out, in
<1>9. /\ liveIn'[blk] = in /\ liveOut'[blk] = out
      /\ \A b \in Blocks : b # blk => liveIn'[b] = liveIn[b] /\ liveOut'[b] = liveOut[b]
  BY <1>0, <1>1 DEF TypeOK
<1>10. \A b \in Blocks : /\ liveOut[b] \subseteq (UNION {liveIn[s] : s \in succ[b]})
                         /\ liveIn[b] \subseteq use[b] \cup (liveOut[b] \ def[b])
  BY DEF IInv, GrowthInv
<1>11. \A b \in Blocks : liveIn[b] \subseteq liveIn'[b] /\ liveOut[b] \subseteq liveOut'[b]
  <2>1. liveOut[blk] \subseteq out
    BY <1>3
  <2>2. liveIn[blk] \subseteq in
    BY <1>0, <1>7, <1>10, <2>1
  <2> QED
    BY <1>9, <2>1, <2>2
<1>12. TypeOK'
  <2>1. liveIn' \in [Blocks -> SUBSET Regs] /\ liveOut' \in [Blocks -> SUBSET Regs]
    BY <1>0, <1>1, <1>6, <1>8 DEF TypeOK
  <2>2. blk' \in Blocks
    BY <1>0, <1>2, NumBlocksAssumption DEF Blocks
  <2>3. changed' \in BOOLEAN
    BY <1>0, <1>2 DEF TypeOK
  <2>4. phase' \in {"local", "universe", "solve", "done"}
    BY <1>0, <1>2
  <2> QED
    BY <1>0, <2>1, <2>2, <2>3, <2>4 DEF TypeOK
<1>13. ScanInv'
  <2>1. \A b \in Blocks : use[b] = Exposed(b) /\ def[b] = Written(b)
    BY <1>0 DEF IInv, ScanInv
  <2>2. \A b \in Blocks : Exposed(b)' = Exposed(b) /\ Written(b)' = Written(b)
    BY <1>0 DEF Exposed, Written, ExposedIn, WrittenIn
  <2>3. phase' # "local"
    BY <1>0, <1>2
  <2> QED
    BY <1>0, <2>1, <2>2, <2>3 DEF ScanInv
<1>14. QuietInv'
  BY <1>0, <1>2 DEF QuietInv
<1>15. UniverseInv'
  BY <1>0, <1>4, <1>6, <1>8, <1>9 DEF UniverseInv
<1>16. GrowthInv'
  <2> SUFFICES ASSUME NEW b \in Blocks
               PROVE  /\ liveOut'[b] \subseteq (UNION {liveIn'[s] : s \in succ[b]})
                      /\ liveIn'[b] \subseteq use[b] \cup (liveOut'[b] \ def[b])
    BY <1>0 DEF GrowthInv
  <2>1. (UNION {liveIn[s] : s \in succ[b]}) \subseteq (UNION {liveIn'[s] : s \in succ[b]})
    BY <1>4, <1>11
  <2>2. liveOut'[b] \subseteq (UNION {liveIn[s] : s \in succ[b]})
    BY <1>3, <1>9, <1>10
  <2>3. liveIn'[b] \subseteq use[b] \cup (liveOut'[b] \ def[b])
    BY <1>7, <1>9, <1>10
  <2> QED
    BY <2>1, <2>2, <2>3
<1>17. ~now => UNCHANGED <<liveIn, liveOut>> /\ Settled(blk)
  <2> SUFFICES ASSUME ~now PROVE UNCHANGED <<liveIn, liveOut>> /\ Settled(blk)
    OBVIOUS
  <2>1. out = liveOut[blk] /\ in = liveIn[blk]
    OBVIOUS
  <2>2. liveIn' = liveIn /\ liveOut' = liveOut
    BY <1>0, <1>1, <2>1 DEF TypeOK
  <2>3. Settled(blk)
    BY <1>3, <1>7, <2>1 DEF Settled
  <2> QED
    BY <2>2, <2>3
<1>18. SweepInv'
  <2>1. ASSUME ~now PROVE \A b \in Blocks : b >= blk => Settled(b)'
    <3>1. \A b \in Blocks : b > blk => Settled(b)
      BY <1>0, <2>1 DEF IInv, SweepInv
    <3>2. \A b \in Blocks : b >= blk => b = blk \/ b > blk
      BY <1>0 DEF Blocks
    <3>3. \A b \in Blocks : Settled(b) => Settled(b)'
      BY <1>0, <1>17, <2>1 DEF Settled
    <3> QED
      BY <1>17, <2>1, <3>1, <3>2, <3>3
  <2>2. CASE blk > 1 /\ blk' = blk - 1 /\ changed' = now /\ phase' = phase
    <3>1. \A b \in Blocks : b > blk' => b >= blk
      BY <1>0, <2>2 DEF Blocks
    <3>2. phase' = "solve" /\ (~changed' => ~now)
      BY <1>0, <2>2, Zenon
    <3>3. ~changed' => \A b \in Blocks : b > blk' => Settled(b)'
      BY <2>1, <3>1, <3>2
    <3> QED
      BY <3>2, <3>3 DEF SweepInv
  <2>3. CASE blk = 1 /\ now /\ blk' = NumBlocks /\ changed' = FALSE /\ phase' = phase
    <3>0. phase' = "solve" /\ blk' = NumBlocks
      BY <1>0, <2>3, Zenon
    <3>1. phase' = "solve" /\ \A b \in Blocks : ~(b > blk')
      BY <3>0, NumBlocksAssumption DEF Blocks
    <3> QED
      BY <3>1 DEF SweepInv
  <2>4. CASE blk = 1 /\ ~now /\ phase' = "done" /\ UNCHANGED <<blk, changed>>
    <3>1. \A b \in Blocks : b >= blk
      BY <2>4 DEF Blocks
    <3> QED
      BY <2>1, <2>4, <3>1 DEF SweepInv
  <2> QED
    BY <1>2, <2>2, <2>3, <2>4
<1> QED
  BY <1>12, <1>13, <1>14, <1>15, <1>16, <1>18 DEF IInv

\* The whole next-state relation, stuttering included, keeps the invariant.
LEMMA NextInv == IInv /\ [Next]_vars => IInv'
<1> SUFFICES ASSUME IInv, [Next]_vars PROVE IInv'
  OBVIOUS
<1>1. CASE ScanInstruction
  BY <1>1, ScanInstructionInv
<1>2. CASE ScanNextBlock
  BY <1>2, ScanNextBlockInv
<1>3. CASE BuildUniverse
  BY <1>3, BuildUniverseInv
<1>4. CASE VisitBlock
  BY <1>4, VisitBlockInv
<1>5. CASE UNCHANGED vars
  BY <1>5 DEF IInv, TypeOK, ScanInv, QuietInv, UniverseInv, GrowthInv, SweepInv, Settled, Exposed,
              Written, ExposedIn, WrittenIn, vars, input
<1> QED
  BY <1>1, <1>2, <1>3, <1>4, <1>5 DEF Next

\* Type correctness and the strengthening hold in every reachable state.
THEOREM Invariance == Spec => []IInv
  BY InitInv, NextInv, PTL DEF Spec

-----------------------------------------------------------------------------
\* The local scan leaves exactly the upward exposed reads and the definitions
\* of every block to the solver.
THEOREM LocalSetsAreExact == Spec => []LocalSetsExact
<1>1. IInv => LocalSetsExact
  BY DEF IInv, ScanInv, LocalSetsExact
<1> QED
  BY <1>1, Invariance, PTL

\* A sweep without a change means that every equation holds: what the pass
\* returns accounts for every read of the function.
THEOREM Soundness == Spec => []SolutionAtExit
<1>1. IInv => SolutionAtExit
  <2> SUFFICES ASSUME IInv, phase = "done"
               PROVE  /\ IsSolution(liveIn)
                      /\ \A b \in Blocks : liveOut[b] = (UNION {liveIn[s] : s \in succ[b]})
    BY DEF SolutionAtExit
  <2>1. \A b \in Blocks : use[b] = Exposed(b) /\ def[b] = Written(b)
    BY DEF IInv, ScanInv
  <2>2. \A b \in Blocks : Settled(b)
    BY DEF IInv, SweepInv
  <2>3. \A b \in Blocks : liveOut[b] \subseteq (UNION {liveIn[s] : s \in succ[b]})
    BY DEF IInv, GrowthInv
  <2>4. \A b \in Blocks : liveOut[b] = (UNION {liveIn[s] : s \in succ[b]})
    BY <2>2, <2>3 DEF Settled
  <2>5. \A b \in Blocks : liveIn[b] = Exposed(b) \cup (liveOut[b] \ Written(b))
    BY <2>1, <2>2 DEF Settled
  <2>6. IsSolution(liveIn)
    BY <2>4, <2>5 DEF IsSolution
  <2> QED
    BY <2>4, <2>6
<1> QED
  BY <1>1, Invariance, PTL

-----------------------------------------------------------------------------
(* Precision: no step takes a live set past a solution.                    *)

\* Before the local scan ends nothing is live; after it the sets of the
\* solver are below every solution, and one visit cannot take them past it.
LEMMA BelowStep == IInv /\ BelowEverySolution /\ [Next]_vars => BelowEverySolution'
<1> SUFFICES ASSUME IInv, BelowEverySolution, [Next]_vars,
                    NEW family \in [Blocks -> SUBSET Regs], IsSolution(family)', NEW b \in Blocks
             PROVE  liveIn'[b] \subseteq family[b]
  BY DEF BelowEverySolution
<1>0. TypeOK
  BY DEF IInv
<1>1. UNCHANGED <<body, succ>>
  BY DEF Next, ScanInstruction, ExposedReads, ScanNextBlock, BuildUniverse, Exposing, VisitBlock, SweepChanged, NextSweep, input, vars
<1>2. IsSolution(family)
  BY <1>1 DEF IsSolution, Exposed, Written, ExposedIn, WrittenIn
<1>3. \A c \in Blocks : liveIn[c] \subseteq family[c]
  BY <1>2 DEF BelowEverySolution
<1>4. CASE VisitBlock
  <2> DEFINE out == OutOf(blk, liveIn, liveOut)
             in  == InOf(blk, out)
  <2>1. /\ phase = "solve" /\ blk \in Blocks
        /\ liveIn' = [liveIn EXCEPT ![blk] = in]
    BY <1>0, <1>4 DEF VisitBlock, SweepChanged, NextSweep, TypeOK
  <2>2. /\ use[blk] = Exposed(blk) /\ def[blk] = Written(blk)
        /\ liveOut[blk] \subseteq (UNION {liveIn[s] : s \in succ[blk]})
    BY <2>1 DEF IInv, ScanInv, GrowthInv
  <2>3. succ[blk] \subseteq Blocks
    BY <1>0, <2>1 DEF TypeOK
  <2>4. (UNION {liveIn[s] : s \in succ[blk]}) \subseteq (UNION {family[s] : s \in succ[blk]})
    BY <1>3, <2>3
  <2>5. out \subseteq (UNION {family[s] : s \in succ[blk]})
    BY <2>2, <2>4 DEF OutOf
  <2>6. out \subseteq universe
    <3>1. \A c \in Blocks : liveIn[c] \subseteq universe /\ liveOut[c] \subseteq universe
      BY <2>1 DEF IInv, UniverseInv
    <3>2. (UNION {liveIn[s] : s \in succ[blk]}) \subseteq universe
      BY <2>3, <3>1
    <3> QED
      BY <2>1, <3>1, <3>2 DEF OutOf
  <2>7. in \subseteq Exposed(blk) \cup (out \ Written(blk))
    BY <2>2, <2>6 DEF InOf
  <2>8. Exposed(blk) \cup ((UNION {family[s] : s \in succ[blk]}) \ Written(blk)) \subseteq family[blk]
    BY <1>2, <2>1 DEF IsSolution
  <2> HIDE DEF in, out
  <2>9. in \subseteq family[blk]
    BY <2>5, <2>7, <2>8
  <2>10. liveIn'[b] = IF b = blk THEN in ELSE liveIn[b]
    BY <1>0, <2>1 DEF TypeOK
  <2> QED
    BY <1>3, <2>9, <2>10
<1>5. CASE ~VisitBlock
  <2>1. liveIn' = liveIn
    BY <1>5 DEF Next, ScanInstruction, ExposedReads, ScanNextBlock, BuildUniverse, Exposing, vars
  <2> QED
    BY <1>3, <2>1
<1> QED
  BY <1>4, <1>5

\* The pass never holds a register live that no read needs: with Soundness,
\* what it returns is the least solution of the liveness equations.
THEOREM Precision == Spec => []BelowEverySolution
<1>1. Init => BelowEverySolution
  BY DEF Init, NoRegs, BelowEverySolution
<1> QED
  BY <1>1, BelowStep, Invariance, PTL DEF Spec

\* Live sets only grow, from one step to the next.
THEOREM Monotonicity == Spec => OnlyGrows
<1>1. IInv /\ [Next]_vars =>
        [\A b \in Blocks : liveIn[b] \subseteq liveIn'[b] /\ liveOut[b] \subseteq liveOut'[b]]_vars
  <2> SUFFICES ASSUME IInv, [Next]_vars, NEW b \in Blocks
               PROVE  liveIn[b] \subseteq liveIn'[b] /\ liveOut[b] \subseteq liveOut'[b]
    OBVIOUS
  <2>1. CASE VisitBlock
    <3> DEFINE out == OutOf(blk, liveIn, liveOut)
               in  == InOf(blk, out)
    <3>1. /\ TypeOK /\ phase = "solve" /\ blk \in Blocks
          /\ liveIn' = [liveIn EXCEPT ![blk] = in] /\ liveOut' = [liveOut EXCEPT ![blk] = out]
      BY <2>1 DEF VisitBlock, SweepChanged, NextSweep, IInv, TypeOK
    <3>2. liveOut[blk] \subseteq out
      BY DEF OutOf
    <3>3. /\ liveIn[blk] \subseteq use[blk] \cup (liveOut[blk] \ def[blk])
          /\ use[blk] \subseteq universe
      BY <3>1 DEF IInv, GrowthInv, UniverseInv
    <3>4. liveIn[blk] \subseteq in
      BY <3>2, <3>3 DEF InOf
    <3> HIDE DEF in, out
    <3>5. /\ liveIn'[b] = IF b = blk THEN in ELSE liveIn[b]
          /\ liveOut'[b] = IF b = blk THEN out ELSE liveOut[b]
      BY <3>1 DEF TypeOK
    <3> QED
      BY <3>2, <3>4, <3>5
  <2>2. CASE ~VisitBlock
    BY <2>2 DEF Next, ScanInstruction, ExposedReads, ScanNextBlock, BuildUniverse, Exposing, vars
  <2> QED
    BY <2>1, <2>2
<1> QED
  BY <1>1, Invariance, PTL DEF Spec, OnlyGrows

-----------------------------------------------------------------------------
(* Liveness, read by read along the paths.                                 *)

\* A path of n blocks from b to a read of r that no block before it defines.
IsPath(p, n, b, r) ==
    /\ p \in [1 .. n -> Blocks] /\ p[1] = b
    /\ \A k \in 1 .. n - 1 : p[k + 1] \in succ[p[k]] /\ r \notin Written(p[k])
    /\ r \in Exposed(p[n])
Lengths(b, r) == {n \in Nat \ {0} : \E p : IsPath(p, n, b, r)}

\* A set of numbers has a least one.
LEMMA LeastNumber ==
    ASSUME NEW T \in SUBSET Nat, T # {}
    PROVE  \E n \in T : \A m \in T : ~ (m < n)
<1> DEFINE R == {p \in Nat \X Nat : p[1] < p[2]}
<1>1. IsWellFoundedOn(R, Nat)
  BY NatLessThanWellFounded DEF OpToRel
<1>2. PICK n \in T : \A m \in T : ~ (<<m, n>> \in R)
  <2> HIDE DEF R
  <2> QED BY <1>1, WFMin
<1>3. ASSUME NEW m \in T, m < n PROVE <<m, n>> \in R
  BY <1>3
<1> QED BY <1>2, <1>3

\* What is read along a path is in every solution.
LEMMA PathsAreSolved ==
    ASSUME TypeOK, NEW family \in [Blocks -> SUBSET Regs], IsSolution(family),
           NEW p, NEW n \in Nat \ {0}, NEW b, NEW r, IsPath(p, n, b, r)
    PROVE  r \in family[b]
<1> DEFINE Missing == {k \in 0 .. n - 1 : r \notin family[p[n - k]]}
<1>0. \A k \in 1 .. n : p[k] \in Blocks
  BY DEF IsPath
<1> SUFFICES ASSUME Missing # {} PROVE FALSE
  <2>1. n - 1 \in 0 .. n - 1 /\ n - (n - 1) = 1
    OBVIOUS
  <2> QED BY <2>1 DEF IsPath
<1>1. PICK k \in Missing : \A m \in Missing : ~ (m < k)
  <2>1. Missing \in SUBSET Nat
    OBVIOUS
  <2> HIDE DEF Missing
  <2> QED BY <2>1, LeastNumber
<1>2. k \in 0 .. n - 1 /\ n - k \in 1 .. n /\ r \notin family[p[n - k]]
  OBVIOUS
<1>3. /\ Exposed(p[n - k]) \subseteq family[p[n - k]]
      /\ (UNION {family[s] : s \in succ[p[n - k]]}) \ Written(p[n - k]) \subseteq family[p[n - k]]
  BY <1>0, <1>2 DEF IsSolution
<1>4. k # 0
  BY <1>2, <1>3 DEF IsPath
<1>5. k - 1 \in 0 .. n - 1 /\ n - (k - 1) = (n - k) + 1 /\ k - 1 < k /\ n - k \in 1 .. n - 1
  BY <1>2, <1>4
<1>6. r \in family[p[(n - k) + 1]]
  <2>1. k - 1 \notin Missing
    BY <1>1, <1>5
  <2> QED BY <1>5, <2>1
<1>7. p[(n - k) + 1] \in succ[p[n - k]] /\ r \notin Written(p[n - k])
  BY <1>5 DEF IsPath
<1>8. r \in UNION {family[s] : s \in succ[p[n - k]]}
  BY <1>6, <1>7
<1> QED BY <1>2, <1>3, <1>7, <1>8

\* The registers that are read along a path are a solution.
LEMMA PathsSolve ==
    ASSUME TypeOK
    PROVE  IsSolution([b \in Blocks |-> {r \in Regs : Lengths(b, r) # {}}])
<1> DEFINE family == [b \in Blocks |-> {r \in Regs : Lengths(b, r) # {}}]
<1> SUFFICES ASSUME NEW b \in Blocks, NEW r,
                    r \in Exposed(b) \cup ((UNION {family[s] : s \in succ[b]}) \ Written(b))
             PROVE  r \in Regs /\ Lengths(b, r) # {}
  BY DEF IsSolution
<1>1. CASE r \in Exposed(b)
  <2> DEFINE p == [k \in 1 .. 1 |-> b]
  <2>1. IsPath(p, 1, b, r)
    BY <1>1 DEF IsPath
  <2>2. 1 \in Lengths(b, r)
    BY <2>1 DEF Lengths
  <2>3. r \in Regs
    BY <1>1 DEF Exposed, ExposedIn
  <2> QED BY <2>2, <2>3
<1>2. CASE r \in (UNION {family[s] : s \in succ[b]}) \ Written(b)
  <2>1. PICK s \in succ[b] : r \in family[s]
    BY <1>2
  <2>2. s \in Blocks /\ r \in Regs
    BY <2>1 DEF TypeOK
  <2>3. PICK n \in Lengths(s, r) : TRUE
    BY <2>1, <2>2
  <2>4. PICK q : IsPath(q, n, s, r)
    BY <2>3 DEF Lengths
  <2>5. n \in Nat \ {0}
    BY <2>3 DEF Lengths
  <2> DEFINE p == [k \in 1 .. n + 1 |-> IF k = 1 THEN b ELSE q[k - 1]]
  <2>6. IsPath(p, n + 1, b, r)
    <3>1. p \in [1 .. n + 1 -> Blocks]
      <4>1. \A k \in 1 .. n + 1 : k # 1 => q[k - 1] \in Blocks
        BY <2>4, <2>5 DEF IsPath
      <4> QED BY <4>1
    <3>2. p[1] = b /\ \A k \in 1 .. n : p[k + 1] = q[k]
      BY <2>5
    <3>3. ASSUME NEW k \in 1 .. (n + 1) - 1 PROVE p[k + 1] \in succ[p[k]] /\ r \notin Written(p[k])
      <4>1. CASE k = 1
        BY <1>2, <2>1, <2>4, <2>5, <3>2, <4>1 DEF IsPath
      <4>2. CASE k # 1
        <5>1. k - 1 \in 1 .. n - 1 /\ (k - 1) + 1 = k /\ k \in 1 .. n
          BY <2>5, <4>2
        <5>2. p[k] = q[k - 1] /\ p[k + 1] = q[(k - 1) + 1]
          BY <2>5, <4>2, <5>1
        <5>3. q[(k - 1) + 1] \in succ[q[k - 1]] /\ r \notin Written(q[k - 1])
          BY <2>4, <5>1 DEF IsPath
        <5> QED BY <5>2, <5>3
      <4> QED BY <4>1, <4>2
    <3>4. r \in Exposed(p[n + 1])
      BY <2>4, <2>5, <3>2 DEF IsPath
    <3> HIDE DEF p
    <3> QED BY <3>1, <3>2, <3>3, <3>4 DEF IsPath
  <2>7. n + 1 \in Lengths(b, r)
    <3> HIDE DEF p
    <3> QED BY <2>5, <2>6 DEF Lengths
  <2> QED BY <2>2, <2>7
<1> QED BY <1>1, <1>2

\* A path that is longer than the function has blocks meets one of them
\* twice and can leave out what is between.
LEMMA ShortcutExists ==
    ASSUME NEW p, NEW n \in Nat, n > NumBlocks, NEW b, NEW r, IsPath(p, n, b, r)
    PROVE  \E m \in Lengths(b, r) : m < n
<1>1. PICK i \in 1 .. n, j \in 1 .. n : i < j /\ p[i] = p[j]
  <2>1. IsFiniteSet(1 .. n) /\ Cardinality(1 .. n) = n
    BY FS_Interval
  <2>2. IsFiniteSet(Blocks) /\ Cardinality(Blocks) = NumBlocks
    BY FS_Interval, NumBlocksAssumption DEF Blocks
  <2>3. Cardinality(Blocks) < Cardinality(1 .. n)
    BY <2>1, <2>2, NumBlocksAssumption
  <2>4. p \in [1 .. n -> Blocks]
    BY DEF IsPath
  <2>5. PICK x, y \in 1 .. n : x # y /\ p[x] = p[y]
    BY <2>1, <2>2, <2>3, <2>4, FS_PigeonHole
  <2> QED BY <2>5
<1> PICK d \in Nat : d = j - i
  BY <1>1
<1> DEFINE m == n - d
           q == [k \in 1 .. m |-> IF k <= i THEN p[k] ELSE p[k + d]]
<1>2. m \in Nat \ {0} /\ m < n /\ i \in 1 .. m
  BY <1>1
<1>3. \A k \in 1 .. m : k > i => k + d \in 1 .. n
  BY <1>2
<1>4. \A k \in 1 .. m : k \in 1 .. n
  BY <1>2
<1>5. IsPath(q, m, b, r)
  <2>1. q \in [1 .. m -> Blocks]
    <3>1. \A k \in 1 .. n : p[k] \in Blocks
      BY DEF IsPath
    <3> QED BY <1>3, <1>4, <3>1
  <2>2. q[1] = b
    BY <1>2 DEF IsPath
  <2>3. ASSUME NEW k \in 1 .. m - 1 PROVE q[k + 1] \in succ[q[k]] /\ r \notin Written(q[k])
    <3>0. k \in 1 .. m /\ k + 1 \in 1 .. m /\ i + d = j
      BY <1>1, <1>2
    <3>1. CASE k < i
      <4>1. q[k] = p[k] /\ q[k + 1] = p[k + 1] /\ k \in 1 .. n - 1
        BY <1>2, <3>0, <3>1
      <4> QED BY <4>1 DEF IsPath
    <3>2. CASE k = i
      <4>1. q[k] = p[j] /\ q[k + 1] = p[j + 1] /\ j \in 1 .. n - 1
        <5>1. q[k] = p[i]
          BY <3>0, <3>2
        <5>2. q[k + 1] = p[(k + 1) + d] /\ (k + 1) + d = j + 1
          BY <1>1, <3>0, <3>2
        <5>3. j \in 1 .. n - 1
          BY <1>1, <1>2, <3>0, <3>2
        <5> QED BY <1>1, <5>1, <5>2, <5>3
      <4> QED BY <4>1 DEF IsPath
    <3>3. CASE k > i
      <4>1. q[k] = p[k + d] /\ q[k + 1] = p[(k + 1) + d]
        BY <3>0, <3>3
      <4>2. (k + 1) + d = (k + d) + 1 /\ k + d \in 1 .. n - 1
        BY <1>2, <3>3
      <4> QED BY <4>1, <4>2 DEF IsPath
    <3> QED BY <1>1, <3>1, <3>2, <3>3
  <2>4. r \in Exposed(q[m])
    <3>1. q[m] = p[n]
      <4>1. m \in 1 .. m /\ m + d = n
        BY <1>2
      <4>2. CASE m <= i
        <5>1. m = i /\ j = n
          BY <1>1, <1>2, <4>2
        <5> QED BY <1>1, <4>1, <5>1
      <4>3. CASE m > i
        BY <4>1, <4>3
      <4> QED BY <1>2, <4>2, <4>3
    <3> QED BY <3>1 DEF IsPath
  <2> HIDE DEF q, m
  <2> QED BY <2>1, <2>2, <2>3, <2>4 DEF IsPath
<1>6. m \in Lengths(b, r)
  <2> HIDE DEF q, m
  <2> QED BY <1>2, <1>5 DEF Lengths
<1> QED BY <1>2, <1>6

\* As many blocks as the function has are enough to follow.
LEMMA ShortPath ==
    ASSUME NEW b, NEW r
    PROVE  LiveByPath(b, r) <=> Lengths(b, r) # {}
<1>1. ASSUME LiveByPath(b, r) PROVE Lengths(b, r) # {}
  <2>1. PICK n \in Blocks : \E p : IsPath(p, n, b, r)
    BY <1>1 DEF LiveByPath, IsPath
  <2>2. n \in Nat \ {0}
    BY NumBlocksAssumption DEF Blocks
  <2> QED BY <2>1, <2>2 DEF Lengths
<1>2. ASSUME Lengths(b, r) # {} PROVE LiveByPath(b, r)
  <2>1. PICK n \in Lengths(b, r) : \A m \in Lengths(b, r) : ~ (m < n)
    <3>1. Lengths(b, r) \in SUBSET Nat
      BY DEF Lengths
    <3> QED BY <1>2, <3>1, LeastNumber
  <2>2. PICK p : IsPath(p, n, b, r)
    BY <2>1 DEF Lengths
  <2>3. n \in Nat \ {0}
    BY <2>1 DEF Lengths
  <2>4. ~ (n > NumBlocks)
    BY <2>1, <2>2, <2>3, ShortcutExists
  <2>5. n \in Blocks
    BY <2>3, <2>4, NumBlocksAssumption DEF Blocks
  <2> QED BY <2>2, <2>5 DEF LiveByPath, IsPath
<1> QED BY <1>1, <1>2

\* What getAnalysis<LivenessAnalysisPass> hands to the register allocator is
\* the liveness of the function: a register is live into a block exactly when
\* some path from it reads the register before any block defines it.
THEOREM LiveInAlwaysLiveness == Spec => []LiveInIsLiveness
<1>1. IInv /\ SolutionAtExit /\ BelowEverySolution => LiveInIsLiveness
  <2> SUFFICES ASSUME IInv, SolutionAtExit, BelowEverySolution, phase = "done", NEW b \in Blocks
               PROVE  liveIn[b] = {r \in Regs : LiveByPath(b, r)}
    BY DEF LiveInIsLiveness
  <2> DEFINE family == [c \in Blocks |-> {r \in Regs : Lengths(c, r) # {}}]
  <2>1. TypeOK /\ liveIn \in [Blocks -> SUBSET Regs]
    BY DEF IInv, TypeOK
  <2>2. liveIn[b] \subseteq family[b]
    <3>1. family \in [Blocks -> SUBSET Regs]
      OBVIOUS
    <3>2. IsSolution(family)
      BY <2>1, PathsSolve
    <3> HIDE DEF family
    <3> QED BY <3>1, <3>2 DEF BelowEverySolution
  <2>3. ASSUME NEW r \in Regs, Lengths(b, r) # {} PROVE r \in liveIn[b]
    <3>1. PICK n \in Nat \ {0} : \E p : IsPath(p, n, b, r)
      BY <2>3 DEF Lengths
    <3>2. IsSolution(liveIn)
      BY DEF SolutionAtExit
    <3> QED BY <2>1, <3>1, <3>2, PathsAreSolved
  <2> QED BY <2>1, <2>2, <2>3, ShortPath
<1>2. Spec => [](IInv /\ SolutionAtExit /\ BelowEverySolution)
  BY Invariance, Soundness, Precision, PTL
<1> QED BY <1>1, <1>2, PTL

-----------------------------------------------------------------------------
(* Lists.                                                                  *)

IsList(s) == \E S : s \in Seq(S)
AreLists(s) == IsList(s) /\ \A k \in DOMAIN s : IsList(s[k])

\* Induction over the naturals, for a set of them.
LEMMA NumberInduction ==
    ASSUME NEW T, 0 \in T, \A n \in Nat : n \in T => n + 1 \in T
    PROVE  Nat \subseteq T
<1> DEFINE Missing == {n \in Nat : n \notin T}
<1> SUFFICES ASSUME Missing # {} PROVE FALSE
  OBVIOUS
<1>1. PICK n \in Missing : \A m \in Missing : ~ (m < n)
  BY LeastNumber
<1>2. n \in Nat /\ n \notin T /\ n # 0
  OBVIOUS
<1>3. n - 1 \in Nat /\ n - 1 < n /\ n = (n - 1) + 1
  BY <1>2
<1>4. n - 1 \in T
  BY <1>1, <1>3
<1> QED BY <1>2, <1>3, <1>4

\* A list is over what is in it.
LEMMA ListIs ==
    ASSUME NEW s, IsList(s)
    PROVE  /\ Len(s) \in Nat /\ DOMAIN s = 1 .. Len(s) /\ s \in Seq(ToSet(s))
           /\ s = [k \in 1 .. Len(s) |-> s[k]]
           /\ \A k \in 1 .. Len(s) : s[k] \in ToSet(s)
<1>1. PICK S : s \in Seq(S)
  BY DEF IsList
<1>2. Len(s) \in Nat /\ DOMAIN s = 1 .. Len(s) /\ s = [k \in 1 .. Len(s) |-> s[k]]
  BY <1>1
<1>3. \A k \in 1 .. Len(s) : s[k] \in ToSet(s)
  BY <1>2 DEF ToSet
<1>4. s \in Seq(ToSet(s))
  BY <1>2, <1>3
<1> QED BY <1>2, <1>3, <1>4

\* What is indexed by the first numbers is a list.
LEMMA ListMade ==
    ASSUME NEW n \in Nat, NEW s, s = [k \in 1 .. n |-> s[k]]
    PROVE  IsList(s) /\ Len(s) = n /\ DOMAIN s = 1 .. n
<1>1. s \in Seq({s[k] : k \in 1 .. n}) /\ Len(s) = n
  OBVIOUS
<1>2. DOMAIN s = 1 .. n
  OBVIOUS
<1> QED BY <1>1, <1>2 DEF IsList

\* Two lists after one another.
LEMMA ListConcat ==
    ASSUME NEW s, NEW t, IsList(s), IsList(t)
    PROVE  /\ IsList(s \o t) /\ Len(s \o t) = Len(s) + Len(t)
           /\ ToSet(s \o t) = ToSet(s) \cup ToSet(t)
           /\ \A k \in 1 .. Len(s) : (s \o t)[k] = s[k]
           /\ \A k \in 1 .. Len(t) : (s \o t)[Len(s) + k] = t[k]
<1> DEFINE S == ToSet(s) \cup ToSet(t)
<1>1. s \in Seq(S) /\ t \in Seq(S)
  BY ListIs
<1> HIDE DEF S
<1>2. PICK m \in Nat, n \in Nat : m = Len(s) /\ n = Len(t)
  BY <1>1
<1>3. PICK r : r = s \o t
  OBVIOUS
<1>4. /\ r \in Seq(S) /\ Len(r) = m + n /\ \A k \in 1 .. m : r[k] = s[k]
      /\ \A k \in 1 .. n : r[m + k] = t[k]
  BY <1>1, <1>2, <1>3
<1>5. DOMAIN r = 1 .. m + n /\ DOMAIN s = 1 .. m /\ DOMAIN t = 1 .. n
  BY <1>1, <1>2, <1>4
<1>6. ToSet(r) \subseteq ToSet(s) \cup ToSet(t)
  <2> SUFFICES ASSUME NEW k \in 1 .. m + n PROVE r[k] \in ToSet(s) \cup ToSet(t)
    BY <1>5 DEF ToSet
  <2>1. CASE k <= m
    BY <1>4, <1>5, <2>1 DEF ToSet
  <2>2. CASE k > m
    <3>1. k - m \in 1 .. n /\ m + (k - m) = k
      BY <2>2
    <3>2. r[k] = t[k - m]
      BY <1>4, <3>1
    <3> QED BY <1>5, <3>1, <3>2 DEF ToSet
  <2> QED BY <2>1, <2>2
<1>7. ToSet(s) \subseteq ToSet(r)
  <2>1. \A k \in 1 .. m : k \in 1 .. m + n
    OBVIOUS
  <2> QED BY <1>4, <1>5, <2>1 DEF ToSet
<1>8. ToSet(t) \subseteq ToSet(r)
  <2>1. \A k \in 1 .. n : m + k \in 1 .. m + n
    OBVIOUS
  <2> QED BY <1>4, <1>5, <2>1 DEF ToSet
<1>9. IsList(r)
  BY <1>4 DEF IsList
<1> QED BY <1>2, <1>3, <1>4, <1>6, <1>7, <1>8, <1>9

\* Lists of few elements.
LEMMA ListOne ==
    ASSUME NEW x
    PROVE  /\ IsList(<<x>>) /\ ToSet(<<x>>) = {x} /\ Len(<<x>>) = 1 /\ <<x>>[1] = x
           /\ IsList(<< >>) /\ ToSet(<< >>) = {} /\ Len(<< >>) = 0
<1>1. <<x>> \in Seq({x}) /\ << >> \in Seq({x}) /\ Len(<<x>>) = 1 /\ Len(<< >>) = 0 /\ <<x>>[1] = x
  OBVIOUS
<1>2. DOMAIN <<x>> = {1} /\ DOMAIN << >> = {}
  BY <1>1
<1>3. ToSet(<<x>>) = {x} /\ ToSet(<< >>) = {}
  BY <1>1, <1>2 DEF ToSet
<1> QED BY <1>1, <1>3 DEF IsList

\* A list and an element behind it.
LEMMA ListAppend ==
    ASSUME NEW s, IsList(s), NEW x
    PROVE  /\ IsList(Append(s, x)) /\ Len(Append(s, x)) = Len(s) + 1
           /\ ToSet(Append(s, x)) = ToSet(s) \cup {x}
           /\ Append(s, x)[Len(s) + 1] = x /\ \A k \in 1 .. Len(s) : Append(s, x)[k] = s[k]
<1>1. Append(s, x) = s \o <<x>>
  <2>1. s \in Seq(ToSet(s) \cup {x})
    BY ListIs
  <2> QED BY <2>1
<1>2. IsList(<<x>>) /\ ToSet(<<x>>) = {x} /\ Len(<<x>>) = 1 /\ <<x>>[1] = x
  BY ListOne
<1>3. /\ IsList(s \o <<x>>) /\ Len(s \o <<x>>) = Len(s) + Len(<<x>>)
      /\ ToSet(s \o <<x>>) = ToSet(s) \cup ToSet(<<x>>)
      /\ \A k \in 1 .. Len(s) : (s \o <<x>>)[k] = s[k]
      /\ \A k \in 1 .. Len(<<x>>) : (s \o <<x>>)[Len(s) + k] = <<x>>[k]
  BY <1>2, ListConcat
<1>4. 1 \in 1 .. Len(<<x>>)
  BY <1>2
<1> QED BY <1>1, <1>2, <1>3, <1>4

\* f[m] is the first m parts of s, one after the other.
Joins(f, s, n) == f = [m \in 1 .. n |-> IF m = 1 THEN s[m] ELSE f[m - 1] \o s[m]]

\* Every number of parts can be joined.
LEMMA JoinsExists == ASSUME NEW s, NEW n \in Nat PROVE \E f : Joins(f, s, n)
<1> DEFINE T == {k \in Nat : \E f : Joins(f, s, k)}
<1>1. 0 \in T
  <2>1. Joins([m \in 1 .. 0 |-> 0], s, 0)
    BY DEF Joins
  <2> QED BY <2>1
<1>2. ASSUME NEW k \in Nat, k \in T PROVE k + 1 \in T
  <2>1. PICK f : Joins(f, s, k)
    BY <1>2
  <2> DEFINE g == [m \in 1 .. k + 1 |-> IF m <= k THEN f[m] ELSE IF m = 1 THEN s[m] ELSE f[m - 1] \o s[m]]
  <2>2. ASSUME NEW m \in 1 .. k + 1 PROVE g[m] = IF m = 1 THEN s[m] ELSE g[m - 1] \o s[m]
    <3>1. m # 1 => m - 1 \in 1 .. k /\ m - 1 <= k
      OBVIOUS
    <3>2. m # 1 => g[m - 1] = f[m - 1]
      BY <3>1
    <3>3. CASE m <= k
      <4>1. m \in 1 .. k /\ g[m] = f[m]
        BY <3>3
      <4>2. f[m] = IF m = 1 THEN s[m] ELSE f[m - 1] \o s[m]
        BY <2>1, <4>1 DEF Joins
      <4> QED BY <3>2, <4>1, <4>2
    <3>4. CASE ~(m <= k)
      BY <3>2, <3>4
    <3> QED BY <3>3, <3>4
  <2>3. g = [m \in 1 .. k + 1 |-> g[m]]
    OBVIOUS
  <2> HIDE DEF g
  <2>4. Joins(g, s, k + 1)
    BY <2>2, <2>3 DEF Joins
  <2> QED BY <2>4
<1> HIDE DEF T
<1>3. Nat \subseteq T
  BY <1>1, <1>2, NumberInduction
<1> QED BY <1>3 DEF T

\* A flattened list of lists holds what its parts hold.
LEMMA FlattenMembers ==
    ASSUME NEW s, AreLists(s)
    PROVE  /\ IsList(FlattenSeq(s))
           /\ ToSet(FlattenSeq(s)) = UNION {ToSet(s[k]) : k \in DOMAIN s}
<1>1. PICK n \in Nat : n = Len(s) /\ DOMAIN s = 1 .. n /\ s = [k \in 1 .. n |-> s[k]]
  BY ListIs DEF AreLists
<1>2. CASE n = 0
  <2>1. FlattenSeq(s) = s /\ IsList(s)
    BY <1>1, <1>2 DEF FlattenSeq, AreLists
  <2>2. DOMAIN s = {}
    BY <1>1, <1>2
  <2>3. ToSet(s) = {} /\ UNION {ToSet(s[k]) : k \in DOMAIN s} = {}
    BY <2>2 DEF ToSet
  <2> QED BY <2>1, <2>3
<1>3. CASE n # 0
  <2> DEFINE f == CHOOSE f : f = [i \in 1 .. n |-> IF i = 1 THEN s[i] ELSE f[i - 1] \o s[i]]
  <2>1. FlattenSeq(s) = f[n]
    BY <1>1, <1>3 DEF FlattenSeq
  <2>2. Joins(f, s, n)
    <3>1. \E h : h = [i \in 1 .. n |-> IF i = 1 THEN s[i] ELSE h[i - 1] \o s[i]]
      BY JoinsExists DEF Joins
    <3> QED BY <3>1 DEF Joins
  <2> HIDE DEF f
  <2>3. \A i \in 1 .. n : f[i] = IF i = 1 THEN s[i] ELSE f[i - 1] \o s[i]
    BY <2>2 DEF Joins
  <2> DEFINE Parts(m) == UNION {ToSet(s[k]) : k \in 1 .. m}
             T == {m \in Nat : m + 1 <= n => IsList(f[m + 1]) /\ ToSet(f[m + 1]) = Parts(m + 1)}
  <2>4. 0 \in T
    <3>0. 1 \in 1 .. n
      BY <1>3
    <3>1. f[1] = s[1] /\ IsList(s[1])
      BY <3>0, <1>1, <1>3, <2>3 DEF AreLists
    <3>2. Parts(1) = ToSet(s[1])
      <4>1. 1 .. 1 = {1}
        OBVIOUS
      <4> QED BY <4>1
    <3> QED BY <3>1, <3>2
  <2>5. ASSUME NEW m \in Nat, m \in T PROVE m + 1 \in T
    <3> SUFFICES ASSUME (m + 1) + 1 <= n
                 PROVE  IsList(f[(m + 1) + 1]) /\ ToSet(f[(m + 1) + 1]) = Parts((m + 1) + 1)
      OBVIOUS
    <3>1. (m + 1) + 1 \in 1 .. n /\ (m + 1) + 1 # 1 /\ ((m + 1) + 1) - 1 = m + 1 /\ m + 1 <= n
      OBVIOUS
    <3>2. f[(m + 1) + 1] = f[m + 1] \o s[(m + 1) + 1]
      BY <2>3, <3>1
    <3>3. IsList(f[m + 1]) /\ ToSet(f[m + 1]) = Parts(m + 1)
      BY <2>5, <3>1
    <3>4. IsList(s[(m + 1) + 1])
      BY <1>1, <3>1 DEF AreLists
    <3>5. 1 .. (m + 1) + 1 = (1 .. m + 1) \cup {(m + 1) + 1}
      OBVIOUS
    <3>6. Parts((m + 1) + 1) = Parts(m + 1) \cup ToSet(s[(m + 1) + 1])
      BY <3>5
    <3> QED BY <3>2, <3>3, <3>4, <3>6, ListConcat
  <2>6. Nat \subseteq T
    <3> HIDE DEF T
    <3> QED BY <2>4, <2>5, NumberInduction
  <2>7. n - 1 \in T /\ (n - 1) + 1 = n
    <3>1. n - 1 \in Nat
      BY <1>3
    <3> HIDE DEF T
    <3> QED BY <2>6, <3>1
  <2>8. IsList(f[n]) /\ ToSet(f[n]) = Parts(n)
    BY <2>7
  <2> QED BY <1>1, <2>1, <2>8
<1> QED BY <1>2, <1>3

\* A list of lists, made index by index, and what is in it flattened.
LEMMA FlattenMade ==
    ASSUME NEW n \in Nat, NEW s, s = [k \in 1 .. n |-> s[k]], \A k \in 1 .. n : IsList(s[k])
    PROVE  /\ IsList(FlattenSeq(s)) /\ AreLists(s)
           /\ ToSet(FlattenSeq(s)) = UNION {ToSet(s[k]) : k \in 1 .. n}
<1>1. IsList(s) /\ DOMAIN s = 1 .. n
  BY ListMade
<1>2. AreLists(s)
  BY <1>1 DEF AreLists
<1> QED BY <1>1, <1>2, FlattenMembers

\* A reversed list holds the same.
LEMMA ReverseMembers ==
    ASSUME NEW s, IsList(s)
    PROVE  /\ IsList(Reverse(s)) /\ Len(Reverse(s)) = Len(s) /\ ToSet(Reverse(s)) = ToSet(s)
           /\ \A k \in 1 .. Len(s) : Reverse(s)[k] = s[(Len(s) - k) + 1]
<1>1. PICK n \in Nat : n = Len(s) /\ DOMAIN s = 1 .. n
  BY ListIs
<1>2. PICK r : r = Reverse(s)
  OBVIOUS
<1>3. r = [k \in 1 .. n |-> s[(n - k) + 1]]
  BY <1>1, <1>2 DEF Reverse
<1>4. r = [k \in 1 .. n |-> r[k]] /\ \A k \in 1 .. n : r[k] = s[(n - k) + 1]
  BY <1>3
<1>5. IsList(r) /\ Len(r) = n /\ DOMAIN r = 1 .. n
  BY <1>4, ListMade
<1>6. \A k \in 1 .. n : (n - k) + 1 \in 1 .. n /\ (n - ((n - k) + 1)) + 1 = k
  OBVIOUS
<1>7. ToSet(r) \subseteq ToSet(s)
  BY <1>1, <1>4, <1>5, <1>6 DEF ToSet
<1>8. ToSet(s) \subseteq ToSet(r)
  <2> SUFFICES ASSUME NEW k \in 1 .. n PROVE s[k] \in ToSet(r)
    BY <1>1 DEF ToSet
  <2>1. (n - k) + 1 \in 1 .. n /\ r[(n - k) + 1] = s[k]
    BY <1>4, <1>6
  <2> QED BY <1>5, <2>1 DEF ToSet
<1> QED BY <1>1, <1>2, <1>4, <1>5, <1>7, <1>8

\* A set of the first numbers has its maximum in it.
LEMMA MaxOf ==
    ASSUME NEW n \in Nat, NEW s \in SUBSET (1 .. n), s # {}
    PROVE  Max(s) \in s /\ \A y \in s : Max(s) >= y
<1> DEFINE Bounded(k) == \A t \in SUBSET (1 .. k) : t # {} => \E x \in t : \A y \in t : x >= y
           T == {k \in Nat : Bounded(k)}
<1>1. 0 \in T
  <2>1. 1 .. 0 = {}
    OBVIOUS
  <2> QED BY <2>1
<1>2. ASSUME NEW k \in Nat, k \in T PROVE k + 1 \in T
  <2> SUFFICES ASSUME NEW t \in SUBSET (1 .. k + 1), t # {}
               PROVE  \E x \in t : \A y \in t : x >= y
    OBVIOUS
  <2>1. CASE k + 1 \in t
    BY <2>1
  <2>2. CASE k + 1 \notin t
    <3>1. t \in SUBSET (1 .. k)
      BY <2>2
    <3> QED BY <1>2, <3>1
  <2> QED BY <2>1, <2>2
<1>3. n \in T
  <2> HIDE DEF T
  <2> QED BY <1>1, <1>2, NumberInduction
<1>4. \E x \in s : \A y \in s : x >= y
  BY <1>3
<1> QED BY <1>4 DEF Max

\* The maximum of the first numbers is the last of them.
LEMMA MaxOfFirst == ASSUME NEW k \in Nat \ {0} PROVE Max(1 .. k) = k /\ (1 .. k) \ {k} = 1 .. (k - 1)
<1>1. k \in 1 .. k
  OBVIOUS
<1>2. Max(1 .. k) \in 1 .. k /\ \A y \in 1 .. k : Max(1 .. k) >= y
  BY <1>1, MaxOf
<1> QED BY <1>1, <1>2

\* What a block's instructions make of a graph.
Visited(base, s) == FoldLeft(VisitBackwards, base, s)
VisitBackwardsSteps(p, s, n, base) ==
    /\ p[0] = base /\ p[n] = Visited(base, s)
    /\ \A k \in 1 .. n : p[k] = VisitBackwards(p[k - 1], s[k])

\* The graph of a block goes through the instructions one by one.
LEMMA VisitBackwardsWalk ==
    ASSUME NEW s, NEW n \in Nat, DOMAIN s = 1 .. n, NEW base
    PROVE  \E p : VisitBackwardsSteps(p, s, n, base)
<1> DEFINE At(f, t) == IF t = {} THEN base ELSE VisitBackwards(f[t \ {Max(t)}], s[Max(t)])
           Is(f, m) == f = [t \in SUBSET (1 .. m) |-> At(f, t)]
           T == {m \in Nat : \E f : Is(f, m)}
<1>1. 0 \in T
  <2> DEFINE f == [t \in SUBSET (1 .. 0) |-> base]
  <2>1. \A t \in SUBSET (1 .. 0) : t = {}
    OBVIOUS
  <2>2. Is(f, 0)
    BY <2>1
  <2> QED BY <2>2
<1>2. ASSUME NEW m \in Nat, m \in T PROVE m + 1 \in T
  <2>1. PICK f : Is(f, m)
    BY <1>2
  <2> DEFINE g == [t \in SUBSET (1 .. m + 1) |->
                     IF m + 1 \in t THEN VisitBackwards(f[t \ {m + 1}], s[m + 1]) ELSE f[t]]
  <2>2. ASSUME NEW t \in SUBSET (1 .. m + 1) PROVE g[t] = At(g, t)
    <3>0. \A x \in SUBSET (1 .. m) : x \in SUBSET (1 .. m + 1) /\ m + 1 \notin x /\ g[x] = f[x]
      OBVIOUS
    <3>1. CASE m + 1 \in t
      <4>1. Max(t) = m + 1
        <5>1. m + 1 \in Nat /\ t # {}
          BY <3>1
        <5>2. Max(t) \in t /\ \A y \in t : Max(t) >= y
          BY <5>1, MaxOf
        <5>3. Max(t) \in 1 .. m + 1 /\ Max(t) >= m + 1
          BY <3>1, <5>2
        <5> QED BY <5>3
      <4>2. t \ {m + 1} \in SUBSET (1 .. m)
        OBVIOUS
      <4>3. g[t \ {m + 1}] = f[t \ {m + 1}]
        BY <3>0, <4>2
      <4>4. g[t] = VisitBackwards(f[t \ {m + 1}], s[m + 1])
        BY <3>1
      <4> HIDE DEF g
      <4> QED BY <3>1, <4>1, <4>3, <4>4
    <3>2. CASE m + 1 \notin t
      <4>0. t \in SUBSET (1 .. m)
        BY <3>2
      <4>1. t \in SUBSET (1 .. m) /\ t \ {Max(t)} \in SUBSET (1 .. m)
        BY <4>0
      <4>2. g[t] = f[t] /\ g[t \ {Max(t)}] = f[t \ {Max(t)}]
        BY <3>0, <4>1
      <4>3. f[t] = At(f, t)
        BY <2>1, <4>1
      <4> HIDE DEF g
      <4> QED BY <4>2, <4>3
    <3> QED BY <3>1, <3>2
  <2>3. g = [t \in SUBSET (1 .. m + 1) |-> g[t]]
    OBVIOUS
  <2> HIDE DEF g, At
  <2>4. Is(g, m + 1)
    BY <2>2, <2>3
  <2> QED BY <2>4
<1>3. \E f : Is(f, n)
  <2> HIDE DEF T, Is
  <2>1. n \in T
    BY <1>1, <1>2, NumberInduction
  <2> QED BY <2>1 DEF T
<1> DEFINE g == CHOOSE f : Is(f, n)
<1>4. Visited(base, s) = g[1 .. n]
  BY DEF Visited, FoldLeft, MapThenFoldSet, Max
<1>5. Is(g, n)
  <2> HIDE DEF Is
  <2> QED BY <1>3
<1> HIDE DEF g
<1>6. \A t \in SUBSET (1 .. n) : g[t] = At(g, t)
  BY <1>5
<1> DEFINE p == [k \in 0 .. n |-> g[1 .. k]]
<1>7. p[0] = base
  <2>1. 1 .. 0 = {} /\ 0 \in 0 .. n
    OBVIOUS
  <2>2. g[{}] = base
    BY <1>6
  <2> QED BY <2>1, <2>2
<1>8. p[n] = g[1 .. n]
  OBVIOUS
<1>9. ASSUME NEW k \in 1 .. n PROVE p[k] = VisitBackwards(p[k - 1], s[k])
  <2>1. k \in Nat \ {0} /\ 1 .. k \in SUBSET (1 .. n) /\ 1 .. k # {} /\ k \in 0 .. n /\ k - 1 \in 0 .. n
    OBVIOUS
  <2>2. Max(1 .. k) = k /\ (1 .. k) \ {k} = 1 .. (k - 1)
    BY <2>1, MaxOfFirst
  <2>3. g[1 .. k] = VisitBackwards(g[1 .. (k - 1)], s[k])
    BY <1>6, <2>1, <2>2
  <2> QED BY <2>1, <2>3
<1> HIDE DEF p
<1> QED BY <1>4, <1>7, <1>8, <1>9 DEF VisitBackwardsSteps

\* What the rewriting of a block, and of a function, results in.
RewrittenBlock(base, s) == FoldLeft(RewriteInstruction, base, s)
RewriteInstructionSteps(p, s, n, base) ==
    /\ p[0] = base /\ p[n] = RewrittenBlock(base, s)
    /\ \A k \in 1 .. n : p[k] = RewriteInstruction(p[k - 1], s[k])

\* A block is rewritten one instruction after the other.
LEMMA RewriteInstructionWalk ==
    ASSUME NEW s, NEW n \in Nat, DOMAIN s = 1 .. n, NEW base
    PROVE  \E p : RewriteInstructionSteps(p, s, n, base)
<1> DEFINE At(f, t) == IF t = {} THEN base ELSE RewriteInstruction(f[t \ {Max(t)}], s[Max(t)])
           Is(f, m) == f = [t \in SUBSET (1 .. m) |-> At(f, t)]
           T == {m \in Nat : \E f : Is(f, m)}
<1>1. 0 \in T
  <2> DEFINE f == [t \in SUBSET (1 .. 0) |-> base]
  <2>1. \A t \in SUBSET (1 .. 0) : t = {}
    OBVIOUS
  <2>2. Is(f, 0)
    BY <2>1
  <2> QED BY <2>2
<1>2. ASSUME NEW m \in Nat, m \in T PROVE m + 1 \in T
  <2>1. PICK f : Is(f, m)
    BY <1>2
  <2> DEFINE g == [t \in SUBSET (1 .. m + 1) |->
                     IF m + 1 \in t THEN RewriteInstruction(f[t \ {m + 1}], s[m + 1]) ELSE f[t]]
  <2>2. ASSUME NEW t \in SUBSET (1 .. m + 1) PROVE g[t] = At(g, t)
    <3>0. \A x \in SUBSET (1 .. m) : x \in SUBSET (1 .. m + 1) /\ m + 1 \notin x /\ g[x] = f[x]
      OBVIOUS
    <3>1. CASE m + 1 \in t
      <4>1. Max(t) = m + 1
        <5>1. m + 1 \in Nat /\ t # {}
          BY <3>1
        <5>2. Max(t) \in t /\ \A y \in t : Max(t) >= y
          BY <5>1, MaxOf
        <5>3. Max(t) \in 1 .. m + 1 /\ Max(t) >= m + 1
          BY <3>1, <5>2
        <5> QED BY <5>3
      <4>2. t \ {m + 1} \in SUBSET (1 .. m)
        OBVIOUS
      <4>3. g[t \ {m + 1}] = f[t \ {m + 1}]
        BY <3>0, <4>2
      <4>4. g[t] = RewriteInstruction(f[t \ {m + 1}], s[m + 1])
        BY <3>1
      <4> HIDE DEF g
      <4> QED BY <3>1, <4>1, <4>3, <4>4
    <3>2. CASE m + 1 \notin t
      <4>0. t \in SUBSET (1 .. m)
        BY <3>2
      <4>1. t \in SUBSET (1 .. m) /\ t \ {Max(t)} \in SUBSET (1 .. m)
        BY <4>0
      <4>2. g[t] = f[t] /\ g[t \ {Max(t)}] = f[t \ {Max(t)}]
        BY <3>0, <4>1
      <4>3. f[t] = At(f, t)
        BY <2>1, <4>1
      <4> HIDE DEF g
      <4> QED BY <4>2, <4>3
    <3> QED BY <3>1, <3>2
  <2>3. g = [t \in SUBSET (1 .. m + 1) |-> g[t]]
    OBVIOUS
  <2> HIDE DEF g, At
  <2>4. Is(g, m + 1)
    BY <2>2, <2>3
  <2> QED BY <2>4
<1>3. \E f : Is(f, n)
  <2> HIDE DEF T, Is
  <2>1. n \in T
    BY <1>1, <1>2, NumberInduction
  <2> QED BY <2>1 DEF T
<1> DEFINE g == CHOOSE f : Is(f, n)
<1>4. RewrittenBlock(base, s) = g[1 .. n]
  BY DEF RewrittenBlock, FoldLeft, MapThenFoldSet, Max
<1>5. Is(g, n)
  <2> HIDE DEF Is
  <2> QED BY <1>3
<1> HIDE DEF g
<1>6. \A t \in SUBSET (1 .. n) : g[t] = At(g, t)
  BY <1>5
<1> DEFINE p == [k \in 0 .. n |-> g[1 .. k]]
<1>7. p[0] = base
  <2>1. 1 .. 0 = {} /\ 0 \in 0 .. n
    OBVIOUS
  <2>2. g[{}] = base
    BY <1>6
  <2> QED BY <2>1, <2>2
<1>8. p[n] = g[1 .. n]
  OBVIOUS
<1>9. ASSUME NEW k \in 1 .. n PROVE p[k] = RewriteInstruction(p[k - 1], s[k])
  <2>1. k \in Nat \ {0} /\ 1 .. k \in SUBSET (1 .. n) /\ 1 .. k # {} /\ k \in 0 .. n /\ k - 1 \in 0 .. n
    OBVIOUS
  <2>2. Max(1 .. k) = k /\ (1 .. k) \ {k} = 1 .. (k - 1)
    BY <2>1, MaxOfFirst
  <2>3. g[1 .. k] = RewriteInstruction(g[1 .. (k - 1)], s[k])
    BY <1>6, <2>1, <2>2
  <2> QED BY <2>1, <2>3
<1> HIDE DEF p
<1> QED BY <1>4, <1>7, <1>8, <1>9 DEF RewriteInstructionSteps

RewrittenCode(base, s) == FoldLeft(RewriteBlock, base, s)
RewriteBlockSteps(p, s, n, base) ==
    /\ p[0] = base /\ p[n] = RewrittenCode(base, s)
    /\ \A k \in 1 .. n : p[k] = RewriteBlock(p[k - 1], s[k])

\* A function is rewritten one block after the other.
LEMMA RewriteBlockWalk ==
    ASSUME NEW s, NEW n \in Nat, DOMAIN s = 1 .. n, NEW base
    PROVE  \E p : RewriteBlockSteps(p, s, n, base)
<1> DEFINE At(f, t) == IF t = {} THEN base ELSE RewriteBlock(f[t \ {Max(t)}], s[Max(t)])
           Is(f, m) == f = [t \in SUBSET (1 .. m) |-> At(f, t)]
           T == {m \in Nat : \E f : Is(f, m)}
<1>1. 0 \in T
  <2> DEFINE f == [t \in SUBSET (1 .. 0) |-> base]
  <2>1. \A t \in SUBSET (1 .. 0) : t = {}
    OBVIOUS
  <2>2. Is(f, 0)
    BY <2>1
  <2> QED BY <2>2
<1>2. ASSUME NEW m \in Nat, m \in T PROVE m + 1 \in T
  <2>1. PICK f : Is(f, m)
    BY <1>2
  <2> DEFINE g == [t \in SUBSET (1 .. m + 1) |->
                     IF m + 1 \in t THEN RewriteBlock(f[t \ {m + 1}], s[m + 1]) ELSE f[t]]
  <2>2. ASSUME NEW t \in SUBSET (1 .. m + 1) PROVE g[t] = At(g, t)
    <3>0. \A x \in SUBSET (1 .. m) : x \in SUBSET (1 .. m + 1) /\ m + 1 \notin x /\ g[x] = f[x]
      OBVIOUS
    <3>1. CASE m + 1 \in t
      <4>1. Max(t) = m + 1
        <5>1. m + 1 \in Nat /\ t # {}
          BY <3>1
        <5>2. Max(t) \in t /\ \A y \in t : Max(t) >= y
          BY <5>1, MaxOf
        <5>3. Max(t) \in 1 .. m + 1 /\ Max(t) >= m + 1
          BY <3>1, <5>2
        <5> QED BY <5>3
      <4>2. t \ {m + 1} \in SUBSET (1 .. m)
        OBVIOUS
      <4>3. g[t \ {m + 1}] = f[t \ {m + 1}]
        BY <3>0, <4>2
      <4>4. g[t] = RewriteBlock(f[t \ {m + 1}], s[m + 1])
        BY <3>1
      <4> HIDE DEF g
      <4> QED BY <3>1, <4>1, <4>3, <4>4
    <3>2. CASE m + 1 \notin t
      <4>0. t \in SUBSET (1 .. m)
        BY <3>2
      <4>1. t \in SUBSET (1 .. m) /\ t \ {Max(t)} \in SUBSET (1 .. m)
        BY <4>0
      <4>2. g[t] = f[t] /\ g[t \ {Max(t)}] = f[t \ {Max(t)}]
        BY <3>0, <4>1
      <4>3. f[t] = At(f, t)
        BY <2>1, <4>1
      <4> HIDE DEF g
      <4> QED BY <4>2, <4>3
    <3> QED BY <3>1, <3>2
  <2>3. g = [t \in SUBSET (1 .. m + 1) |-> g[t]]
    OBVIOUS
  <2> HIDE DEF g, At
  <2>4. Is(g, m + 1)
    BY <2>2, <2>3
  <2> QED BY <2>4
<1>3. \E f : Is(f, n)
  <2> HIDE DEF T, Is
  <2>1. n \in T
    BY <1>1, <1>2, NumberInduction
  <2> QED BY <2>1 DEF T
<1> DEFINE g == CHOOSE f : Is(f, n)
<1>4. RewrittenCode(base, s) = g[1 .. n]
  BY DEF RewrittenCode, FoldLeft, MapThenFoldSet, Max
<1>5. Is(g, n)
  <2> HIDE DEF Is
  <2> QED BY <1>3
<1> HIDE DEF g
<1>6. \A t \in SUBSET (1 .. n) : g[t] = At(g, t)
  BY <1>5
<1> DEFINE p == [k \in 0 .. n |-> g[1 .. k]]
<1>7. p[0] = base
  <2>1. 1 .. 0 = {} /\ 0 \in 0 .. n
    OBVIOUS
  <2>2. g[{}] = base
    BY <1>6
  <2> QED BY <2>1, <2>2
<1>8. p[n] = g[1 .. n]
  OBVIOUS
<1>9. ASSUME NEW k \in 1 .. n PROVE p[k] = RewriteBlock(p[k - 1], s[k])
  <2>1. k \in Nat \ {0} /\ 1 .. k \in SUBSET (1 .. n) /\ 1 .. k # {} /\ k \in 0 .. n /\ k - 1 \in 0 .. n
    OBVIOUS
  <2>2. Max(1 .. k) = k /\ (1 .. k) \ {k} = 1 .. (k - 1)
    BY <2>1, MaxOfFirst
  <2>3. g[1 .. k] = RewriteBlock(g[1 .. (k - 1)], s[k])
    BY <1>6, <2>1, <2>2
  <2> QED BY <2>1, <2>3
<1> HIDE DEF p
<1> QED BY <1>4, <1>7, <1>8, <1>9 DEF RewriteBlockSteps

-----------------------------------------------------------------------------
(* Instructions.                                                           *)

\* An operand and an instruction as the allocator can rewrite it.
WellMade(op) ==
    /\ {"kind", "regs", "acc"} \subseteq DOMAIN op
    /\ IsList(op.regs)
    /\ op.acc \in {"R", "W", "RW"}
    /\ op.kind = "reg" => Len(op.regs) = 1
Formed(i) == "ops" \in DOMAIN i /\ IsList(i.ops) /\ \A k \in DOMAIN i.ops : WellMade(i.ops[k])
FormedCode(c) == AreLists(c) /\ \A b \in DOMAIN c : \A k \in DOMAIN c[b] : Formed(c[b][k])

\* The registers an instruction names.
RegsIn(i) == UNION {ToSet(i.ops[k].regs) : k \in DOMAIN i.ops}

\* An instruction defines and uses the registers it names, and no others.
LEMMA RegsAre ==
    ASSUME NEW i, Formed(i)
    PROVE  /\ Defs(i) \cup Uses(i) = RegsIn(i)
           /\ \A k \in DOMAIN i.ops : i.ops[k].kind = "reg" => i.ops[k].regs[1] \in RegsIn(i)
<1>1. Defs(i) = UNION {ToSet(i.ops[k].regs) : k \in {k \in DOMAIN i.ops : i.ops[k].acc \in {"W", "RW"}}}
  BY DEF Defs, Accessed
<1>2. Uses(i) = UNION {ToSet(i.ops[k].regs) : k \in {k \in DOMAIN i.ops : i.ops[k].acc \in {"R", "RW"}}}
  BY DEF Uses, Accessed
<1>3. \A k \in DOMAIN i.ops : i.ops[k].acc \in {"W", "RW"} \/ i.ops[k].acc \in {"R", "RW"}
  BY DEF Formed, WellMade
<1>4. ASSUME NEW k \in DOMAIN i.ops, i.ops[k].kind = "reg" PROVE i.ops[k].regs[1] \in RegsIn(i)
  <2>1. IsList(i.ops[k].regs) /\ Len(i.ops[k].regs) = 1
    BY <1>4 DEF Formed, WellMade
  <2>2. 1 \in 1 .. Len(i.ops[k].regs)
    BY <2>1
  <2>3. i.ops[k].regs[1] \in ToSet(i.ops[k].regs)
    BY <2>1, <2>2, ListIs
  <2> QED BY <2>3 DEF RegsIn
<1> QED BY <1>1, <1>2, <1>3, <1>4 DEF RegsIn

\* The registers of some code are those its instructions name.
LEMMA CodeRegs ==
    ASSUME NEW c, FormedCode(c)
    PROVE  /\ \A r \in RegsOf(c) : \E b \in DOMAIN c : \E k \in DOMAIN c[b] : r \in RegsIn(c[b][k])
           /\ \A b \in DOMAIN c : \A k \in DOMAIN c[b] : RegsIn(c[b][k]) \subseteq RegsOf(c)
<1>1. ASSUME NEW b \in DOMAIN c PROVE ToSet(c[b]) = {c[b][k] : k \in DOMAIN c[b]}
  BY DEF ToSet
<1>2. \A b \in DOMAIN c : \A k \in DOMAIN c[b] : Defs(c[b][k]) \cup Uses(c[b][k]) = RegsIn(c[b][k])
  BY RegsAre DEF FormedCode
<1>3. ASSUME NEW r \in RegsOf(c) PROVE \E b \in DOMAIN c : \E k \in DOMAIN c[b] : r \in RegsIn(c[b][k])
  <2>0. PICK b \in DOMAIN c : \E i \in ToSet(c[b]) : r \in Defs(i) \cup Uses(i)
    BY DEF RegsOf
  <2>1. PICK i \in ToSet(c[b]) : r \in Defs(i) \cup Uses(i)
    BY <2>0
  <2>2. PICK k \in DOMAIN c[b] : i = c[b][k]
    BY <1>1
  <2>3. r \in RegsIn(c[b][k])
    BY <1>2, <2>1, <2>2
  <2> QED BY <2>3
<1>4. ASSUME NEW b \in DOMAIN c, NEW k \in DOMAIN c[b] PROVE RegsIn(c[b][k]) \subseteq RegsOf(c)
  <2>1. c[b][k] \in ToSet(c[b])
    BY <1>1
  <2>2. Defs(c[b][k]) \cup Uses(c[b][k]) \subseteq RegsOf(c)
    BY <2>1 DEF RegsOf
  <2> QED BY <1>2, <2>2
<1> QED BY <1>3, <1>4

\* A union with one more member.
LEMMA UnionAdd == ASSUME NEW B, NEW y PROVE UNION (B \cup {y}) = (UNION B) \cup y
  OBVIOUS

\* The union of a family of finite sets is finite.
LEMMA FamilyFinite ==
    ASSUME NEW n \in Nat, NEW f, \A k \in 1 .. n : IsFiniteSet(f[k])
    PROVE  IsFiniteSet(UNION {f[k] : k \in 1 .. n})
<1> DEFINE U(m) == UNION {f[k] : k \in 1 .. m}
           T == {m \in Nat : m <= n => IsFiniteSet(U(m))}
<1>1. 0 \in T
  <2>1. U(0) = {}
    OBVIOUS
  <2> QED BY <2>1, FS_EmptySet
<1>2. ASSUME NEW m \in Nat PROVE U(m + 1) = U(m) \cup f[m + 1]
  <2>1. \A k : k \in 1 .. m + 1 <=> k \in 1 .. m \/ k = m + 1
    OBVIOUS
  <2>2. PICK A : A = 1 .. m
    OBVIOUS
  <2>3. 1 .. m + 1 = A \cup {m + 1}
    BY <2>1, <2>2
  <2>4. UNION {f[k] : k \in A \cup {m + 1}} = (UNION {f[k] : k \in A}) \cup f[m + 1]
    <3>1. PICK B : B = {f[k] : k \in A}
      OBVIOUS
    <3>2. PICK y : y = f[m + 1]
      OBVIOUS
    <3>3. {f[k] : k \in A \cup {m + 1}} = B \cup {y}
      BY <3>1, <3>2
    <3>4. UNION (B \cup {y}) = (UNION B) \cup y
      BY UnionAdd
    <3> QED BY <3>1, <3>2, <3>3, <3>4
  <2> QED BY <2>2, <2>3, <2>4
<1>3. ASSUME NEW m \in Nat, m \in T PROVE m + 1 \in T
  <2> SUFFICES ASSUME m + 1 <= n PROVE IsFiniteSet(U(m + 1))
    OBVIOUS
  <2>1. IsFiniteSet(U(m)) /\ IsFiniteSet(f[m + 1])
    BY <1>3
  <2> HIDE DEF U, T
  <2>2. IsFiniteSet(U(m) \cup f[m + 1])
    BY <2>1, FS_Union
  <2> QED BY <1>2, <2>2
<1>4. n \in T
  <2> HIDE DEF T
  <2> QED BY <1>1, <1>3, NumberInduction
<1> QED BY <1>4

\* A list holds finitely many elements.
LEMMA ListFinite ==
    ASSUME NEW s, IsList(s)
    PROVE  IsFiniteSet(ToSet(s))
<1>1. PICK n \in Nat : n = Len(s) /\ DOMAIN s = 1 .. n
  BY ListIs
<1> DEFINE f == [k \in 1 .. n |-> {s[k]}]
<1>2. \A k \in 1 .. n : IsFiniteSet(f[k])
  BY FS_Singleton
<1>3. ToSet(s) = UNION {f[k] : k \in 1 .. n}
  <2>1. ToSet(s) = {s[k] : k \in 1 .. n}
    BY <1>1 DEF ToSet
  <2> QED BY <2>1
<1> HIDE DEF f
<1> QED BY <1>2, <1>3, FamilyFinite

\* A function names finitely many registers.
LEMMA RegsFinite ==
    ASSUME NEW c, FormedCode(c)
    PROVE  IsFiniteSet(RegsOf(c))
<1>1. PICK n \in Nat : DOMAIN c = 1 .. n
  BY ListIs DEF FormedCode, AreLists
<1>2. ASSUME NEW i, Formed(i) PROVE IsFiniteSet(RegsIn(i))
  <2>1. PICK m \in Nat : DOMAIN i.ops = 1 .. m
    BY <1>2, ListIs DEF Formed
  <2> DEFINE f == [k \in 1 .. m |-> ToSet(i.ops[k].regs)]
  <2>2. \A k \in 1 .. m : IsFiniteSet(f[k])
    BY <1>2, <2>1, ListFinite DEF Formed, WellMade
  <2>3. RegsIn(i) = UNION {f[k] : k \in 1 .. m}
    BY <2>1 DEF RegsIn
  <2> HIDE DEF f
  <2> QED BY <2>2, <2>3, FamilyFinite
<1> DEFINE ofBlock == [b \in 1 .. n |-> UNION {RegsIn(c[b][k]) : k \in DOMAIN c[b]}]
<1>3. ASSUME NEW b \in 1 .. n PROVE IsFiniteSet(ofBlock[b])
  <2>1. PICK m \in Nat : DOMAIN c[b] = 1 .. m
    BY <1>1, ListIs DEF FormedCode, AreLists
  <2> DEFINE f == [k \in 1 .. m |-> RegsIn(c[b][k])]
  <2>2. \A k \in 1 .. m : IsFiniteSet(f[k])
    BY <1>1, <1>2, <2>1 DEF FormedCode
  <2>3. ofBlock[b] = UNION {f[k] : k \in 1 .. m}
    BY <2>1
  <2> HIDE DEF f
  <2> QED BY <2>2, <2>3, FamilyFinite
<1>4. RegsOf(c) \subseteq UNION {ofBlock[b] : b \in 1 .. n}
  BY <1>1, CodeRegs
<1> HIDE DEF ofBlock
<1>5. IsFiniteSet(UNION {ofBlock[b] : b \in 1 .. n})
  BY <1>3, FamilyFinite
<1> QED BY <1>4, <1>5, FS_Subset

\* Instructions as the functions are given have such operands.
LEMMA MachineFormed ==
    ASSUME NEW i \in MachineInstructions
    PROVE  Formed(i)
<1>1. i.ops \in Seq(MachineOperands) /\ "ops" \in DOMAIN i
  BY DEF MachineInstructions
<1>2. IsList(i.ops)
  BY <1>1 DEF IsList
<1>3. ASSUME NEW k \in DOMAIN i.ops PROVE WellMade(i.ops[k])
  <2>1. PICK op : op = i.ops[k]
    OBVIOUS
  <2>2. op \in MachineOperands
    BY <1>1, <2>1
  <2>3. CASE op \in [kind : {"reg"}, regs : [1 .. 1 -> RegisterRefs], acc : {"R", "W", "RW"}]
    <3>1. op.regs \in [1 .. 1 -> RegisterRefs] /\ op.acc \in {"R", "W", "RW"} /\ {"kind", "regs", "acc"} \subseteq DOMAIN op
      BY <2>3
    <3>2. op.regs = [j \in 1 .. 1 |-> op.regs[j]]
      BY <3>1
    <3>3. IsList(op.regs) /\ Len(op.regs) = 1
      BY <3>2, ListMade
    <3> QED BY <2>1, <3>1, <3>3 DEF WellMade
  <2>4. CASE op \in [kind : {"mem", "imm"}, regs : Seq(RegisterRefs), acc : {"R"}]
    BY <2>1, <2>4 DEF WellMade, IsList
  <2>5. CASE op \in [kind : {"slot"}, regs : {<< >>}, acc : {"R"}, of : RegisterRefs]
    <3>1. op.regs = << >> /\ op.kind = "slot" /\ op.acc = "R" /\ {"kind", "regs", "acc"} \subseteq DOMAIN op
      BY <2>5
    <3>2. IsList(<< >>)
      BY ListOne
    <3> QED BY <2>1, <3>1, <3>2 DEF WellMade
  <2> QED BY <2>2, <2>3, <2>4, <2>5 DEF MachineOperands
<1> QED BY <1>1, <1>2, <1>3 DEF Formed

\* What is made of references: a list of machine instructions names references.
LEMMA MachineRefs ==
    ASSUME NEW i \in MachineInstructions
    PROVE  RegsIn(i) \subseteq RegisterRefs
<1>1. i.ops \in Seq(MachineOperands)
  BY DEF MachineInstructions
<1>2. ASSUME NEW k \in DOMAIN i.ops PROVE ToSet(i.ops[k].regs) \subseteq RegisterRefs
  <2>1. PICK op : op = i.ops[k]
    OBVIOUS
  <2>2. op \in MachineOperands
    BY <1>1, <2>1
  <2>3. op.regs \in [1 .. 1 -> RegisterRefs] \/ op.regs \in Seq(RegisterRefs) \/ op.regs = << >>
    BY <2>2 DEF MachineOperands
  <2>4. \A k1 \in DOMAIN op.regs : op.regs[k1] \in RegisterRefs
    BY <2>3
  <2> QED BY <2>1, <2>4 DEF ToSet
<1> QED BY <1>2 DEF RegsIn

-----------------------------------------------------------------------------
(* The interference graph A it is built.                                  *)

\* Edges are between two registers of the graph.
EdgesOver(es, ns) == \A e \in es : \E a \in ns : \E b \in ns : a # b /\ e = {a, b}

\* A pair is of two different registers, one of either set.
LEMMA PairsAre ==
    ASSUME NEW A, NEW B, NEW e, e \in Pairs(A, B)
    PROVE  \E a \in A : \E b \in B : a # b /\ e = {a, b}
<1>1. e \in {{a, b} : a \in A, b \in B} \ {{a} : a \in A}
  BY DEF Pairs
<1>2. PICK a \in A, b \in B : e = {a, b}
  BY <1>1
<1>3. e # {a}
  BY <1>1
<1>4. a # b
  BY <1>2, <1>3
<1> QED BY <1>2, <1>4

\* What one instruction adds to the graph.
LEMMA VisitAdds ==
    ASSUME NEW g, NEW i, Formed(i), g.live \subseteq g.nodes, EdgesOver(g.edges, g.nodes)
    PROVE  LET h == VisitBackwards(g, i)
           IN  /\ h.live \subseteq h.nodes
               /\ EdgesOver(h.edges, h.nodes)
               /\ g.nodes \cup RegsIn(i) \subseteq h.nodes
               /\ h.nodes \subseteq g.nodes \cup RegsIn(i) \cup CallerSaved
<1> DEFINE calls == IF i.kind = "call" THEN CallerSaved ELSE {}
           ns == ((g.nodes \cup Defs(i)) \cup Uses(i)) \cup calls
           es == ((g.edges \cup DefinitionEdges(i, g.live)) \cup CallEdges(i, g.live)) \cup TwoAddressEdges(i)
<1>1. PICK h : h = VisitBackwards(g, i)
  OBVIOUS
<1>2. h.live = (g.live \ Defs(i)) \cup Uses(i) /\ h.nodes = ns /\ h.edges = es
  BY <1>1 DEF VisitBackwards
<1>3. Defs(i) \cup Uses(i) = RegsIn(i)
  BY RegsAre
<1>4. calls \subseteq CallerSaved
  OBVIOUS
<1>5. ns = g.nodes \cup RegsIn(i) \cup calls
  BY <1>3
<1>6. ASSUME NEW e \in es PROVE \E a \in ns : \E b \in ns : a # b /\ e = {a, b}
  <2> HIDE DEF ns
  <2>0. g.live \subseteq ns /\ g.nodes \subseteq ns /\ Defs(i) \subseteq ns /\ calls \subseteq ns /\ RegsIn(i) \subseteq ns
    BY <1>3, <1>5
  <2> HIDE DEF calls
  <2>1. CASE e \in g.edges
    <3>1. PICK a \in g.nodes : \E b \in g.nodes : a # b /\ e = {a, b}
      BY <2>1 DEF EdgesOver
    <3> QED BY <2>0, <3>1
  <2>2. CASE e \in DefinitionEdges(i, g.live)
    <3>1. \E a \in Defs(i) : \E b \in g.live : a # b /\ e = {a, b}
      BY <2>2, PairsAre DEF DefinitionEdges
    <3> QED BY <2>0, <3>1
  <2>3. CASE e \in CallEdges(i, g.live)
    <3>1. i.kind = "call" /\ e \in Pairs(CallerSaved, g.live)
      BY <2>3 DEF CallEdges
    <3>2. \E a \in CallerSaved : \E b \in g.live : a # b /\ e = {a, b}
      BY <3>1, PairsAre
    <3>3. calls = CallerSaved
      BY <3>1 DEF calls
    <3> QED BY <2>0, <3>2, <3>3
  <2>4. CASE e \in TwoAddressEdges(i)
    <3> DEFINE others == {i.ops[k].regs[1] : k \in {k \in 3 .. Len(i.ops) : i.ops[k].kind = "reg"}}
    <3>1. e \in Pairs(Defs(i), others)
      BY <2>4 DEF TwoAddressEdges
    <3>2. others \subseteq RegsIn(i)
      <4>1. DOMAIN i.ops = 1 .. Len(i.ops) /\ Len(i.ops) \in Nat
        BY ListIs DEF Formed
      <4>2. \A k \in 3 .. Len(i.ops) : k \in DOMAIN i.ops
        BY <4>1
      <4> QED BY <4>2, RegsAre
    <3> HIDE DEF others
    <3>3. \E a \in Defs(i) : \E b \in others : a # b /\ e = {a, b}
      BY <3>1, PairsAre
    <3> QED BY <2>0, <3>2, <3>3
  <2> QED BY <2>1, <2>2, <2>3, <2>4
<1>7. EdgesOver(es, ns)
  BY <1>6 DEF EdgesOver
<1>8. g.nodes \cup RegsIn(i) \subseteq ns /\ ns \subseteq g.nodes \cup RegsIn(i) \cup CallerSaved
  BY <1>4, <1>5
<1>9. (g.live \ Defs(i)) \cup Uses(i) \subseteq ns
  BY <1>3, <1>5
<1> HIDE DEF ns, es, calls
<1>10. h.live \subseteq h.nodes /\ EdgesOver(h.edges, h.nodes) /\ g.nodes \cup RegsIn(i) \subseteq h.nodes
       /\ h.nodes \subseteq g.nodes \cup RegsIn(i) \cup CallerSaved
  BY <1>2, <1>7, <1>8, <1>9
<1> QED BY <1>1, <1>10

\* The graph of a block has the registers of its instructions, those live out
\* of it and those that a call clobbers.
LEMMA BlockGraphIs ==
    ASSUME NEW b \in DOMAIN code, IsList(code[b]), \A k \in DOMAIN code[b] : Formed(code[b][k]), NEW out
    PROVE  LET g == BlockGraph(b, out)
               named == UNION {RegsIn(code[b][k]) : k \in DOMAIN code[b]}
           IN  /\ EdgesOver(g.edges, g.nodes)
               /\ named \subseteq g.nodes
               /\ g.nodes \subseteq out \cup named \cup CallerSaved
<1> DEFINE s == Reverse(code[b])
           base == [live |-> out, nodes |-> out, edges |-> {}]
           named == UNION {RegsIn(code[b][k]) : k \in DOMAIN code[b]}
<1>1. PICK n \in Nat : n = Len(code[b]) /\ DOMAIN code[b] = 1 .. n
  BY ListIs
<1>2. DOMAIN s = 1 .. n /\ \A k \in 1 .. n : s[k] = code[b][(n - k) + 1]
  <2>1. IsList(s) /\ Len(s) = n /\ \A k \in 1 .. n : s[k] = code[b][(n - k) + 1]
    BY <1>1, ReverseMembers
  <2> HIDE DEF s
  <2> QED BY <2>1, ListIs
<1> HIDE DEF s
<1>3. PICK p : VisitBackwardsSteps(p, s, n, base)
  <2> HIDE DEF base
  <2> QED BY <1>2, VisitBackwardsWalk
<1>4. BlockGraph(b, out) = p[n]
  BY <1>3 DEF VisitBackwardsSteps, BlockGraph, Visited, s
<1>5. base.live = out /\ base.nodes = out /\ base.edges = {}
  OBVIOUS
<1> HIDE DEF base
<1>6. ASSUME NEW k \in 1 .. n PROVE Formed(s[k]) /\ RegsIn(s[k]) \subseteq named
  <2>1. (n - k) + 1 \in 1 .. n
    OBVIOUS
  <2> QED BY <1>1, <1>2, <2>1
<1> DEFINE Good(k) == /\ p[k].live \subseteq p[k].nodes
                      /\ EdgesOver(p[k].edges, p[k].nodes)
                      /\ p[k].nodes \subseteq out \cup named \cup CallerSaved
                      /\ \A j \in 1 .. k : RegsIn(s[j]) \subseteq p[k].nodes
           T == {k \in Nat : k <= n => Good(k)}
<1>7. 0 \in T
  BY <1>3, <1>5 DEF EdgesOver, VisitBackwardsSteps
<1>8. ASSUME NEW k \in Nat, k \in T PROVE k + 1 \in T
  <2> SUFFICES ASSUME k + 1 <= n PROVE Good(k + 1)
    <3> HIDE DEF Good
    <3> QED OBVIOUS
  <2>1. Good(k)
    <3> HIDE DEF Good
    <3> QED BY <1>8
  <2>2. k + 1 \in 1 .. n /\ (k + 1) - 1 = k
    OBVIOUS
  <2>3. p[k + 1] = VisitBackwards(p[k], s[k + 1])
    BY <1>3, <2>2 DEF VisitBackwardsSteps
  <2>4. Formed(s[k + 1]) /\ RegsIn(s[k + 1]) \subseteq named
    BY <1>6, <2>2
  <2> HIDE DEF named
  <2>5. /\ p[k + 1].live \subseteq p[k + 1].nodes
        /\ EdgesOver(p[k + 1].edges, p[k + 1].nodes)
        /\ p[k].nodes \cup RegsIn(s[k + 1]) \subseteq p[k + 1].nodes
        /\ p[k + 1].nodes \subseteq p[k].nodes \cup RegsIn(s[k + 1]) \cup CallerSaved
    BY <2>1, <2>3, <2>4, VisitAdds
  <2>6. \A j \in 1 .. k + 1 : j \in 1 .. k \/ j = k + 1
    OBVIOUS
  <2> QED BY <2>1, <2>4, <2>5, <2>6
<1>9. Good(n)
  <2>1. n \in T
    <3> HIDE DEF T
    <3> QED BY <1>7, <1>8, NumberInduction
  <2> HIDE DEF Good
  <2> QED BY <2>1
<1>10. named \subseteq p[n].nodes
  <2>1. ASSUME NEW k \in 1 .. n PROVE RegsIn(code[b][k]) \subseteq p[n].nodes
    <3>1. (n - k) + 1 \in 1 .. n /\ (n - ((n - k) + 1)) + 1 = k
      OBVIOUS
    <3>2. s[(n - k) + 1] = code[b][k]
      BY <1>2, <3>1
    <3>3. RegsIn(s[(n - k) + 1]) \subseteq p[n].nodes
      BY <1>9, <3>1
    <3> QED BY <3>2, <3>3
  <2> QED BY <1>1, <2>1
<1>11. p[n].nodes \subseteq out \cup named \cup CallerSaved /\ EdgesOver(p[n].edges, p[n].nodes)
  BY <1>9
<1> QED BY <1>4, <1>10, <1>11

\* The sweeps of the liveness solution, and what one of them starts from.
ExposedOf(c) ==
    [b \in DOMAIN c |-> {r \in RegsOf(c) : \E k \in DOMAIN c[b] :
                            /\ r \in Uses(c[b][k])
                            /\ \A j \in 1 .. k - 1 : r \notin Defs(c[b][j])}]
ClobberedOf(c) == [b \in DOMAIN c |-> UNION {Defs(c[b][k]) : k \in DOMAIN c[b]}]
BehindOf(c, succs, in) == [b \in DOMAIN c |-> UNION {in[s] : s \in succs[b]}]
SweepOf(c, succs, in) ==
    [b \in DOMAIN c |-> ExposedOf(c)[b] \cup (BehindOf(c, succs, in)[b] \ ClobberedOf(c)[b])]
IsSweeps(f, c, succs, n) ==
    f = [m \in 0 .. n |-> IF m = 0 THEN ExposedOf(c) ELSE SweepOf(c, succs, f[m - 1])]

\* Every number of sweeps can be made.
LEMMA SweepsExist == ASSUME NEW c, NEW succs, NEW n \in Nat PROVE \E f : IsSweeps(f, c, succs, n)
<1> DEFINE T == {k \in Nat : \E f : IsSweeps(f, c, succs, k)}
<1>1. 0 \in T
  <2> DEFINE f == [m \in 0 .. 0 |-> ExposedOf(c)]
  <2>1. f = [m \in 0 .. 0 |-> IF m = 0 THEN ExposedOf(c) ELSE SweepOf(c, succs, f[m - 1])]
    OBVIOUS
  <2>2. IsSweeps(f, c, succs, 0)
    BY <2>1 DEF IsSweeps
  <2> QED BY <2>2
<1>2. ASSUME NEW k \in Nat, k \in T PROVE k + 1 \in T
  <2>1. PICK f : IsSweeps(f, c, succs, k)
    BY <1>2
  <2> DEFINE g == [m \in 0 .. k + 1 |-> IF m <= k THEN f[m] ELSE SweepOf(c, succs, f[m - 1])]
  <2>2. ASSUME NEW m \in 0 .. k + 1 PROVE g[m] = IF m = 0 THEN ExposedOf(c) ELSE SweepOf(c, succs, g[m - 1])
    <3>1. m # 0 => m - 1 \in 0 .. k + 1 /\ m - 1 <= k
      OBVIOUS
    <3>2. m # 0 => g[m - 1] = f[m - 1]
      BY <3>1
    <3>3. CASE m <= k
      <4>1. m \in 0 .. k /\ g[m] = f[m]
        BY <3>3
      <4>2. f[m] = IF m = 0 THEN ExposedOf(c) ELSE SweepOf(c, succs, f[m - 1])
        BY <2>1, <4>1 DEF IsSweeps
      <4> QED BY <3>2, <4>1, <4>2
    <3>4. CASE ~(m <= k)
      BY <3>2, <3>4
    <3> QED BY <3>3, <3>4
  <2>3. g = [m \in 0 .. k + 1 |-> g[m]]
    OBVIOUS
  <2> HIDE DEF g
  <2>4. IsSweeps(g, c, succs, k + 1)
    BY <2>2, <2>3 DEF IsSweeps
  <2> QED BY <2>4
<1>3. n \in T
  <2> HIDE DEF T
  <2> QED BY <1>1, <1>2, NumberInduction
<1> QED BY <1>3

\* Only registers the code names are live anywhere.
LEMMA LiveOutNamed ==
    ASSUME NEW c, NEW succs, Len(c) \in Nat, succs \in [DOMAIN c -> SUBSET DOMAIN c], NEW b \in DOMAIN c
    PROVE  LiveOut(c, succs)[b] \subseteq RegsOf(c)
<1> DEFINE f == CHOOSE f : IsSweeps(f, c, succs, Len(c))
<1>1. LiveOut(c, succs) = BehindOf(c, succs, f[Len(c)])
  BY DEF LiveOut, IsSweeps, BehindOf, SweepOf, ExposedOf, ClobberedOf
<1>2. IsSweeps(f, c, succs, Len(c))
  BY SweepsExist
<1> HIDE DEF f
<1>3. PICK n \in Nat : n = Len(c)
  OBVIOUS
<1>4. \A m \in 0 .. n : f[m] = IF m = 0 THEN ExposedOf(c) ELSE SweepOf(c, succs, f[m - 1])
  BY <1>2, <1>3 DEF IsSweeps
<1> DEFINE T == {m \in Nat : m <= n => \A s \in DOMAIN c : f[m][s] \subseteq RegsOf(c)}
<1>5. \A s \in DOMAIN c : ExposedOf(c)[s] \subseteq RegsOf(c)
  BY DEF ExposedOf
<1>6. 0 \in T
  BY <1>4, <1>5
<1>7. ASSUME NEW m \in Nat, m \in T PROVE m + 1 \in T
  <2> SUFFICES ASSUME m + 1 <= n, NEW s \in DOMAIN c PROVE f[m + 1][s] \subseteq RegsOf(c)
    OBVIOUS
  <2>1. m + 1 \in 0 .. n /\ (m + 1) - 1 = m /\ m + 1 # 0
    OBVIOUS
  <2>2. f[m + 1] = SweepOf(c, succs, f[m])
    BY <1>4, <2>1
  <2>3. f[m + 1][s] = ExposedOf(c)[s] \cup (BehindOf(c, succs, f[m])[s] \ ClobberedOf(c)[s])
    BY <2>2 DEF SweepOf
  <2>4. BehindOf(c, succs, f[m])[s] = UNION {f[m][t] : t \in succs[s]}
    BY DEF BehindOf
  <2>5. \A t \in succs[s] : f[m][t] \subseteq RegsOf(c)
    BY <1>7
  <2>6. UNION {f[m][t] : t \in succs[s]} \subseteq RegsOf(c)
    BY <2>5
  <2> QED BY <1>5, <2>3, <2>4, <2>6
<1>8. n \in T
  <2> HIDE DEF T
  <2> QED BY <1>6, <1>7, NumberInduction
<1>9. \A s \in DOMAIN c : f[n][s] \subseteq RegsOf(c)
  BY <1>8
<1>10. LiveOut(c, succs)[b] = UNION {f[n][s] : s \in succs[b]}
  BY <1>1, <1>3 DEF BehindOf
<1> QED BY <1>9, <1>10

\* The graph an iteration starts from.
StartGraph(b) == BlockGraph(b, LiveOut(code, prog.succ)[b])
StartNodes == UNION {StartGraph(b).nodes : b \in DOMAIN code}
StartEdges == UNION {StartGraph(b).edges : b \in DOMAIN code}

\* It has every register of the code and nothing besides but what calls clobber.
LEMMA StartGraphIs ==
    ASSUME FormedCode(code), prog.succ \in [DOMAIN code -> SUBSET DOMAIN code]
    PROVE  /\ EdgesOver(StartEdges, StartNodes)
           /\ RegsOf(code) \subseteq StartNodes
           /\ StartNodes \subseteq RegsOf(code) \cup CallerSaved
           /\ IsFiniteSet(StartNodes)
<1> DEFINE Named(b) == UNION {RegsIn(code[b][k]) : k \in DOMAIN code[b]}
<1>1. ASSUME NEW b \in DOMAIN code
      PROVE  /\ EdgesOver(StartGraph(b).edges, StartGraph(b).nodes)
             /\ Named(b) \subseteq StartGraph(b).nodes
             /\ StartGraph(b).nodes \subseteq LiveOut(code, prog.succ)[b] \cup Named(b) \cup CallerSaved
  <2>1. IsList(code[b]) /\ \A k \in DOMAIN code[b] : Formed(code[b][k])
    BY DEF FormedCode, AreLists
  <2>2. PICK out : out = LiveOut(code, prog.succ)[b]
    OBVIOUS
  <2> QED BY <2>1, <2>2, BlockGraphIs DEF StartGraph
<1>2. ASSUME NEW b \in DOMAIN code PROVE LiveOut(code, prog.succ)[b] \subseteq RegsOf(code)
  <2>1. Len(code) \in Nat
    BY ListIs DEF FormedCode, AreLists
  <2> QED BY <2>1, LiveOutNamed
<1>3. \A b \in DOMAIN code : Named(b) \subseteq RegsOf(code)
  BY CodeRegs
<1>4. RegsOf(code) \subseteq StartNodes
  <2> SUFFICES ASSUME NEW r \in RegsOf(code) PROVE r \in StartNodes
    OBVIOUS
  <2>1. PICK b \in DOMAIN code : \E k \in DOMAIN code[b] : r \in RegsIn(code[b][k])
    BY CodeRegs
  <2>2. r \in Named(b)
    BY <2>1
  <2>3. r \in StartGraph(b).nodes
    BY <1>1, <2>2
  <2> QED BY <2>3 DEF StartNodes
<1> HIDE DEF Named
<1>5. StartNodes \subseteq RegsOf(code) \cup CallerSaved
  <2>1. \A b \in DOMAIN code : StartGraph(b).nodes \subseteq RegsOf(code) \cup CallerSaved
    BY <1>1, <1>2, <1>3
  <2> QED BY <2>1 DEF StartNodes
<1>6. EdgesOver(StartEdges, StartNodes)
  <2> SUFFICES ASSUME NEW e \in StartEdges
               PROVE  \E x \in StartNodes : \E y \in StartNodes : x # y /\ e = {x, y}
    BY DEF EdgesOver
  <2>1. PICK b \in DOMAIN code : e \in StartGraph(b).edges
    BY DEF StartEdges
  <2>2. \E x \in StartGraph(b).nodes : \E y \in StartGraph(b).nodes : x # y /\ e = {x, y}
    BY <1>1, <2>1 DEF EdgesOver
  <2>3. StartGraph(b).nodes \subseteq StartNodes
    BY DEF StartNodes
  <2> QED BY <2>2, <2>3
<1>7. IsFiniteSet(StartNodes)
  <2>1. IsFiniteSet(RegsOf(code) \cup CallerSaved)
    BY RegsFinite, BankAssumption, FS_Union
  <2> QED BY <1>5, <2>1, FS_Subset
<1> QED BY <1>4, <1>5, <1>6, <1>7

-----------------------------------------------------------------------------
(* The invariant of the allocator, in parts.                               *)

Working == stage \in {"build", "coalesce", "simplify", "select"}
HasGraph == stage \in {"coalesce", "simplify", "select"}

\* The code an iteration works on: virtual registers have a class, and every
\* other register was there before the pass.
CodeInv ==
    /\ prog \in Programs
    /\ FormedCode(code)
    /\ prog.succ \in [DOMAIN code -> SUBSET DOMAIN code]
    /\ class \in Seq(STRING \ {"v"})
    /\ \A r \in RegsOf(code) :
          /\ IsVirtual(r) => r = V(r[2]) /\ r[2] \in 1 .. Len(class)
          /\ ~IsVirtual(r) => r \in RegsOf(prog.code)
    /\ IsList(palette)
    /\ bank \in Banks /\ reserved \subseteq bank.sp \cup bank.fp

\* The graph has lost only merged virtual registers.
GraphInv ==
    /\ StartNodes = nodes \cup DOMAIN coalesced
    /\ nodes \cap DOMAIN coalesced = {}
    /\ \A x \in DOMAIN coalesced : IsVirtual(x)
    /\ EdgesOver(edges, nodes)

\* Following coalesced from any register ends, in the graph.
Leads(lead, rank) ==
    /\ lead \in [StartNodes -> nodes] /\ rank \in [StartNodes -> Nat]
    /\ \A x \in StartNodes :
          IF x \in DOMAIN coalesced
          THEN coalesced[x] \in StartNodes /\ lead[x] = lead[coalesced[x]] /\ rank[coalesced[x]] < rank[x]
          ELSE lead[x] = x
LeaderInv == \E lead, rank : Leads(lead, rank)

\* Registers that interfered still do, in the name of their leaders, and a
\* callee saved register that took others in is recorded.
MergedInv ==
    /\ \A e \in StartEdges : \A x, y \in e : x # y => {Leader(x), Leader(y)} \in edges
    /\ \A x \in DOMAIN coalesced : SameNumber(Leader(x)) \subseteq physUses
    /\ \A x \in DOMAIN affinity : IsList(affinity[x])

Distinct(s) == \A j, k \in DOMAIN s : s[j] = s[k] => j = k

\* The queue holds low degree nodes of the graph, the stack what has left it.
SimplifyInv ==
    /\ degree \in [VirtualNodes -> Int]
    /\ IsList(queue) /\ Distinct(queue)
    /\ \A n \in ToSet(queue) : n \in VirtualNodes \ removed /\ degree[n] < K
    /\ IsList(stack) /\ Distinct(stack)
    /\ removed = ToSet(stack) /\ removed \subseteq VirtualNodes
    /\ allocated = << >> /\ spilled = {}

\* The hardware register number of what is back in the graph.
NumberOf(n) == (IF IsVirtual(n) THEN allocated[n] ELSE n)[2]

\* What is back in the graph has a register none of its neighbors has.
SelectInv ==
    /\ IsList(stack) /\ Distinct(stack)
    /\ removed = ToSet(stack) \cup spilled /\ ToSet(stack) \cap spilled = {}
    /\ VirtualNodes = removed \cup DOMAIN allocated /\ removed \cap DOMAIN allocated = {}
    /\ \A n \in DOMAIN allocated : ~IsVirtual(allocated[n]) /\ SameNumber(allocated[n]) \subseteq physUses
    /\ \A e \in edges : \A x, y \in e :
          x # y /\ x \in DOMAIN allocated /\ (IsVirtual(y) => y \in DOMAIN allocated)
             => NumberOf(x) # NumberOf(y)

AllocatorInv ==
    /\ stage \in {"build", "coalesce", "simplify", "select", "done", "failed"}
    /\ Working => CodeInv
    /\ HasGraph => GraphInv /\ LeaderInv /\ MergedInv
    /\ stage = "coalesce" => removed = {} /\ stack = << >> /\ allocated = << >> /\ spilled = {}
    /\ stage = "simplify" => SimplifyInv
    /\ stage = "select" => SelectInv
    /\ NoVirtualRegisterLeft /\ CalleeSavedRecorded

\* The registers the graph starts with are those of the code and its nodes.
LEMMA KnownIs ==
    ASSUME CodeInv, GraphInv
    PROVE  /\ nodes \cup RegsOf(code) = StartNodes
           /\ IsFiniteSet(nodes) /\ IsFiniteSet(VirtualNodes)
           /\ \A n \in StartNodes : IsVirtual(n) => /\ n \in RegsOf(code) /\ n = V(n[2])
                                                   /\ n[2] \in 1 .. Len(class)
<1>1. /\ RegsOf(code) \subseteq StartNodes /\ StartNodes \subseteq RegsOf(code) \cup CallerSaved
      /\ IsFiniteSet(StartNodes)
  BY StartGraphIs DEF CodeInv
<1>2. \A n \in StartNodes : IsVirtual(n) => n \in RegsOf(code)
  BY <1>1, BankAssumption
<1>3. \A n \in StartNodes : IsVirtual(n) => n = V(n[2]) /\ n[2] \in 1 .. Len(class)
  BY <1>2 DEF CodeInv
<1>4. nodes \cup RegsOf(code) = StartNodes
  <2>1. \A n \in StartNodes : n \in nodes \/ n \in DOMAIN coalesced
    BY DEF GraphInv
  <2>2. \A n \in DOMAIN coalesced : n \in StartNodes /\ IsVirtual(n)
    BY DEF GraphInv
  <2>3. nodes \subseteq StartNodes
    BY DEF GraphInv
  <2> QED BY <1>1, <1>2, <2>1, <2>2, <2>3
<1>5. IsFiniteSet(nodes) /\ IsFiniteSet(VirtualNodes)
  <2>1. nodes \subseteq StartNodes /\ VirtualNodes \subseteq StartNodes
    BY DEF GraphInv, VirtualNodes
  <2> QED BY <1>1, <2>1, FS_Subset
<1> QED BY <1>2, <1>3, <1>4, <1>5

\* getCoalescedLeader returns what the merges lead to.
FollowsMerges == \A lead, rank : Leads(lead, rank) => \A x \in StartNodes : Leader(x) = lead[x]

\* Wherever the merges of an iteration lead, the leader found by following them
\* is what they lead to.
LEMMA LeaderIs == CodeInv /\ GraphInv => FollowsMerges
<1> SUFFICES ASSUME CodeInv, GraphInv, NEW lead, NEW rank, Leads(lead, rank)
             PROVE  \A x \in StartNodes : Leader(x) = lead[x]
  BY DEF FollowsMerges
<1> DEFINE Is(f) == f = [x \in StartNodes |-> IF x \in DOMAIN coalesced THEN f[coalesced[x]] ELSE x]
           up == CHOOSE f : Is(f)
<1>1. \A x : Leader(x) = up[x]
  <2>1. nodes \cup RegsOf(code) = StartNodes
    BY KnownIs
  <2> QED BY <2>1 DEF Leader
<1>2. Is(lead)
  <2>1. lead = [x \in StartNodes |-> lead[x]]
    BY DEF Leads
  <2>2. \A x \in StartNodes : lead[x] = IF x \in DOMAIN coalesced THEN lead[coalesced[x]] ELSE x
    BY DEF Leads
  <2> QED BY <2>1, <2>2
<1>3. Is(up)
  <2> HIDE DEF Is
  <2> QED BY <1>2
<1> HIDE DEF up
<1>4. \A x \in StartNodes : up[x] = IF x \in DOMAIN coalesced THEN up[coalesced[x]] ELSE x
  BY <1>3
<1> DEFINE T == {n \in Nat : \A x \in StartNodes : rank[x] <= n => up[x] = lead[x]}
<1>5. ASSUME NEW n \in Nat, NEW x \in StartNodes, rank[x] <= n,
             \A y \in StartNodes : rank[y] < rank[x] => up[y] = lead[y]
      PROVE  up[x] = lead[x]
  <2>1. CASE x \in DOMAIN coalesced
    <3>1. coalesced[x] \in StartNodes /\ lead[x] = lead[coalesced[x]] /\ rank[coalesced[x]] < rank[x]
      BY <2>1 DEF Leads
    <3>2. up[coalesced[x]] = lead[coalesced[x]]
      BY <1>5, <3>1
    <3> QED BY <1>4, <2>1, <3>1, <3>2
  <2>2. CASE x \notin DOMAIN coalesced
    BY <1>4, <2>2 DEF Leads
  <2> QED BY <2>1, <2>2
<1>6. \A x \in StartNodes : rank[x] \in Nat
  BY DEF Leads
<1>7. 0 \in T
  <2> SUFFICES ASSUME NEW x \in StartNodes, rank[x] <= 0 PROVE up[x] = lead[x]
    OBVIOUS
  <2>1. \A y \in StartNodes : ~(rank[y] < rank[x])
    BY <1>6
  <2> QED BY <1>5, <2>1
<1>8. ASSUME NEW n \in Nat, n \in T PROVE n + 1 \in T
  <2> SUFFICES ASSUME NEW x \in StartNodes, rank[x] <= n + 1 PROVE up[x] = lead[x]
    OBVIOUS
  <2>1. \A y \in StartNodes : rank[y] < rank[x] => rank[y] <= n
    BY <1>6
  <2>2. \A y \in StartNodes : rank[y] < rank[x] => up[y] = lead[y]
    BY <1>8, <2>1
  <2> QED BY <1>5, <2>2
<1>9. ASSUME NEW x \in StartNodes PROVE up[x] = lead[x]
  <2>1. rank[x] \in T
    <3> HIDE DEF T
    <3> QED BY <1>6, <1>7, <1>8, NumberInduction
  <2> QED BY <1>6, <2>1
<1> QED BY <1>1, <1>9

\* A leader is in the graph, and what is in the graph leads itself.
LEMMA LeaderInGraph ==
    CodeInv /\ GraphInv /\ LeaderInv =>
        \A x \in StartNodes : Leader(x) \in nodes /\ (x \in nodes => Leader(x) = x)
<1> SUFFICES ASSUME CodeInv, GraphInv, LeaderInv
             PROVE  \A x \in StartNodes : Leader(x) \in nodes /\ (x \in nodes => Leader(x) = x)
  OBVIOUS
<1>1. PICK lead, rank : Leads(lead, rank)
  BY DEF LeaderInv
<1>2. \A x \in StartNodes : Leader(x) = lead[x]
  BY <1>1, LeaderIs DEF FollowsMerges
<1>3. \A x \in StartNodes : lead[x] \in nodes /\ (x \in nodes => lead[x] = x)
  BY <1>1 DEF Leads, GraphInv
<1> QED BY <1>2, <1>3

-----------------------------------------------------------------------------
(* The start.                                                              *)

\* A function as it is given is one the allocator can work on.
LEMMA GivenCode ==
    ASSUME NEW p \in Programs
    PROVE  /\ FormedCode(p.code)
           /\ \A r \in RegsOf(p.code) : IsVirtual(r) => r = V(r[2]) /\ r[2] \in 1 .. Len(p.class)
<1>1. /\ p.code \in Seq(Seq(MachineInstructions)) /\ p.class \in Seq(STRING \ {"v"})
      /\ \A r \in RegsOf(p.code) : IsVirtual(r) => r[2] \in DOMAIN p.class
  BY ProgramsAssumption
<1>2. \A b \in DOMAIN p.code : p.code[b] \in Seq(MachineInstructions)
  BY <1>1
<1>3. \A b \in DOMAIN p.code : \A k \in DOMAIN p.code[b] : p.code[b][k] \in MachineInstructions
  BY <1>2
<1>4. IsList(p.code)
  BY <1>1 DEF IsList
<1>5. \A b \in DOMAIN p.code : IsList(p.code[b])
  BY <1>2 DEF IsList
<1>6. FormedCode(p.code)
  BY <1>3, <1>4, <1>5, MachineFormed DEF FormedCode, AreLists
<1>7. ASSUME NEW r \in RegsOf(p.code), IsVirtual(r) PROVE r = V(r[2]) /\ r[2] \in 1 .. Len(p.class)
  <2>1. PICK b \in DOMAIN p.code : \E k \in DOMAIN p.code[b] : r \in RegsIn(p.code[b][k])
    BY <1>6, CodeRegs
  <2>2. PICK k \in DOMAIN p.code[b] : r \in RegsIn(p.code[b][k])
    BY <2>1
  <2>3. r \in RegisterRefs
    BY <1>3, <2>2, MachineRefs
  <2>4. r = <<r[1], r[2]>> /\ r[1] = "v"
    BY <1>7, <2>3 DEF RegisterRefs, IsVirtual
  <2>5. DOMAIN p.class = 1 .. Len(p.class)
    BY <1>1
  <2> QED BY <1>1, <1>7, <2>4, <2>5 DEF V
<1> QED BY <1>6, <1>7

\* The pass starts on a function as it is given.
LEMMA AllocatorInitInv == AllocatorInit => AllocatorInv
<1> SUFFICES ASSUME AllocatorInit PROVE AllocatorInv
  OBVIOUS
<1>1. /\ prog \in Programs /\ code = prog.code /\ class = prog.class /\ stage = "build"
      /\ bank \in Banks /\ palette \in SetToSeqs(Colors \ bank.sp) /\ reserved = {}
  BY DEF AllocatorInit
<1>2. prog.class \in Seq(STRING \ {"v"}) /\ prog.succ \in [DOMAIN prog.code -> SUBSET DOMAIN prog.code]
  BY <1>1, ProgramsAssumption
<1>3. IsList(palette)
  <2>1. PICK usable : usable = Colors \ bank.sp
    OBVIOUS
  <2>2. usable \subseteq Colors /\ IsFiniteSet(Colors)
    BY <2>1, BankAssumption
  <2>3. Cardinality(usable) \in Nat
    BY <2>2, FS_Subset, FS_CardinalityType
  <2>4. palette \in [1 .. Cardinality(usable) -> usable]
    BY <1>1, <2>1 DEF SetToSeqs
  <2>5. palette = [k \in 1 .. Cardinality(usable) |-> palette[k]]
    BY <2>4
  <2> QED BY <2>3, <2>5, ListMade
<1>4. CodeInv
  BY <1>1, <1>2, <1>3, GivenCode DEF CodeInv
<1>5. NoVirtualRegisterLeft /\ CalleeSavedRecorded
  BY <1>1 DEF NoVirtualRegisterLeft, CalleeSavedRecorded
<1> QED BY <1>1, <1>4, <1>5 DEF AllocatorInv, Working, HasGraph

-----------------------------------------------------------------------------
(* The steps.                                                              *)

\* What only reads the function keeps it as it is.
LEMMA CodeKept ==
    ASSUME CodeInv, UNCHANGED function, UNCHANGED frame \/ reserved' = reserved \cup Pointers
    PROVE  /\ CodeInv' /\ StartNodes' = StartNodes /\ StartEdges' = StartEdges
           /\ UNCHANGED frame => K' = K
<1>1. prog' = prog /\ code' = code /\ class' = class /\ bank' = bank /\ palette' = palette
  BY DEF function
<1>2. reserved' \subseteq bank.sp \cup bank.fp
  <2>1. reserved' = reserved \/ reserved' = reserved \cup Pointers
    BY DEF frame
  <2>2. Pointers \subseteq bank.sp \cup bank.fp /\ reserved \subseteq bank.sp \cup bank.fp
    BY DEF Pointers, CodeInv
  <2> QED BY <2>1, <2>2
<1>3. CodeInv'
  BY <1>1, <1>2 DEF CodeInv
<1>4. StartNodes' = StartNodes /\ StartEdges' = StartEdges
  BY <1>1 DEF StartNodes, StartEdges, StartGraph, BlockGraph
<1>5. ASSUME UNCHANGED frame PROVE K' = K
  BY <1>5 DEF K, frame
<1> QED BY <1>3, <1>4, <1>5

\* A bank never runs out of usable colors.
LEMMA SomeColor == CodeInv => K \in Nat /\ K > 0
<1> SUFFICES ASSUME CodeInv PROVE K \in Nat /\ K > 0
  OBVIOUS
<1>1. PICK usable : usable = Colors \ reserved
  OBVIOUS
<1>2. usable \subseteq Colors /\ IsFiniteSet(Colors) /\ usable # {}
  <2>1. Colors \ (bank.sp \cup bank.fp) # {} /\ reserved \subseteq bank.sp \cup bank.fp
    BY BankAssumption DEF CodeInv
  <2> QED BY <1>1, <2>1, BankAssumption
<1>3. IsFiniteSet(usable)
  BY <1>2, FS_Subset
<1>4. Cardinality(usable) \in Nat /\ Cardinality(usable) # 0
  BY <1>2, <1>3, FS_CardinalityType, FS_EmptySet
<1> QED BY <1>1, <1>4 DEF K

\* And the merges, when nothing is merged.
LEMMA GraphKept ==
    ASSUME CodeInv, GraphInv, LeaderInv, MergedInv, UNCHANGED <<function, frame, graph, coalesced>>,
           physUses \subseteq physUses', \A x \in DOMAIN affinity' : IsList(affinity'[x])
    PROVE  /\ GraphInv' /\ LeaderInv' /\ MergedInv' /\ VirtualNodes' = VirtualNodes
           /\ \A n : Neighbors(n)' = Neighbors(n) /\ \A x : Leader(x)' = Leader(x)
<1>1. code' = code /\ nodes' = nodes /\ edges' = edges /\ coalesced' = coalesced
  BY DEF function, graph
<1>2. StartNodes' = StartNodes /\ StartEdges' = StartEdges
  BY CodeKept
<1>3. GraphInv'
  BY <1>1, <1>2 DEF GraphInv
<1>4. LeaderInv'
  BY <1>1, <1>2 DEF LeaderInv, Leads
<1>5. \A x : Leader(x)' = Leader(x)
  BY <1>1 DEF Leader
<1>6. MergedInv'
  <2>1. \A e \in StartEdges : \A x, y \in e : x # y => {Leader(x), Leader(y)} \in edges
    BY DEF MergedInv
  <2>2. \A x \in DOMAIN coalesced : SameNumber(Leader(x)) \subseteq physUses
    BY DEF MergedInv
  <2> QED BY <1>1, <1>2, <1>5, <2>1, <2>2 DEF MergedInv
<1>7. VirtualNodes' = VirtualNodes /\ \A n : Neighbors(n)' = Neighbors(n)
  BY <1>1 DEF VirtualNodes, Neighbors
<1> QED BY <1>3, <1>4, <1>5, <1>6, <1>7

\* While the function is not done, nothing is asked of it.
LEMMA NotDone ==
    ASSUME stage' # "done"
    PROVE  NoVirtualRegisterLeft' /\ CalleeSavedRecorded'
BY DEF NoVirtualRegisterLeft, CalleeSavedRecorded

\* An iteration starts from the graph of the code, with nothing merged.
LEMMA BuildInv == AllocatorInv /\ Build => AllocatorInv'
<1> SUFFICES ASSUME AllocatorInv, Build PROVE AllocatorInv'
  OBVIOUS
<1>1. /\ stage = "build" /\ stage' = "coalesce"
      /\ coalesced' = << >> /\ affinity' = << >> /\ removed' = {} /\ stack' = << >>
      /\ allocated' = << >> /\ spilled' = {}
      /\ UNCHANGED function /\ physUses' = physUses /\ reserved' = reserved \cup Pointers
  BY DEF Build
<1>2. nodes' = StartNodes /\ edges' = StartEdges
  <2> DEFINE out == LiveOut(code, prog.succ)
             g == [b \in DOMAIN code |-> BlockGraph(b, out[b])]
  <2>1. nodes' = UNION {g[b].nodes : b \in DOMAIN code} /\ edges' = UNION {g[b].edges : b \in DOMAIN code}
    BY DEF Build
  <2>2. \A b \in DOMAIN code : g[b] = StartGraph(b)
    BY DEF StartGraph
  <2> HIDE DEF g
  <2> QED BY <2>1, <2>2 DEF StartNodes, StartEdges
<1>3. CodeInv /\ CodeInv' /\ StartNodes' = StartNodes /\ StartEdges' = StartEdges
  BY <1>1, CodeKept DEF AllocatorInv, Working
<1>4. EdgesOver(StartEdges, StartNodes)
  BY <1>3, StartGraphIs DEF CodeInv
<1>5. DOMAIN coalesced' = {} /\ DOMAIN affinity' = {}
  BY <1>1
<1>6. GraphInv'
  BY <1>2, <1>3, <1>4, <1>5 DEF GraphInv
<1> DEFINE lead == [x \in StartNodes |-> x]
           rank == [x \in StartNodes |-> 0]
<1>7. Leads(lead, rank)'
  BY <1>2, <1>3, <1>5 DEF Leads
<1>8. LeaderInv'
  <2> HIDE DEF lead, rank
  <2> QED BY <1>7 DEF LeaderInv
<1>9. \A x \in StartNodes : Leader(x)' = x
  <2>1. (\A x \in StartNodes : Leader(x) \in nodes /\ (x \in nodes => Leader(x) = x))'
    BY <1>3, <1>6, <1>8, LeaderInGraph, PTL
  <2> QED BY <1>2, <1>3, <2>1
<1>10. MergedInv'
  <2>1. \A e \in StartEdges : \A x, y \in e : x # y => {x, y} \in StartEdges
    <3> SUFFICES ASSUME NEW e \in StartEdges, NEW x \in e, NEW y \in e, x # y PROVE {x, y} \in StartEdges
      OBVIOUS
    <3>1. \E a \in StartNodes : \E b \in StartNodes : a # b /\ e = {a, b}
      BY <1>4 DEF EdgesOver
    <3>2. e = {x, y}
      BY <3>1
    <3> QED BY <3>2
  <2>2. \A e \in StartEdges : \A x \in e : x \in StartNodes
    BY <1>4 DEF EdgesOver
  <2>3. \A e \in StartEdges : \A x, y \in e : x # y => {Leader(x)', Leader(y)'} \in edges'
    BY <1>2, <1>9, <2>1, <2>2
  <2> QED BY <1>3, <1>5, <2>3 DEF MergedInv
<1> QED BY <1>1, <1>3, <1>6, <1>8, <1>10, NotDone DEF AllocatorInv, Working, HasGraph

\* The neighbors of a node share an edge with it.
LEMMA NeighborsAre ==
    ASSUME EdgesOver(edges, nodes), NEW n
    PROVE  /\ \A w : w \in Neighbors(n) <=> w # n /\ {n, w} \in edges
           /\ Neighbors(n) \subseteq nodes
<1>1. ASSUME NEW w \in Neighbors(n) PROVE w # n /\ {n, w} \in edges /\ w \in nodes
  <2>1. PICK e \in edges : n \in e /\ w \in e /\ w # n
    BY DEF Neighbors
  <2>2. PICK a \in nodes : \E b \in nodes : a # b /\ e = {a, b}
    BY <2>1 DEF EdgesOver
  <2>3. PICK b \in nodes : a # b /\ e = {a, b}
    BY <2>2
  <2>4. e = {n, w} /\ w \in nodes
    BY <2>1, <2>3
  <2> QED BY <2>1, <2>4
<1>2. ASSUME NEW w, w # n, {n, w} \in edges PROVE w \in Neighbors(n)
  <2>1. n \in {n, w} /\ w \in {n, w}
    OBVIOUS
  <2>2. {n, w} \in {e \in edges : n \in e}
    BY <1>2, <2>1
  <2>3. w \in UNION {e \in edges : n \in e}
    BY <2>1, <2>2
  <2> QED BY <1>2, <2>3 DEF Neighbors
<1> QED BY <1>1, <1>2

\* One register absorbs another that does not interfere with it.
LEMMA MergeInv ==
    ASSUME AllocatorInv, stage = "coalesce", NEW u, NEW v, MayMerge(u, v), Merge(u, v),
           UNCHANGED <<function, frame, stage, iteration, candidates, coloring>>
    PROVE  AllocatorInv'
<1>1. /\ u # v /\ IsVirtual(v) /\ u \in nodes /\ v \in nodes /\ {u, v} \notin edges
  BY DEF MayMerge
<1>2. /\ coalesced' = WithEntry(coalesced, v, u)
      /\ physUses' = physUses \cup SameNumber(u)
      /\ nodes' = nodes \ {v}
      /\ edges' = {e \in edges : v \notin e} \cup {{u, w} : w \in Neighbors(v)}
      /\ affinity' = affinity
  BY DEF Merge, EdgesOfMerge
<1>3. /\ stage' = "coalesce" /\ UNCHANGED <<function, frame>> /\ removed' = removed /\ stack' = stack
      /\ allocated' = allocated /\ spilled' = spilled
  BY DEF coloring
<1>4. CodeInv /\ GraphInv /\ LeaderInv /\ MergedInv
  BY DEF AllocatorInv, Working, HasGraph
<1>5. CodeInv' /\ StartNodes' = StartNodes /\ StartEdges' = StartEdges
  BY <1>3, <1>4, CodeKept
<1>6. v \notin DOMAIN coalesced
  BY <1>1, <1>4 DEF GraphInv
<1>7. /\ DOMAIN coalesced' = DOMAIN coalesced \cup {v} /\ coalesced'[v] = u
      /\ \A z \in DOMAIN coalesced : coalesced'[z] = coalesced[z]
  <2>1. PICK g : g = WithEntry(coalesced, v, u)
    OBVIOUS
  <2>2. DOMAIN g = DOMAIN coalesced \cup {v} /\ g[v] = u /\ \A z \in DOMAIN coalesced : z # v => g[z] = coalesced[z]
    BY <2>1 DEF WithEntry
  <2> QED BY <1>2, <1>6, <2>1, <2>2
<1>8. EdgesOver(edges, nodes)
  BY <1>4 DEF GraphInv
<1>9. \A w : w \in Neighbors(v) <=> w # v /\ {v, w} \in edges
  BY <1>8, NeighborsAre
<1>10. \A w \in Neighbors(v) : w \in nodes' /\ w # u
  <2>1. Neighbors(v) \subseteq nodes
    BY <1>8, NeighborsAre
  <2>2. {v, u} = {u, v}
    OBVIOUS
  <2> QED BY <1>1, <1>2, <1>9, <2>1, <2>2
<1>11. GraphInv'
  <2>1. EdgesOver(edges', nodes')
    <3> SUFFICES ASSUME NEW e \in edges' PROVE \E a \in nodes' : \E b \in nodes' : a # b /\ e = {a, b}
      BY DEF EdgesOver
    <3>1. CASE e \in edges /\ v \notin e
      <4>1. PICK a \in nodes : \E b \in nodes : a # b /\ e = {a, b}
        BY <1>8, <3>1 DEF EdgesOver
      <4>2. PICK b \in nodes : a # b /\ e = {a, b}
        BY <4>1
      <4>3. a \in nodes' /\ b \in nodes'
        BY <1>2, <3>1, <4>2
      <4> QED BY <4>2, <4>3
    <3>2. CASE e \in {{u, w} : w \in Neighbors(v)}
      <4>1. PICK w \in Neighbors(v) : e = {u, w}
        BY <3>2
      <4>2. u \in nodes' /\ w \in nodes' /\ u # w
        BY <1>1, <1>2, <1>10
      <4> QED BY <4>1, <4>2
    <3> QED BY <1>2, <3>1, <3>2
  <2>2. StartNodes = nodes \cup DOMAIN coalesced /\ nodes \cap DOMAIN coalesced = {}
        /\ \A x \in DOMAIN coalesced : IsVirtual(x)
    BY <1>4 DEF GraphInv
  <2> QED BY <1>1, <1>2, <1>5, <1>7, <2>1, <2>2 DEF GraphInv
<1>12. PICK lead, rank : Leads(lead, rank)
  BY <1>4 DEF LeaderInv
<1>13. \A x \in StartNodes : Leader(x) = lead[x]
  BY <1>4, <1>12, LeaderIs DEF FollowsMerges
<1>14. /\ lead \in [StartNodes -> nodes] /\ rank \in [StartNodes -> Nat]
       /\ \A x \in StartNodes :
             IF x \in DOMAIN coalesced
             THEN coalesced[x] \in StartNodes /\ lead[x] = lead[coalesced[x]] /\ rank[coalesced[x]] < rank[x]
             ELSE lead[x] = x
  BY <1>12 DEF Leads
<1>15. u \in StartNodes /\ v \in StartNodes /\ lead[v] = v /\ lead[u] = u
  <2>1. u \in StartNodes /\ v \in StartNodes /\ u \notin DOMAIN coalesced
    BY <1>1, <1>4 DEF GraphInv
  <2> QED BY <1>6, <1>14, <2>1
<1>x. PICK lead2, rank2 :
          /\ lead2 = [x \in StartNodes |-> IF lead[x] = v THEN u ELSE lead[x]]
          /\ rank2 = [x \in StartNodes |-> IF lead[x] = v THEN rank[x] + rank[u] + 1 ELSE rank[x]]
  OBVIOUS
<1>y. \A x \in StartNodes :
          /\ lead2[x] = IF lead[x] = v THEN u ELSE lead[x]
          /\ rank2[x] = IF lead[x] = v THEN rank[x] + rank[u] + 1 ELSE rank[x]
  BY <1>x
<1>16. Leads(lead2, rank2)'
  <2>1. lead2 \in [StartNodes -> nodes']
    BY <1>1, <1>2, <1>14, <1>x
  <2>2. rank2 \in [StartNodes -> Nat]
    BY <1>14, <1>15, <1>x
  <2>3. ASSUME NEW x \in StartNodes
        PROVE  IF x \in DOMAIN coalesced'
               THEN coalesced'[x] \in StartNodes /\ lead2[x] = lead2[coalesced'[x]] /\ rank2[coalesced'[x]] < rank2[x]
               ELSE lead2[x] = x
    <3>1. CASE x = v
      <4>1. lead2[x] = u /\ lead2[u] = u /\ coalesced'[x] = u
        BY <1>1, <1>7, <1>15, <1>y, <3>1
      <4>2. rank2[u] = rank[u] /\ rank2[x] = rank[x] + rank[u] + 1
        BY <1>1, <1>15, <1>y, <3>1
      <4>3. rank[u] \in Nat /\ rank[x] \in Nat
        BY <1>14, <1>15
      <4>4. rank[u] < rank[x] + rank[u] + 1
        BY <4>3
      <4> QED BY <1>7, <1>15, <3>1, <4>1, <4>2, <4>4
    <3>2. CASE x # v /\ x \in DOMAIN coalesced
      <4>1. PICK y : y = coalesced[x]
        OBVIOUS
      <4>2. y \in StartNodes /\ lead[x] = lead[y] /\ rank[y] < rank[x]
        BY <1>14, <3>2, <4>1
      <4>3. coalesced'[x] = y /\ x \in DOMAIN coalesced'
        BY <1>7, <3>2, <4>1
      <4>4. lead2[x] = lead2[y]
        BY <1>y, <4>2
      <4>5. rank[u] \in Nat /\ rank[x] \in Nat /\ rank[y] \in Nat
        BY <1>14, <1>15, <4>2
      <4>6. rank2[y] < rank2[x]
        BY <1>y, <4>2, <4>5
      <4> QED BY <4>2, <4>3, <4>4, <4>6
    <3>3. CASE x # v /\ x \notin DOMAIN coalesced
      <4>1. lead[x] = x
        BY <1>14, <3>3
      <4> QED BY <1>7, <1>y, <3>3, <4>1
    <3> QED BY <3>1, <3>2, <3>3
  <2> QED BY <1>5, <2>1, <2>2, <2>3 DEF Leads
<1>17. \A x \in StartNodes : lead2[x] = IF Leader(x) = v THEN u ELSE Leader(x)
  BY <1>13, <1>y
<1>18. LeaderInv'
  BY <1>16 DEF LeaderInv
<1>19. \A x \in StartNodes : Leader(x)' = IF Leader(x) = v THEN u ELSE Leader(x)
  <2>1. FollowsMerges'
    BY <1>5, <1>11, LeaderIs, PTL
  <2>2. \A x \in StartNodes' : Leader(x)' = lead2[x]
    BY <1>16, <2>1 DEF FollowsMerges
  <2> QED BY <1>5, <1>17, <2>2
<1>20. MergedInv'
  <2>1. ASSUME NEW e \in StartEdges, NEW x \in e, NEW y \in e, x # y
        PROVE  {Leader(x)', Leader(y)'} \in edges'
    <3>1. PICK a, b : a = Leader(x) /\ b = Leader(y)
      OBVIOUS
    <3>2. {a, b} \in edges
      BY <1>4, <2>1, <3>1 DEF MergedInv
    <3>3. a # b
      BY <1>8, <3>2 DEF EdgesOver
    <3>4. x \in StartNodes /\ y \in StartNodes
      BY <1>4, StartGraphIs DEF CodeInv, EdgesOver
    <3>5. Leader(x)' = (IF a = v THEN u ELSE a) /\ Leader(y)' = (IF b = v THEN u ELSE b)
      BY <1>19, <3>1, <3>4
    <3>6. CASE a # v /\ b # v
      BY <1>2, <3>2, <3>5, <3>6
    <3>7. CASE a = v
      <4>1. b \in Neighbors(v)
        BY <1>9, <3>2, <3>3, <3>7
      <4>2. {u, b} \in edges'
        BY <1>2, <4>1
      <4> QED BY <3>3, <3>5, <3>7, <4>2
    <3>8. CASE b = v
      <4>1. {b, a} = {a, b} /\ {a, u} = {u, a}
        OBVIOUS
      <4>2. a \in Neighbors(v)
        BY <1>9, <3>2, <3>3, <3>8, <4>1
      <4>3. {u, a} \in edges'
        BY <1>2, <4>2
      <4> QED BY <3>3, <3>5, <3>8, <4>1, <4>3
    <3> QED BY <3>6, <3>7, <3>8
  <2>2. ASSUME NEW x \in DOMAIN coalesced' PROVE SameNumber(Leader(x)') \subseteq physUses'
    <3>1. x \in StartNodes
      BY <1>4, <1>7, <1>15 DEF GraphInv
    <3>2. CASE Leader(x) = v
      BY <1>2, <1>19, <3>1, <3>2
    <3>3. CASE Leader(x) # v
      <4>1. x \in DOMAIN coalesced
        BY <1>7, <1>13, <1>15, <3>3
      <4>2. SameNumber(Leader(x)) \subseteq physUses
        BY <1>4, <4>1 DEF MergedInv
      <4> QED BY <1>2, <1>19, <3>1, <3>3, <4>2
    <3> QED BY <3>2, <3>3
  <2>3. \A x \in DOMAIN affinity' : IsList(affinity'[x])
    BY <1>2, <1>4 DEF MergedInv
  <2> QED BY <1>5, <2>1, <2>2, <2>3 DEF MergedInv
<1>21. removed = {} /\ stack = << >> /\ allocated = << >> /\ spilled = {}
  BY DEF AllocatorInv
<1> QED BY <1>3, <1>5, <1>11, <1>18, <1>20, <1>21, NotDone DEF AllocatorInv, Working, HasGraph

-----------------------------------------------------------------------------
(* The orders in which nodes are taken.                                    *)

\* Registers that are told apart by their numbers.
Numbered(S) == IsFiniteSet(S) /\ \A r \in S : r = V(r[2]) /\ r[2] \in Nat

\* Of some registers, one has a given number of them below it.
LEMMA RanksExist ==
    ASSUME NEW U, Numbered(U)
    PROVE  \A k \in 1 .. Cardinality(U) : \E r \in U : Cardinality({s \in U : s[2] < r[2]}) = k - 1
<1> DEFINE Ranked(S, n) == \A k \in 1 .. n : \E r \in S : Cardinality({s \in S : s[2] < r[2]}) = k - 1
           T == {n \in Nat : \A S \in SUBSET U : Cardinality(S) = n => Ranked(S, n)}
<1>1. 0 \in T
  OBVIOUS
<1>2. ASSUME NEW n \in Nat, n \in T PROVE n + 1 \in T
  <2>0. SUFFICES ASSUME NEW S \in SUBSET U, Cardinality(S) = n + 1 PROVE Ranked(S, n + 1)
    <3> HIDE DEF Ranked
    <3> QED OBVIOUS
  <2> SUFFICES ASSUME NEW k \in 1 .. n + 1
               PROVE  \E r \in S : Cardinality({s \in S : s[2] < r[2]}) = k - 1
    OBVIOUS
  <2>1. IsFiniteSet(S) /\ \A r \in S : r = V(r[2]) /\ r[2] \in Nat
    BY FS_Subset DEF Numbered
  <2>2. S # {}
    BY <2>0, FS_EmptySet
  <2>3. PICK m \in S : \A s \in S : ~(s[2] < m[2])
    <3> DEFINE Numbers == {r[2] : r \in S}
    <3>1. Numbers # {} /\ Numbers \subseteq Nat
      BY <2>1, <2>2
    <3>2. PICK n0 \in Numbers : \A x \in Numbers : ~(x < n0)
      BY <3>1, LeastNumber
    <3> QED BY <3>2
  <2>4. \A s \in S \ {m} : m[2] < s[2]
    <3> SUFFICES ASSUME NEW s \in S \ {m} PROVE m[2] < s[2]
      OBVIOUS
    <3>1. s = V(s[2]) /\ m = V(m[2]) /\ s[2] \in Nat /\ m[2] \in Nat
      BY <2>1
    <3>2. s[2] # m[2]
      BY <3>1
    <3> QED BY <2>3, <3>1, <3>2
  <2>5. Cardinality(S \ {m}) = n /\ IsFiniteSet(S \ {m}) /\ S \ {m} \in SUBSET U
    <3>1. IsFiniteSet(S \ {m}) /\ Cardinality(S \ {m}) = Cardinality(S) - 1
      BY <2>1, FS_RemoveElement
    <3> QED BY <2>0, <3>1
  <2>6. CASE k = 1
    <3>1. {s \in S : s[2] < m[2]} = {}
      BY <2>3
    <3>2. Cardinality({s \in S : s[2] < m[2]}) = 0 /\ k - 1 = 0
      BY <2>6, <3>1, FS_EmptySet
    <3> QED BY <3>2
  <2>7. CASE k # 1
    <3>1. k - 1 \in 1 .. n
      BY <2>7
    <3>2. PICK r \in S \ {m} : Cardinality({s \in S \ {m} : s[2] < r[2]}) = (k - 1) - 1
      BY <1>2, <2>5, <3>1
    <3> DEFINE A == {s \in S \ {m} : s[2] < r[2]}
    <3>3. {s \in S : s[2] < r[2]} = A \cup {m}
      BY <2>4
    <3>4. IsFiniteSet(A) /\ m \notin A
      BY <2>5, FS_Subset
    <3>5. Cardinality(A) = (k - 1) - 1
      BY <3>2
    <3> HIDE DEF A
    <3>6. Cardinality(A \cup {m}) = ((k - 1) - 1) + 1
      BY <3>4, <3>5, FS_AddElement
    <3>7. ((k - 1) - 1) + 1 = k - 1
      BY <3>1
    <3> QED BY <3>3, <3>6, <3>7
  <2> QED BY <2>6, <2>7
<1>3. Cardinality(U) \in T
  <2>1. Cardinality(U) \in Nat
    BY FS_CardinalityType DEF Numbered
  <2> HIDE DEF T
  <2> QED BY <1>1, <1>2, <2>1, NumberInduction
<1> QED BY <1>3

\* Without repetition, and over a set.
Lines(s, S) == IsList(s) /\ Distinct(s) /\ ToSet(s) \subseteq S

\* Registers by number: each of them once.
LEMMA AscendingIs ==
    ASSUME NEW S, Numbered(S)
    PROVE  Lines(Ascending(S), S)
<1> DEFINE Below(r) == Cardinality({s \in S : s[2] < r[2]})
<1>1. PICK n \in Nat : n = Cardinality(S)
  BY FS_CardinalityType DEF Numbered
<1>2. PICK a : a = Ascending(S)
  OBVIOUS
<1>3. a = [k \in 1 .. n |-> CHOOSE r \in S : Below(r) = k - 1]
  BY <1>1, <1>2 DEF Ascending
<1>4. \A k \in 1 .. n : \E r \in S : Below(r) = k - 1
  BY <1>1, RanksExist
<1> HIDE DEF Below
<1>5. \A k \in 1 .. n : a[k] \in S /\ Below(a[k]) = k - 1
  BY <1>3, <1>4
<1>6. a = [k \in 1 .. n |-> a[k]]
  BY <1>3
<1>7. IsList(a) /\ DOMAIN a = 1 .. n
  BY <1>6, ListMade
<1>8. Distinct(a)
  <2> SUFFICES ASSUME NEW j \in 1 .. n, NEW k \in 1 .. n, a[j] = a[k] PROVE j = k
    BY <1>7 DEF Distinct
  <2>1. j - 1 = k - 1
    BY <1>5
  <2> QED BY <2>1
<1>9. ToSet(a) \subseteq S
  BY <1>5, <1>7 DEF ToSet
<1> QED BY <1>2, <1>7, <1>8, <1>9 DEF Lines

\* Two such lists with nothing in common.
LEMMA LinesConcat ==
    ASSUME NEW S, NEW s, NEW t, Lines(s, S), Lines(t, S), ToSet(s) \cap ToSet(t) = {}
    PROVE  Lines(s \o t, S) /\ ToSet(s \o t) = ToSet(s) \cup ToSet(t)
<1>1. PICK r : r = s \o t
  OBVIOUS
<1>2. PICK m \in Nat, n \in Nat : /\ m = Len(s) /\ n = Len(t) /\ DOMAIN s = 1 .. m /\ DOMAIN t = 1 .. n
                                  /\ \A k \in 1 .. m : s[k] \in ToSet(s)
                                  /\ \A k \in 1 .. n : t[k] \in ToSet(t)
  BY ListIs DEF Lines
<1>3. /\ IsList(r) /\ Len(r) = m + n /\ ToSet(r) = ToSet(s) \cup ToSet(t)
      /\ \A k \in 1 .. m : r[k] = s[k]
      /\ \A k \in 1 .. n : r[m + k] = t[k]
  BY <1>1, <1>2, ListConcat DEF Lines
<1>4. DOMAIN r = 1 .. m + n
  BY <1>3, ListIs
<1>5. ASSUME NEW j \in 1 .. m + n, NEW k \in 1 .. m + n, r[j] = r[k] PROVE j = k
  <2>1. \A i \in 1 .. m + n : i <= m => r[i] = s[i] /\ i \in 1 .. m
    BY <1>3
  <2>2. \A i \in 1 .. m + n : ~(i <= m) => i - m \in 1 .. n /\ r[i] = t[i - m]
    <3> SUFFICES ASSUME NEW i \in 1 .. m + n, ~(i <= m) PROVE i - m \in 1 .. n /\ r[i] = t[i - m]
      OBVIOUS
    <3>1. i - m \in 1 .. n /\ m + (i - m) = i
      OBVIOUS
    <3> QED BY <1>3, <3>1
  <2>3. CASE j <= m /\ k <= m
    BY <1>2, <1>5, <2>1, <2>3 DEF Lines, Distinct
  <2>4. CASE ~(j <= m) /\ ~(k <= m)
    <3>1. j - m \in 1 .. n /\ k - m \in 1 .. n /\ t[j - m] = t[k - m]
      BY <1>5, <2>2, <2>4
    <3>2. j - m = k - m
      BY <1>2, <3>1 DEF Lines, Distinct
    <3> QED BY <3>2
  <2>5. CASE j <= m /\ ~(k <= m)
    <3>1. r[j] \in ToSet(s) /\ r[k] \in ToSet(t)
      BY <1>2, <2>1, <2>2, <2>5
    <3> QED BY <1>5, <3>1
  <2>6. CASE ~(j <= m) /\ k <= m
    <3>1. r[k] \in ToSet(s) /\ r[j] \in ToSet(t)
      BY <1>2, <2>1, <2>2, <2>6
    <3> QED BY <1>5, <3>1
  <2> QED BY <2>3, <2>4, <2>5, <2>6
<1>6. Distinct(r)
  BY <1>4, <1>5 DEF Distinct
<1>7. ToSet(s) \cup ToSet(t) \subseteq S
  BY DEF Lines
<1> QED BY <1>1, <1>3, <1>6, <1>7 DEF Lines

\* A part of such a list, and what it has in common with another part.
LEMMA LinesPart ==
    ASSUME NEW S, NEW s, Lines(s, S), NEW a \in Nat, NEW b \in Nat, b <= Len(s)
    PROVE  /\ Lines(SubSeq(s, a + 1, b), S)
           /\ ToSet(SubSeq(s, a + 1, b)) = {s[k] : k \in a + 1 .. b}
<1>1. PICK n \in Nat : n = Len(s) /\ DOMAIN s = 1 .. n /\ s \in Seq(ToSet(s))
  BY ListIs DEF Lines
<1>2. PICK r : r = SubSeq(s, a + 1, b)
  OBVIOUS
<1>3. PICK m \in Nat : m = IF a < b THEN b - a ELSE 0
  <2>1. CASE a < b
    <3>1. b - a \in Nat
      BY <2>1
    <3> QED BY <2>1, <3>1
  <2>2. CASE ~(a < b)
    BY <2>2
  <2> QED BY <2>1, <2>2
<1>4. r = [k \in 1 .. m |-> s[a + k]]
  <2>1. CASE a < b
    <3>1. m = b - a
      BY <1>3, <2>1
    <3>2. a + 1 \in 1 .. n /\ b \in 1 .. n
      BY <1>1, <2>1
    <3>3. r = [k \in 1 .. (b - (a + 1)) + 1 |-> s[(k + (a + 1)) - 1]]
      BY <1>1, <1>2, <3>2
    <3>4. (b - (a + 1)) + 1 = m /\ \A k \in 1 .. m : (k + (a + 1)) - 1 = a + k
      BY <3>1
    <3> QED BY <3>3, <3>4
  <2>2. CASE ~(a < b)
    <3>1. r = << >>
      BY <1>1, <1>2, <2>2
    <3>2. m = 0 /\ 1 .. 0 = {}
      BY <1>3, <2>2
    <3> QED BY <3>1, <3>2
  <2> QED BY <2>1, <2>2
<1>5. r = [k \in 1 .. m |-> r[k]] /\ \A k \in 1 .. m : r[k] = s[a + k] /\ a + k \in 1 .. n
  BY <1>1, <1>3, <1>4
<1>6. IsList(r) /\ DOMAIN r = 1 .. m
  BY <1>5, ListMade
<1>7. Distinct(r)
  <2> SUFFICES ASSUME NEW j \in 1 .. m, NEW k \in 1 .. m, r[j] = r[k] PROVE j = k
    BY <1>6 DEF Distinct
  <2>1. a + j = a + k
    BY <1>1, <1>5 DEF Lines, Distinct
  <2> QED BY <2>1
<1>8. ToSet(r) = {s[k] : k \in a + 1 .. b}
  <2>1. \A k \in 1 .. m : a + k \in a + 1 .. b
    BY <1>3
  <2>2. \A k \in a + 1 .. b : k - a \in 1 .. m /\ a + (k - a) = k
    BY <1>3
  <2>3. \A k \in a + 1 .. b : r[k - a] = s[k]
    BY <1>5, <2>2
  <2>4. ToSet(r) = {r[k] : k \in 1 .. m}
    BY <1>6 DEF ToSet
  <2> QED BY <1>5, <2>1, <2>2, <2>3, <2>4
<1>9. ToSet(r) \subseteq S
  <2>1. \A k \in 1 .. m : s[a + k] \in S
    BY <1>1, <1>5 DEF Lines, ToSet
  <2> QED BY <1>5, <1>6, <2>1 DEF ToSet
<1> QED BY <1>2, <1>6, <1>7, <1>8, <1>9 DEF Lines

\* The hash table orders.
LEMMA HashOrdersAre ==
    ASSUME NEW S, Numbered(S), NEW s \in HashOrders(S)
    PROVE  Lines(s, S)
<1> DEFINE Turned(t, n) == SubSeq(t, n + 1, Len(t)) \o SubSeq(t, 1, n)
<1>1. PICK up : up = Ascending(S)
  OBVIOUS
<1>2. Lines(up, S)
  BY <1>1, AscendingIs
<1>3. PICK n \in 0 .. Len(up) : s = Turned(up, n) \/ s = Turned(Reverse(up), n)
  BY <1>1 DEF HashOrders
<1>4. Lines(Reverse(up), S) /\ Len(Reverse(up)) = Len(up)
  <2>1. PICK m \in Nat : m = Len(up) /\ DOMAIN up = 1 .. m
    BY <1>2, ListIs DEF Lines
  <2>2. PICK r : r = Reverse(up)
    OBVIOUS
  <2>3. IsList(r) /\ Len(r) = m /\ ToSet(r) = ToSet(up) /\ \A k \in 1 .. m : r[k] = up[(m - k) + 1]
    BY <1>2, <2>1, <2>2, ReverseMembers DEF Lines
  <2>4. DOMAIN r = 1 .. m
    BY <2>3, ListIs
  <2>5. Distinct(r)
    <3> SUFFICES ASSUME NEW j \in 1 .. m, NEW k \in 1 .. m, r[j] = r[k] PROVE j = k
      BY <2>4 DEF Distinct
    <3>1. (m - j) + 1 \in 1 .. m /\ (m - k) + 1 \in 1 .. m
      OBVIOUS
    <3>2. (m - j) + 1 = (m - k) + 1
      BY <1>2, <2>1, <2>3, <3>1 DEF Lines, Distinct
    <3> QED BY <3>2
  <2> QED BY <1>2, <2>1, <2>2, <2>3, <2>5 DEF Lines
<1>5. ASSUME NEW t, Lines(t, S), Len(t) = Len(up) PROVE Lines(Turned(t, n), S)
  <2>1. PICK m \in Nat : m = Len(t) /\ DOMAIN t = 1 .. m
    BY <1>5, ListIs DEF Lines
  <2>2. n \in Nat /\ n <= m /\ 0 \in Nat /\ 0 + 1 = 1
    BY <1>5, <2>1
  <2>3. Lines(SubSeq(t, n + 1, m), S) /\ ToSet(SubSeq(t, n + 1, m)) = {t[k] : k \in n + 1 .. m}
    BY <1>5, <2>1, <2>2, LinesPart
  <2>4. Lines(SubSeq(t, 1, n), S) /\ ToSet(SubSeq(t, 1, n)) = {t[k] : k \in 1 .. n}
    <3>1. Lines(SubSeq(t, 0 + 1, n), S) /\ ToSet(SubSeq(t, 0 + 1, n)) = {t[k] : k \in 0 + 1 .. n}
      BY <1>5, <2>1, <2>2, LinesPart
    <3> QED BY <2>2, <3>1
  <2>5. {t[k] : k \in n + 1 .. m} \cap {t[k] : k \in 1 .. n} = {}
    <3> SUFFICES ASSUME NEW j \in n + 1 .. m, NEW k \in 1 .. n, t[j] = t[k] PROVE FALSE
      OBVIOUS
    <3>1. j \in 1 .. m /\ k \in 1 .. m /\ j # k
      BY <2>2
    <3> QED BY <1>5, <2>1, <3>1 DEF Lines, Distinct
  <2>6. Lines(SubSeq(t, n + 1, m) \o SubSeq(t, 1, n), S)
    BY <2>3, <2>4, <2>5, LinesConcat
  <2> QED BY <2>1, <2>6
<1> HIDE DEF Turned
<1> QED BY <1>2, <1>3, <1>4, <1>5

-----------------------------------------------------------------------------
(* Coalescing.                                                             *)

\* A register has one more partner, or has it already.
LEMMA PartnersAreLists ==
    ASSUME NEW aff, \A x \in DOMAIN aff : IsList(aff[x]), NEW r, NEW s
    PROVE  \A x \in DOMAIN WithPartner(aff, r, s) : IsList(WithPartner(aff, r, s)[x])
<1>1. PICK old : old = IF r \in DOMAIN aff THEN aff[r] ELSE << >>
  OBVIOUS
<1>2. IsList(old)
  BY <1>1, ListOne
<1>3. PICK new : new = IF s \in ToSet(old) THEN old ELSE Append(old, s)
  OBVIOUS
<1>4. IsList(new)
  BY <1>2, <1>3, ListAppend
<1>5. WithPartner(aff, r, s) = WithEntry(aff, r, new)
  BY <1>1, <1>3 DEF WithPartner
<1>6. \A x \in DOMAIN WithEntry(aff, r, new) : WithEntry(aff, r, new)[x] = IF x = r THEN new ELSE aff[x]
  BY DEF WithEntry
<1>7. \A x \in DOMAIN WithEntry(aff, r, new) : x = r \/ x \in DOMAIN aff
  BY DEF WithEntry
<1> QED BY <1>4, <1>5, <1>6, <1>7

\* A candidate that is not merged changes only the preferences.
LEMMA NotMergedInv ==
    ASSUME AllocatorInv, stage = "coalesce", UNCHANGED <<coalesced, physUses, graph>>,
           \A x \in DOMAIN affinity' : IsList(affinity'[x]),
           UNCHANGED <<function, frame, stage, iteration, candidates, coloring>>
    PROVE  AllocatorInv'
<1>1. CodeInv /\ GraphInv /\ LeaderInv /\ MergedInv
  BY DEF AllocatorInv, Working, HasGraph
<1>2. CodeInv'
  BY <1>1, CodeKept
<1>3. GraphInv' /\ LeaderInv' /\ MergedInv'
  BY <1>1, GraphKept
<1>4. stage' = "coalesce" /\ removed' = {} /\ stack' = << >> /\ allocated' = << >> /\ spilled' = {}
  BY DEF AllocatorInv, coloring
<1> QED BY <1>2, <1>3, <1>4, NotDone DEF AllocatorInv, Working, HasGraph

\* A candidate is dropped, merged, or only preferred.
LEMMA CoalesceCandidateInv == AllocatorInv /\ CoalesceCandidate => AllocatorInv'
<1> SUFFICES ASSUME AllocatorInv, CoalesceCandidate PROVE AllocatorInv'
  OBVIOUS
<1>1. stage = "coalesce" /\ UNCHANGED <<function, frame, stage, iteration, candidates, coloring>>
  BY DEF CoalesceCandidate
<1>2. PICK uv : uv = Oriented(Leader(candidates[scan][1]), Leader(candidates[scan][2]))
  OBVIOUS
<1>3. IF ~MayMerge(uv[1], uv[2])
      THEN scan' = scan + 1 /\ UNCHANGED <<coalesced, affinity, physUses, unspillable, graph>>
      ELSE IF Conservative(uv[1], uv[2]) THEN Merge(uv[1], uv[2]) ELSE Prefer(uv[1], uv[2])
  BY <1>2 DEF CoalesceCandidate
<1>4. \A x \in DOMAIN affinity : IsList(affinity[x])
  BY <1>1 DEF AllocatorInv, HasGraph, MergedInv
<1>5. CASE ~MayMerge(uv[1], uv[2])
  BY <1>1, <1>3, <1>4, <1>5, NotMergedInv
<1>6. CASE MayMerge(uv[1], uv[2]) /\ Merge(uv[1], uv[2])
  BY <1>1, <1>6, MergeInv
<1>7. CASE Prefer(uv[1], uv[2])
  <2>1. PICK once : once = WithPartner(affinity, uv[1], uv[2])
    OBVIOUS
  <2>2. \A x \in DOMAIN once : IsList(once[x])
    BY <1>4, <2>1, PartnersAreLists
  <2>3. PICK twice : twice = WithPartner(once, uv[2], uv[1])
    OBVIOUS
  <2>4. \A x \in DOMAIN twice : IsList(twice[x])
    BY <2>2, <2>3, PartnersAreLists
  <2>5. affinity' = twice /\ UNCHANGED <<coalesced, physUses, graph>>
    BY <1>7, <2>1, <2>3 DEF Prefer
  <2> QED BY <1>1, <2>4, <2>5, NotMergedInv
<1> QED BY <1>3, <1>5, <1>6, <1>7

-----------------------------------------------------------------------------
(* Simplification.                                                         *)

\* The virtual nodes of the graph are told apart by their numbers.
LEMMA NodesNumbered ==
    ASSUME CodeInv, GraphInv, NEW S \in SUBSET VirtualNodes
    PROVE  Numbered(S)
<1>1. IsFiniteSet(S)
  BY KnownIs, FS_Subset
<1>2. \A n \in S : n \in StartNodes /\ IsVirtual(n)
  BY DEF VirtualNodes, GraphInv
<1>3. \A n \in S : n = V(n[2]) /\ n[2] \in Nat
  BY <1>2, KnownIs
<1> QED BY <1>1, <1>3 DEF Numbered

\* The queue starts with the nodes of low degree.
LEMMA StartSimplifyInv == AllocatorInv /\ StartSimplify => AllocatorInv'
<1> SUFFICES ASSUME AllocatorInv, StartSimplify PROVE AllocatorInv'
  OBVIOUS
<1>1. /\ stage = "coalesce" /\ stage' = "simplify"
      /\ degree' = [n \in VirtualNodes |-> Cardinality(Neighbors(n))]
      /\ queue' \in HashOrders({n \in VirtualNodes : degree'[n] < K})
      /\ UNCHANGED <<function, frame, graph, merging, removed, stack, allocated, spilled, physUses>>
  BY DEF StartSimplify
<1>2. CodeInv /\ GraphInv /\ LeaderInv /\ MergedInv
  BY <1>1 DEF AllocatorInv, Working, HasGraph
<1>3. CodeInv' /\ K' = K
  BY <1>1, <1>2, CodeKept
<1>4. coalesced' = coalesced /\ affinity' = affinity
  BY <1>1 DEF merging
<1>5. GraphInv' /\ LeaderInv' /\ MergedInv' /\ VirtualNodes' = VirtualNodes
  <2>1. \A x \in DOMAIN affinity' : IsList(affinity'[x])
    BY <1>2, <1>4 DEF MergedInv
  <2> QED BY <1>1, <1>2, <1>4, <2>1, GraphKept
<1>6. removed' = {} /\ stack' = << >> /\ allocated' = << >> /\ spilled' = {}
  BY <1>1 DEF AllocatorInv
<1>7. \A n \in VirtualNodes : Cardinality(Neighbors(n)) \in Int
  <2>1. IsFiniteSet(nodes) /\ EdgesOver(edges, nodes)
    BY <1>2, KnownIs DEF GraphInv
  <2>2. ASSUME NEW n \in VirtualNodes PROVE Cardinality(Neighbors(n)) \in Int
    <3>1. Neighbors(n) \subseteq nodes
      BY <2>1, NeighborsAre
    <3>2. IsFiniteSet(Neighbors(n))
      BY <2>1, <3>1, FS_Subset
    <3> QED BY <3>2, FS_CardinalityType
  <2> QED BY <2>2
<1>8. degree' \in [VirtualNodes -> Int]
  BY <1>1, <1>7
<1>9. PICK low : low = {n \in VirtualNodes : degree'[n] < K}
  OBVIOUS
<1>10. Lines(queue', low)
  <2>1. Numbered(low)
    BY <1>2, <1>9, NodesNumbered
  <2> QED BY <1>1, <1>9, <2>1, HashOrdersAre
<1>11. \A n \in ToSet(queue') : n \in VirtualNodes /\ degree'[n] < K
  BY <1>9, <1>10 DEF Lines
<1>12. IsList(<< >>) /\ ToSet(<< >>) = {} /\ Distinct(<< >>)
  <2>1. DOMAIN << >> = {}
    OBVIOUS
  <2> QED BY <2>1, ListOne DEF Distinct
<1>13. SimplifyInv'
  BY <1>3, <1>5, <1>6, <1>8, <1>10, <1>11, <1>12 DEF SimplifyInv, Lines
<1> QED BY <1>1, <1>3, <1>5, <1>13, NotDone DEF AllocatorInv, Working, HasGraph

\* A node leaves the graph, with the rest of the queue kept.
LEMMA RemoveNodeInv ==
    ASSUME AllocatorInv, stage = "simplify", NEW n \in VirtualNodes \ removed, NEW rest,
           Lines(rest, VirtualNodes \ (removed \cup {n})), \A m \in ToSet(rest) : degree[m] < K,
           RemoveNode(n, rest)
    PROVE  AllocatorInv'
<1>1. /\ removed' = removed \cup {n}
      /\ stack' = Append(stack, n)
      /\ degree' = [m \in DOMAIN degree |-> IF m \in Neighbors(n) \ removed /\ degree[m] > 0
                                            THEN degree[m] - 1 ELSE degree[m]]
      /\ queue' = rest \o Unlocked(n)
      /\ UNCHANGED <<function, frame, stage, graph, merging, allocated, spilled, physUses>>
  BY DEF RemoveNode
<1>2. CodeInv /\ GraphInv /\ LeaderInv /\ MergedInv /\ SimplifyInv
  BY DEF AllocatorInv, Working, HasGraph
<1>3. CodeInv' /\ K' = K
  BY <1>1, <1>2, CodeKept
<1>4. coalesced' = coalesced /\ affinity' = affinity
  BY <1>1 DEF merging
<1>5. GraphInv' /\ LeaderInv' /\ MergedInv' /\ VirtualNodes' = VirtualNodes
  <2>1. \A x \in DOMAIN affinity' : IsList(affinity'[x])
    BY <1>2, <1>4 DEF MergedInv
  <2> QED BY <1>1, <1>2, <1>4, <2>1, GraphKept
<1>6. K \in Nat /\ K > 0
  BY <1>2, SomeColor
<1>7. degree \in [VirtualNodes -> Int]
  BY <1>2 DEF SimplifyInv
<1>8. degree' \in [VirtualNodes -> Int] /\ \A m \in VirtualNodes : degree'[m] <= degree[m]
  BY <1>1, <1>7
<1> DEFINE S == VirtualNodes \ (removed \cup {n})
           U == {m \in (Neighbors(n) \cap VirtualNodes) \ removed : degree[m] = K}
<1>9. U \subseteq S /\ Lines(Unlocked(n), U)
  <2>1. n \notin Neighbors(n)
    BY DEF Neighbors
  <2>2. Numbered(U)
    BY <1>2, NodesNumbered
  <2> QED BY <2>1, <2>2, AscendingIs DEF Unlocked
<1>10. \A m \in U : degree'[m] < K
  <2> SUFFICES ASSUME NEW m \in U PROVE degree'[m] < K
    OBVIOUS
  <2>1. m \in Neighbors(n) \ removed /\ degree[m] = K /\ m \in VirtualNodes
    OBVIOUS
  <2>2. degree'[m] = degree[m] - 1
    BY <1>1, <1>6, <1>7, <2>1
  <2> QED BY <1>6, <2>1, <2>2
<1>11. ToSet(rest) \cap ToSet(Unlocked(n)) = {}
  <2>1. \A m \in ToSet(Unlocked(n)) : degree[m] = K
    BY <1>9 DEF Lines
  <2> QED BY <1>6, <2>1
<1>12. Lines(queue', S) /\ ToSet(queue') = ToSet(rest) \cup ToSet(Unlocked(n))
  <2>1. Lines(Unlocked(n), S) /\ Lines(rest, S)
    BY <1>9 DEF Lines
  <2> HIDE DEF S
  <2>2. PICK t : t = Unlocked(n)
    OBVIOUS
  <2>3. Lines(rest \o t, S) /\ ToSet(rest \o t) = ToSet(rest) \cup ToSet(t)
    BY <1>11, <2>1, <2>2, LinesConcat
  <2> QED BY <1>1, <2>2, <2>3
<1>13. \A m \in ToSet(queue') : m \in VirtualNodes \ removed' /\ degree'[m] < K
  <2> SUFFICES ASSUME NEW m \in ToSet(queue') PROVE m \in VirtualNodes \ removed' /\ degree'[m] < K
    OBVIOUS
  <2>1. m \in S
    BY <1>12 DEF Lines
  <2>2. m \in VirtualNodes \ removed'
    BY <1>1, <2>1
  <2>3. CASE m \in ToSet(rest)
    <3>1. degree[m] < K /\ degree'[m] <= degree[m] /\ degree[m] \in Int /\ degree'[m] \in Int
      BY <1>7, <1>8, <2>2, <2>3
    <3> QED BY <1>6, <2>2, <3>1
  <2>4. CASE m \in ToSet(Unlocked(n))
    BY <1>9, <1>10, <2>2, <2>4 DEF Lines
  <2> QED BY <1>12, <2>3, <2>4
<1>14. IsList(stack') /\ Distinct(stack') /\ ToSet(stack') = removed'
  <2>1. Lines(stack, removed) /\ ToSet(stack) = removed
    BY <1>2 DEF SimplifyInv, Lines
  <2>2. /\ IsList(stack') /\ Len(stack') = Len(stack) + 1 /\ ToSet(stack') = ToSet(stack) \cup {n}
        /\ stack'[Len(stack) + 1] = n /\ \A k \in 1 .. Len(stack) : stack'[k] = stack[k]
    BY <1>1, <2>1, ListAppend DEF Lines
  <2>3. PICK m \in Nat : m = Len(stack) /\ DOMAIN stack = 1 .. m /\ \A k \in 1 .. m : stack[k] \in removed
    BY <2>1, ListIs DEF Lines
  <2>4. DOMAIN stack' = 1 .. m + 1
    BY <2>2, <2>3, ListIs
  <2>5. ASSUME NEW j \in 1 .. m + 1, NEW k \in 1 .. m + 1, stack'[j] = stack'[k] PROVE j = k
    <3>1. \A i \in 1 .. m + 1 : i # m + 1 => i \in 1 .. m /\ stack'[i] = stack[i] /\ stack'[i] # n
      BY <2>2, <2>3
    <3>2. stack'[m + 1] = n
      BY <2>2, <2>3
    <3>3. CASE j = m + 1 \/ k = m + 1
      BY <2>5, <3>1, <3>2, <3>3
    <3>4. CASE j # m + 1 /\ k # m + 1
      BY <2>1, <2>3, <2>5, <3>1, <3>4 DEF Lines, Distinct
    <3> QED BY <3>3, <3>4
  <2>6. Distinct(stack')
    BY <2>4, <2>5 DEF Distinct
  <2> QED BY <1>1, <2>1, <2>2, <2>6
<1>15. removed' \subseteq VirtualNodes /\ allocated' = << >> /\ spilled' = {}
  BY <1>1, <1>2 DEF SimplifyInv
<1> HIDE DEF S, U
<1>16. SimplifyInv'
  BY <1>3, <1>5, <1>8, <1>12, <1>13, <1>14, <1>15 DEF SimplifyInv, Lines
<1>17. stage' = "simplify"
  BY <1>1
<1> QED BY <1>3, <1>5, <1>16, <1>17, NotDone DEF AllocatorInv, Working, HasGraph

\* The last element of a list without repetition, and the others.
LEMMA FrontLast ==
    ASSUME NEW s, IsList(s), Distinct(s), s # << >>
    PROVE  /\ Last(s) \in ToSet(s)
           /\ IsList(Front(s)) /\ Distinct(Front(s)) /\ ToSet(Front(s)) = ToSet(s) \ {Last(s)}
<1>1. PICK n \in Nat : n = Len(s) /\ DOMAIN s = 1 .. n /\ s = [k \in 1 .. n |-> s[k]]
  BY ListIs
<1>2. n # 0
  <2> SUFFICES ASSUME n = 0 PROVE FALSE
    OBVIOUS
  <2>1. 1 .. 0 = {}
    OBVIOUS
  <2>2. s = << >>
    BY <1>1, <2>1
  <2> QED BY <2>2
<1>3. n - 1 \in Nat /\ n - 1 <= n /\ n \in 1 .. n
  BY <1>2
<1>4. Last(s) = s[n] /\ s[n] \in ToSet(s)
  BY <1>1, <1>3 DEF Last, ToSet
<1>5. PICK f : f = Front(s)
  OBVIOUS
<1>6. f = SubSeq(s, 0 + 1, n - 1)
  BY <1>1, <1>5 DEF Front
<1>7. Lines(s, ToSet(s))
  BY DEF Lines
<1>8. /\ Lines(SubSeq(s, 0 + 1, n - 1), ToSet(s))
      /\ ToSet(SubSeq(s, 0 + 1, n - 1)) = {s[k] : k \in 0 + 1 .. n - 1}
  <2>1. PICK m \in Nat : m = n - 1
    BY <1>3
  <2>4. PICK S : S = ToSet(s)
    OBVIOUS
  <2>2. 0 \in Nat /\ m <= Len(s) /\ Lines(s, S)
    BY <1>1, <1>3, <1>7, <2>1, <2>4
  <2>3. Lines(SubSeq(s, 0 + 1, m), S) /\ ToSet(SubSeq(s, 0 + 1, m)) = {s[k] : k \in 0 + 1 .. m}
    BY <2>2, LinesPart
  <2> QED BY <2>1, <2>3, <2>4
<1>9. {s[k] : k \in 0 + 1 .. n - 1} = ToSet(s) \ {s[n]}
  <2>1. \A k \in 0 + 1 .. n - 1 : k \in 1 .. n /\ k # n
    BY <1>3
  <2>2. \A k \in 1 .. n : k # n => k \in 0 + 1 .. n - 1
    BY <1>3
  <2>3. \A k \in 1 .. n : s[k] = s[n] => k = n
    BY <1>1, <1>3 DEF Distinct
  <2>4. ToSet(s) = {s[k] : k \in 1 .. n}
    BY <1>1 DEF ToSet
  <2> QED BY <2>1, <2>2, <2>3, <2>4
<1> QED BY <1>4, <1>5, <1>6, <1>8, <1>9 DEF Lines

\* The node at the end of the queue leaves.
LEMMA SimplifyLowDegreeInv == AllocatorInv /\ SimplifyLowDegree => AllocatorInv'
<1> SUFFICES ASSUME AllocatorInv, SimplifyLowDegree PROVE AllocatorInv'
  OBVIOUS
<1>1. stage = "simplify" /\ queue # << >> /\ RemoveNode(Last(queue), Front(queue))
  BY DEF SimplifyLowDegree, Simplifying
<1>2. /\ IsList(queue) /\ Distinct(queue)
      /\ \A n \in ToSet(queue) : n \in VirtualNodes \ removed /\ degree[n] < K
  BY <1>1 DEF AllocatorInv, SimplifyInv
<1>3. PICK n, rest : n = Last(queue) /\ rest = Front(queue)
  OBVIOUS
<1>4. n \in ToSet(queue) /\ IsList(rest) /\ Distinct(rest) /\ ToSet(rest) = ToSet(queue) \ {n}
  BY <1>1, <1>2, <1>3, FrontLast
<1>5. Lines(rest, VirtualNodes \ (removed \cup {n})) /\ \A m \in ToSet(rest) : degree[m] < K
  BY <1>2, <1>4 DEF Lines
<1>6. n \in VirtualNodes \ removed /\ RemoveNode(n, rest)
  BY <1>1, <1>2, <1>3, <1>4
<1> QED BY <1>1, <1>5, <1>6, RemoveNodeInv

\* With an empty queue any node may leave.
LEMMA RemoveAnyInv ==
    ASSUME AllocatorInv, stage = "simplify", NEW n \in VirtualNodes \ removed, RemoveNode(n, << >>)
    PROVE  AllocatorInv'
<1>1. IsList(<< >>) /\ ToSet(<< >>) = {} /\ DOMAIN << >> = {}
  <2>1. DOMAIN << >> = {}
    OBVIOUS
  <2> QED BY <2>1, ListOne
<1>2. Lines(<< >>, VirtualNodes \ (removed \cup {n})) /\ \A m \in ToSet(<< >>) : degree[m] < K
  BY <1>1 DEF Lines, Distinct
<1> QED BY <1>2, RemoveNodeInv

\* The cheapest node leaves.
LEMMA SimplifySpillCandidateInv == AllocatorInv /\ SimplifySpillCandidate => AllocatorInv'
<1> SUFFICES ASSUME AllocatorInv, SimplifySpillCandidate PROVE AllocatorInv'
  OBVIOUS
<1>1. stage = "simplify" /\ \E n \in SpillCandidates : RemoveNode(n, << >>)
  BY DEF SimplifySpillCandidate, Simplifying
<1>2. PICK n \in VirtualNodes \ removed : RemoveNode(n, << >>)
  BY <1>1 DEF SpillCandidates
<1> QED BY <1>1, <1>2, RemoveAnyInv

\* With nothing left that may be spilled, any node leaves.
LEMMA SimplifyUnspillableInv == AllocatorInv /\ SimplifyUnspillable => AllocatorInv'
<1> SUFFICES ASSUME AllocatorInv, SimplifyUnspillable PROVE AllocatorInv'
  OBVIOUS
<1>1. stage = "simplify" /\ \E n \in VirtualNodes \ removed : RemoveNode(n, << >>)
  BY DEF SimplifyUnspillable, Simplifying
<1> QED BY <1>1, RemoveAnyInv

\* A list without repetition is as long as what it holds is large.
LEMMA LineSize ==
    ASSUME NEW s, IsList(s), Distinct(s)
    PROVE  IsFiniteSet(ToSet(s)) /\ Cardinality(ToSet(s)) = Len(s)
<1>1. PICK n \in Nat : n = Len(s) /\ DOMAIN s = 1 .. n /\ s = [k \in 1 .. n |-> s[k]]
  BY ListIs
<1>2. s \in [1 .. n -> ToSet(s)]
  BY <1>1 DEF ToSet
<1>3. \A j, k \in 1 .. n : s[j] = s[k] => j = k
  BY <1>1 DEF Distinct
<1>4. \A x \in ToSet(s) : \E k \in 1 .. n : s[k] = x
  BY <1>1 DEF ToSet
<1>5. s \in Bijection(1 .. n, ToSet(s))
  BY <1>2, <1>3, <1>4 DEF Bijection, Injection, Surjection, IsInjective
<1>6. ExistsBijection(1 .. n, ToSet(s))
  BY <1>5 DEF ExistsBijection
<1>7. IsFiniteSet(1 .. n) /\ Cardinality(1 .. n) = n
  <2>1. 1 \in Int /\ n \in Int
    OBVIOUS
  <2>2. IsFiniteSet(1 .. n) /\ Cardinality(1 .. n) = IF 1 > n THEN 0 ELSE n - 1 + 1
    BY <2>1, FS_Interval
  <2>3. (IF 1 > n THEN 0 ELSE n - 1 + 1) = n
    OBVIOUS
  <2> QED BY <2>2, <2>3
<1> QED BY <1>1, <1>6, <1>7, FS_Bijection

\* When as many nodes have left as there are, all of them are on the stack.
LEMMA StartSelectInv == AllocatorInv /\ StartSelect => AllocatorInv'
<1> SUFFICES ASSUME AllocatorInv, StartSelect PROVE AllocatorInv'
  OBVIOUS
<1>1. /\ stage = "simplify" /\ Cardinality(VirtualNodes) = Len(stack) /\ stage' = "select"
      /\ UNCHANGED <<function, frame, graph, merging, coloring, physUses>>
  BY DEF StartSelect
<1>2. CodeInv /\ GraphInv /\ LeaderInv /\ MergedInv /\ SimplifyInv
  BY <1>1 DEF AllocatorInv, Working, HasGraph
<1>3. CodeInv'
  BY <1>1, <1>2, CodeKept
<1>4. coalesced' = coalesced /\ affinity' = affinity
  BY <1>1 DEF merging
<1>5. GraphInv' /\ LeaderInv' /\ MergedInv' /\ VirtualNodes' = VirtualNodes
  <2>1. \A x \in DOMAIN affinity' : IsList(affinity'[x])
    BY <1>2, <1>4 DEF MergedInv
  <2> QED BY <1>1, <1>2, <1>4, <2>1, GraphKept
<1>6. /\ IsList(stack) /\ Distinct(stack) /\ removed = ToSet(stack) /\ removed \subseteq VirtualNodes
      /\ allocated = << >> /\ spilled = {}
  BY <1>2 DEF SimplifyInv
<1>7. VirtualNodes = ToSet(stack)
  <2>1. IsFiniteSet(VirtualNodes)
    BY <1>2, KnownIs
  <2>2. Cardinality(ToSet(stack)) = Len(stack)
    BY <1>6, LineSize
  <2> QED BY <1>1, <1>6, <2>1, <2>2, FS_Subset
<1>8. /\ stack' = stack /\ removed' = removed /\ allocated' = << >> /\ spilled' = {}
      /\ DOMAIN allocated' = {}
  BY <1>1, <1>6 DEF coloring
<1>9. SelectInv'
  BY <1>5, <1>6, <1>7, <1>8 DEF SelectInv
<1> QED BY <1>1, <1>3, <1>5, <1>9, NotDone DEF AllocatorInv, Working, HasGraph

-----------------------------------------------------------------------------
(* Coloring.                                                               *)

\* What is listed of a set of one element, or none.
LEMMA SmallSetListed ==
    ASSUME NEW S, NEW x, S = {} \/ S = {x}
    PROVE  IsList(SetToSeq(S)) /\ ToSet(SetToSeq(S)) \subseteq S
<1>1. PICK n \in Nat : n = Cardinality(S) /\ n \in {0, 1} /\ (n = 1 => S = {x})
  <2>1. CASE S = {}
    <3>1. Cardinality(S) = 0
      BY <2>1, FS_EmptySet
    <3> QED BY <3>1
  <2>2. CASE S = {x}
    <3>1. Cardinality(S) = 1
      BY <2>2, FS_Singleton
    <3> QED BY <2>2, <3>1
  <2> QED BY <2>1, <2>2
<1>2. PICK f : f = [k \in 1 .. n |-> x]
  OBVIOUS
<1>3. f \in [1 .. n -> S] /\ IsInjective(f)
  <2>1. \A k \in 1 .. n : x \in S
    BY <1>1
  <2>2. \A j, k \in 1 .. n : j = k
    BY <1>1
  <2>3. f \in [1 .. n -> S] /\ DOMAIN f = 1 .. n
    BY <1>2, <2>1
  <2> QED BY <2>2, <2>3 DEF IsInjective
<1>4. PICK s : s = SetToSeq(S)
  OBVIOUS
<1>5. s = CHOOSE g \in [1 .. n -> S] : IsInjective(g)
  BY <1>1, <1>4 DEF SetToSeq
<1>6. s \in [1 .. n -> S]
  BY <1>3, <1>5
<1>7. s = [k \in 1 .. n |-> s[k]]
  BY <1>6
<1>8. IsList(s) /\ DOMAIN s = 1 .. n
  BY <1>7, ListMade
<1>9. ToSet(s) \subseteq S
  BY <1>6, <1>8 DEF ToSet
<1> QED BY <1>4, <1>8, <1>9

\* Every color that is tried is a hardware register.
LEMMA ColorOrderIs ==
    ASSUME CodeInv, GraphInv, MergedInv, SelectInv, Node \in VirtualNodes
    PROVE  IsList(ColorOrder) /\ \A k \in DOMAIN ColorOrder : ~IsVirtual(ColorOrder[k])
<1>1. PICK partners : partners = IF Node \in DOMAIN affinity THEN affinity[Node] ELSE << >>
  OBVIOUS
<1>2. IsList(partners)
  BY <1>1, ListOne DEF MergedInv
<1>3. PICK n \in Nat : n = Len(partners) /\ DOMAIN partners = 1 .. n
  BY <1>2, ListIs
<1>4. PICK lists : lists = [k \in 1 .. n |-> SetToSeq(ColorOfPartner(partners[k]))]
  OBVIOUS
<1>5. ASSUME NEW k \in 1 .. n PROVE IsList(lists[k]) /\ \A c \in ToSet(lists[k]) : ~IsVirtual(c)
  <2>1. PICK S : S = ColorOfPartner(partners[k])
    OBVIOUS
  <2>2. PICK leader : leader = Leader(partners[k])
    OBVIOUS
  <2>3. S = IF ~IsVirtual(leader) THEN {leader}
            ELSE IF leader \in DOMAIN allocated THEN {allocated[leader]} ELSE {}
    BY <2>1, <2>2 DEF ColorOfPartner
  <2>4. \A c \in S : ~IsVirtual(c)
    BY <2>3 DEF SelectInv
  <2>5. \E x : S = {} \/ S = {x}
    BY <2>3
  <2>6. IsList(SetToSeq(S)) /\ ToSet(SetToSeq(S)) \subseteq S
    BY <2>5, SmallSetListed
  <2>7. lists[k] = SetToSeq(S)
    BY <1>4, <2>1
  <2> QED BY <2>4, <2>6, <2>7
<1>6. PICK preferred : preferred = FlattenSeq(lists)
  OBVIOUS
<1>7. IsList(preferred) /\ \A c \in ToSet(preferred) : ~IsVirtual(c)
  <2>1. lists = [k \in 1 .. n |-> lists[k]]
    BY <1>4
  <2>2. IsList(FlattenSeq(lists)) /\ ToSet(FlattenSeq(lists)) = UNION {ToSet(lists[k]) : k \in 1 .. n}
    BY <1>5, <2>1, FlattenMade
  <2> QED BY <1>5, <1>6, <2>2
<1>8. PICK others : others = [k \in DOMAIN palette |-> P(ClassOf(Node), palette[k])]
  OBVIOUS
<1>9. ClassOf(Node) # "v"
  <2>1. Node \in StartNodes /\ IsVirtual(Node)
    BY DEF VirtualNodes, GraphInv
  <2>2. Node[2] \in 1 .. Len(class)
    BY <2>1, KnownIs
  <2>3. class[Node[2]] \in STRING \ {"v"}
    BY <2>2 DEF CodeInv
  <2> QED BY <2>1, <2>3 DEF ClassOf
<1>10. IsList(others) /\ \A c \in ToSet(others) : ~IsVirtual(c)
  <2>1. PICK m \in Nat : DOMAIN palette = 1 .. m
    BY ListIs DEF CodeInv
  <2>2. others = [k \in 1 .. m |-> others[k]]
    BY <1>8, <2>1
  <2>3. IsList(others) /\ DOMAIN others = 1 .. m
    BY <2>2, ListMade
  <2>4. PICK c : c = ClassOf(Node)
    OBVIOUS
  <2>5. \A k \in 1 .. m : others[k] = P(c, palette[k])
    BY <1>8, <2>1, <2>4
  <2>6. \A k \in 1 .. m : ~IsVirtual(others[k])
    BY <1>9, <2>4, <2>5 DEF IsVirtual, P
  <2> QED BY <2>3, <2>6 DEF ToSet
<1>11. PICK all : all = preferred \o others
  OBVIOUS
<1>12. IsList(all) /\ \A c \in ToSet(all) : ~IsVirtual(c)
  <2>1. IsList(all) /\ ToSet(all) = ToSet(preferred) \cup ToSet(others)
    BY <1>7, <1>10, <1>11, ListConcat
  <2> QED BY <1>7, <1>10, <2>1
<1>13. ColorOrder = all
  BY <1>1, <1>3, <1>4, <1>6, <1>8, <1>11 DEF ColorOrder
<1>14. \A k \in DOMAIN all : ~IsVirtual(all[k])
  BY <1>12 DEF ToSet
<1> QED BY <1>12, <1>13, <1>14

\* A set of positions has a least one.
LEMMA MinOf ==
    ASSUME NEW S \in SUBSET Nat, S # {}
    PROVE  Min(S) \in S
<1>1. PICK x \in S : \A y \in S : ~(y < x)
  BY LeastNumber
<1>2. \A y \in S : x <= y
  BY <1>1
<1> QED BY <1>2 DEF Min

\* What is at the top of the stack is a virtual register of the graph.
LEMMA TopOfStack ==
    ASSUME SelectInv, stack # << >>
    PROVE  /\ Node \in ToSet(stack) /\ Node \in VirtualNodes /\ IsVirtual(Node)
           /\ Node \notin DOMAIN allocated /\ Node \notin spilled
           /\ IsList(Front(stack)) /\ Distinct(Front(stack)) /\ ToSet(Front(stack)) = ToSet(stack) \ {Node}
<1>1. /\ Node \in ToSet(stack) /\ IsList(Front(stack)) /\ Distinct(Front(stack))
      /\ ToSet(Front(stack)) = ToSet(stack) \ {Node}
  BY FrontLast DEF SelectInv, Node
<1>2. Node \in VirtualNodes /\ Node \notin DOMAIN allocated /\ Node \notin spilled
  BY <1>1 DEF SelectInv
<1> QED BY <1>1, <1>2 DEF VirtualNodes

\* The color that is taken is a hardware register that no neighbor back in the
\* graph has.
LEMMA ColorTaken ==
    ASSUME CodeInv, GraphInv, MergedInv, SelectInv, stack # << >>, FreeColors # {}
    PROVE  /\ ~IsVirtual(ColorOrder[Min(FreeColors)])
           /\ ColorOrder[Min(FreeColors)][2] \notin UsedColors
<1>1. IsList(ColorOrder) /\ \A k \in DOMAIN ColorOrder : ~IsVirtual(ColorOrder[k])
  BY TopOfStack, ColorOrderIs
<1>2. PICK n \in Nat : DOMAIN ColorOrder = 1 .. n
  BY <1>1, ListIs
<1>3. PICK free : free = FreeColors
  OBVIOUS
<1>4. free \in SUBSET Nat /\ free # {}
  BY <1>2, <1>3 DEF FreeColors
<1>5. Min(free) \in free
  BY <1>4, MinOf
<1>6. \A k \in free : k \in DOMAIN ColorOrder /\ ColorOrder[k][2] \notin UsedColors
  BY <1>3 DEF FreeColors, FreeFor
<1> QED BY <1>1, <1>3, <1>5, <1>6

\* A node comes back with a color that none of its neighbors has.
LEMMA AssignColorInv == AllocatorInv /\ AssignColor => AllocatorInv'
<1> SUFFICES ASSUME AllocatorInv, AssignColor PROVE AllocatorInv'
  OBVIOUS
<1>1. PICK color : color = ColorOrder[Min(FreeColors)]
  OBVIOUS
<1>2. PICK n : n = Node
  OBVIOUS
<1>3. /\ stage = "select" /\ stack # << >> /\ FreeColors # {}
      /\ allocated' = WithEntry(allocated, n, color)
      /\ physUses' = physUses \cup SameNumber(color)
      /\ removed' = removed \ {n} /\ stack' = Front(stack)
      /\ UNCHANGED <<function, frame, stage, graph, merging, spilled>>
  BY <1>1, <1>2 DEF AssignColor
<1>4. CodeInv /\ GraphInv /\ LeaderInv /\ MergedInv /\ SelectInv
  BY <1>3 DEF AllocatorInv, Working, HasGraph
<1>5. ~IsVirtual(color) /\ color[2] \notin UsedColors
  BY <1>1, <1>3, <1>4, ColorTaken
<1>6. /\ n \in ToSet(stack) /\ n \in VirtualNodes /\ IsVirtual(n)
      /\ n \notin DOMAIN allocated /\ n \notin spilled
      /\ IsList(Front(stack)) /\ Distinct(Front(stack)) /\ ToSet(Front(stack)) = ToSet(stack) \ {n}
  BY <1>2, <1>3, <1>4, TopOfStack
<1>7. CodeInv'
  BY <1>3, <1>4, CodeKept
<1>8. coalesced' = coalesced /\ affinity' = affinity /\ edges' = edges /\ nodes' = nodes /\ stage' = "select"
  BY <1>3 DEF merging, graph
<1>9. GraphInv' /\ LeaderInv' /\ MergedInv' /\ VirtualNodes' = VirtualNodes
  <2>1. \A x \in DOMAIN affinity' : IsList(affinity'[x])
    BY <1>4, <1>8 DEF MergedInv
  <2>2. physUses \subseteq physUses'
    BY <1>3
  <2> QED BY <1>3, <1>4, <1>8, <2>1, <2>2, GraphKept
<1>10. /\ DOMAIN allocated' = DOMAIN allocated \cup {n} /\ allocated'[n] = color
       /\ \A z \in DOMAIN allocated : allocated'[z] = allocated[z]
  <2>1. PICK g : g = WithEntry(allocated, n, color)
    OBVIOUS
  <2>2. DOMAIN g = DOMAIN allocated \cup {n} /\ g[n] = color
        /\ \A z \in DOMAIN allocated : z # n => g[z] = allocated[z]
    BY <2>1 DEF WithEntry
  <2> QED BY <1>3, <1>6, <2>1, <2>2
<1>11. /\ IsList(stack') /\ Distinct(stack')
       /\ removed' = ToSet(stack') \cup spilled' /\ ToSet(stack') \cap spilled' = {}
       /\ VirtualNodes' = removed' \cup DOMAIN allocated' /\ removed' \cap DOMAIN allocated' = {}
  <2>1. /\ removed = ToSet(stack) \cup spilled /\ ToSet(stack) \cap spilled = {}
        /\ VirtualNodes = removed \cup DOMAIN allocated /\ removed \cap DOMAIN allocated = {}
    BY <1>4 DEF SelectInv
  <2>2. /\ IsList(stack') /\ Distinct(stack') /\ ToSet(stack') = ToSet(stack) \ {n} /\ spilled' = spilled
        /\ removed' = removed \ {n}
    BY <1>3, <1>6
  <2> QED BY <1>6, <1>9, <1>10, <2>1, <2>2
<1>12. SameNumber(color)' = SameNumber(color)
  BY DEF SameNumber
<1>13. \A m \in DOMAIN allocated' : ~IsVirtual(allocated'[m]) /\ SameNumber(allocated'[m]) \subseteq physUses'
  <2>1. \A m \in DOMAIN allocated : ~IsVirtual(allocated[m]) /\ SameNumber(allocated[m]) \subseteq physUses
    BY <1>4 DEF SelectInv
  <2>2. \A m \in DOMAIN allocated' : m = n \/ m \in DOMAIN allocated
    BY <1>10
  <2> QED BY <1>3, <1>5, <1>10, <2>1, <2>2
<1>14. ASSUME NEW y, y # n, {n, y} \in edges, IsVirtual(y) => y \in DOMAIN allocated
       PROVE  NumberOf(y) # color[2]
  <2>1. y \in Neighbors(n)
    BY <1>4, <1>14, NeighborsAre DEF GraphInv
  <2>2. y \notin removed
    <3>1. removed \subseteq VirtualNodes /\ removed \cap DOMAIN allocated = {}
      BY <1>4 DEF SelectInv
    <3> QED BY <1>14, <3>1 DEF VirtualNodes
  <2>3. y \in Neighbors(Node) \ removed
    BY <1>2, <2>1, <2>2
  <2>4. NumberOf(y) \in UsedColors
    BY <2>3 DEF UsedColors, NumberOf
  <2> QED BY <1>5, <2>4
<1>15. ASSUME NEW y, y # n, IsVirtual(y) => y \in DOMAIN allocated
       PROVE  NumberOf(y)' = NumberOf(y)
  BY <1>10, <1>15 DEF NumberOf
<1>16. NumberOf(n)' = color[2]
  BY <1>6, <1>10 DEF NumberOf
<1>17. ASSUME NEW e \in edges', NEW x \in e, NEW y \in e,
              x # y, x \in DOMAIN allocated', IsVirtual(y) => y \in DOMAIN allocated'
       PROVE  NumberOf(x)' # NumberOf(y)'
  <2>1. e = {x, y} /\ e \in edges
    <3>1. e \in edges
      BY <1>8
    <3>2. \E a \in nodes : \E b \in nodes : a # b /\ e = {a, b}
      BY <1>4, <3>1 DEF GraphInv, EdgesOver
    <3> QED BY <1>17, <3>1, <3>2
  <2>2. \A z \in DOMAIN allocated' : z # n => z \in DOMAIN allocated
    BY <1>10
  <2>3. CASE x = n
    <3>1. {n, y} \in edges /\ y # n /\ (IsVirtual(y) => y \in DOMAIN allocated)
      BY <1>17, <2>1, <2>2, <2>3
    <3>2. NumberOf(y) # color[2] /\ NumberOf(y)' = NumberOf(y)
      BY <3>1, <1>14, <1>15
    <3> QED BY <1>16, <2>3, <3>2
  <2>4. CASE y = n
    <3>1. {n, x} \in edges /\ x # n /\ x \in DOMAIN allocated
      BY <1>17, <2>1, <2>2, <2>4
    <3>2. NumberOf(x) # color[2] /\ NumberOf(x)' = NumberOf(x)
      BY <3>1, <1>14, <1>15
    <3> QED BY <1>16, <2>4, <3>2
  <2>5. CASE x # n /\ y # n
    <3>1. x \in DOMAIN allocated /\ (IsVirtual(y) => y \in DOMAIN allocated)
      BY <1>17, <2>2, <2>5
    <3>2. NumberOf(x) # NumberOf(y)
      BY <1>4, <1>17, <2>1, <3>1 DEF SelectInv
    <3> QED BY <1>15, <2>5, <3>1, <3>2
  <2> QED BY <2>3, <2>4, <2>5
<1>18. SelectInv'
  BY <1>11, <1>13, <1>17 DEF SelectInv, SameNumber
<1> QED BY <1>7, <1>8, <1>9, <1>18, NotDone DEF AllocatorInv, Working, HasGraph

\* A node without a color goes from the stack to the spilled ones.
LEMMA MarkSpilledInv == AllocatorInv /\ MarkSpilled => AllocatorInv'
<1> SUFFICES ASSUME AllocatorInv, MarkSpilled PROVE AllocatorInv'
  OBVIOUS
<1>1. PICK n : n = Node
  OBVIOUS
<1>2. /\ stage = "select" /\ stack # << >> /\ spilled' = spilled \cup {n} /\ stack' = Front(stack)
      /\ UNCHANGED <<function, frame, stage, graph, merging, removed, allocated, physUses>>
  BY <1>1 DEF MarkSpilled
<1>3. CodeInv /\ GraphInv /\ LeaderInv /\ MergedInv /\ SelectInv
  BY <1>2 DEF AllocatorInv, Working, HasGraph
<1>4. /\ n \in ToSet(stack) /\ n \notin spilled
      /\ IsList(Front(stack)) /\ Distinct(Front(stack)) /\ ToSet(Front(stack)) = ToSet(stack) \ {n}
  BY <1>1, <1>2, <1>3, TopOfStack
<1>5. CodeInv'
  BY <1>2, <1>3, CodeKept
<1>6. coalesced' = coalesced /\ affinity' = affinity /\ edges' = edges /\ stage' = "select"
  BY <1>2 DEF merging, graph
<1>7. GraphInv' /\ LeaderInv' /\ MergedInv' /\ VirtualNodes' = VirtualNodes
  <2>1. \A x \in DOMAIN affinity' : IsList(affinity'[x])
    BY <1>3, <1>6 DEF MergedInv
  <2> QED BY <1>2, <1>3, <1>6, <2>1, GraphKept
<1>8. /\ IsList(stack') /\ Distinct(stack')
      /\ removed' = ToSet(stack') \cup spilled' /\ ToSet(stack') \cap spilled' = {}
  <2>1. removed = ToSet(stack) \cup spilled /\ ToSet(stack) \cap spilled = {}
    BY <1>3 DEF SelectInv
  <2> QED BY <1>2, <1>4, <2>1
<1>9. allocated' = allocated /\ removed' = removed /\ physUses' = physUses
  BY <1>2
<1>10. SelectInv'
  <2>1. VirtualNodes' = removed' \cup DOMAIN allocated' /\ removed' \cap DOMAIN allocated' = {}
    BY <1>3, <1>7, <1>9 DEF SelectInv
  <2>2. \A m \in DOMAIN allocated' : ~IsVirtual(allocated'[m]) /\ SameNumber(allocated'[m]) \subseteq physUses'
    BY <1>3, <1>9 DEF SelectInv
  <2>3. \A e \in edges' : \A x, y \in e :
           x # y /\ x \in DOMAIN allocated' /\ (IsVirtual(y) => y \in DOMAIN allocated')
             => NumberOf(x)' # NumberOf(y)'
    BY <1>3, <1>6, <1>9 DEF SelectInv, NumberOf
  <2> QED BY <1>8, <2>1, <2>2, <2>3 DEF SelectInv, SameNumber
<1> QED BY <1>5, <1>6, <1>7, <1>10, NotDone DEF AllocatorInv, Working, HasGraph

\* An iteration that ends without colors leaves the code as it was.
LEMMA OutOfColorsInv == AllocatorInv /\ OutOfColors => AllocatorInv'
<1> SUFFICES ASSUME AllocatorInv, OutOfColors PROVE AllocatorInv'
  OBVIOUS
<1>1. stage = "select" /\ stage' \in {"build", "failed"} /\ UNCHANGED <<function, frame>>
  BY DEF OutOfColors, NextIteration
<1>2. CodeInv'
  BY <1>1, CodeKept DEF AllocatorInv, Working
<1> QED BY <1>1, <1>2, NotDone DEF AllocatorInv, Working, HasGraph

-----------------------------------------------------------------------------
(* Rewriting the code.                                                     *)

\* An instruction with every register it names replaced.
RenamedBy(i, f) ==
    [i EXCEPT !.ops = [k \in DOMAIN i.ops |->
        [i.ops[k] EXCEPT !.regs = [j \in DOMAIN i.ops[k].regs |-> f[i.ops[k].regs[j]]]]]]

\* It stays an instruction, of the registers that replace the old ones.
LEMMA RenamedIs ==
    ASSUME NEW i, Formed(i), NEW f
    PROVE  Formed(RenamedBy(i, f)) /\ \A r \in RegsIn(RenamedBy(i, f)) : \E x \in RegsIn(i) : r = f[x]
<1>1. PICK n \in Nat : n = Len(i.ops) /\ DOMAIN i.ops = 1 .. n
  BY ListIs DEF Formed
<1>2. PICK ops : ops = [k \in 1 .. n |-> [i.ops[k] EXCEPT !.regs = [j \in DOMAIN i.ops[k].regs |-> f[i.ops[k].regs[j]]]]]
  OBVIOUS
<1>3. PICK r : r = RenamedBy(i, f)
  OBVIOUS
<1>4. r = [i EXCEPT !.ops = ops]
  BY <1>1, <1>2, <1>3 DEF RenamedBy
<1>5. r.ops = ops /\ "ops" \in DOMAIN r
  BY <1>4 DEF Formed
<1>6. ASSUME NEW k \in 1 .. n
      PROVE  WellMade(ops[k]) /\ \A y \in ToSet(ops[k].regs) : \E x \in ToSet(i.ops[k].regs) : y = f[x]
  <2>1. PICK op : op = i.ops[k]
    OBVIOUS
  <2>2. WellMade(op)
    BY <1>1, <2>1 DEF Formed
  <2>3. PICK m \in Nat : m = Len(op.regs) /\ DOMAIN op.regs = 1 .. m
    BY <2>2, ListIs DEF WellMade
  <2>4. PICK rs : rs = [j \in 1 .. m |-> f[op.regs[j]]]
    OBVIOUS
  <2>5. PICK new : new = [op EXCEPT !.regs = rs]
    OBVIOUS
  <2>6. ops[k] = new
    BY <1>2, <2>1, <2>3, <2>4, <2>5
  <2>7. new.regs = rs /\ new.kind = op.kind /\ new.acc = op.acc /\ {"kind", "regs", "acc"} \subseteq DOMAIN new
    BY <2>2, <2>5 DEF WellMade
  <2>8. rs = [j \in 1 .. m |-> rs[j]]
    BY <2>4
  <2>9. IsList(rs) /\ Len(rs) = m /\ DOMAIN rs = 1 .. m
    BY <2>8, ListMade
  <2>10. WellMade(new)
    BY <2>2, <2>3, <2>7, <2>9 DEF WellMade
  <2>11. \A y \in ToSet(rs) : \E x \in ToSet(op.regs) : y = f[x]
    BY <2>3, <2>4, <2>9 DEF ToSet
  <2> QED BY <2>1, <2>6, <2>7, <2>10, <2>11
<1>7. IsList(ops) /\ DOMAIN ops = 1 .. n
  <2>1. ops = [k \in 1 .. n |-> ops[k]]
    BY <1>2
  <2> QED BY <2>1, ListMade
<1>8. Formed(r)
  BY <1>5, <1>6, <1>7 DEF Formed
<1>9. ASSUME NEW y \in RegsIn(r) PROVE \E x \in RegsIn(i) : y = f[x]
  <2>1. PICK k \in 1 .. n : y \in ToSet(ops[k].regs)
    BY <1>5, <1>7 DEF RegsIn
  <2>2. PICK x \in ToSet(i.ops[k].regs) : y = f[x]
    BY <1>6, <2>1
  <2>3. x \in RegsIn(i)
    BY <1>1 DEF RegsIn
  <2> QED BY <2>2, <2>3
<1> QED BY <1>3, <1>8, <1>9

\* What is asked of an operand is asked of the register it is replaced by.
LEMMA WithColorsIs ==
    ASSUME NEW i, Formed(i)
    PROVE  /\ Formed(WithColors(i))
           /\ \A r \in RegsIn(WithColors(i)) : \E x \in RegsIn(i) : r = Final(x)
<1>1. PICK f : f = [r \in RegsIn(i) |-> Final(r)]
  OBVIOUS
<1>2. WithColors(i) = RenamedBy(i, f)
  <2>1. \A k \in DOMAIN i.ops : \A j \in DOMAIN i.ops[k].regs : Final(i.ops[k].regs[j]) = f[i.ops[k].regs[j]]
    BY <1>1 DEF RegsIn, ToSet
  <2>2. \A k \in DOMAIN i.ops : [j \in DOMAIN i.ops[k].regs |-> Final(i.ops[k].regs[j])]
                                = [j \in DOMAIN i.ops[k].regs |-> f[i.ops[k].regs[j]]]
    BY <2>1
  <2>3. [k \in DOMAIN i.ops |-> [i.ops[k] EXCEPT !.regs = [j \in DOMAIN i.ops[k].regs |-> Final(i.ops[k].regs[j])]]]
        = [k \in DOMAIN i.ops |-> [i.ops[k] EXCEPT !.regs = [j \in DOMAIN i.ops[k].regs |-> f[i.ops[k].regs[j]]]]]
    BY <2>2
  <2> QED BY <2>3 DEF WithColors, Renamed, RenamedBy
<1>3. \A x \in RegsIn(i) : f[x] = Final(x)
  BY <1>1
<1> QED BY <1>2, <1>3, RenamedIs

\* With colors for all of the graph, every register of the code gets one, and
\* what the callee saves has been recorded.
ReadyToRecolor == stage = "select" /\ stack = << >> /\ spilled = {}

\* Every register of the code ends as a hardware register: one that was in the
\* function before, or one the prologue knows of.
LEMMA FinalIs ==
    ASSUME AllocatorInv, ReadyToRecolor, NEW r \in RegsOf(code)
    PROVE  /\ ~IsVirtual(Final(r))
           /\ Final(r) \in RegsOf(prog.code) \/ SameNumber(Final(r)) \subseteq physUses
<1>1. CodeInv /\ GraphInv /\ LeaderInv /\ MergedInv /\ SelectInv /\ stack = << >> /\ spilled = {}
  BY DEF AllocatorInv, Working, HasGraph, ReadyToRecolor
<1>2. CASE ~IsVirtual(r)
  BY <1>1, <1>2 DEF CodeInv, Final
<1>3. CASE IsVirtual(r)
  <2>1. r \in StartNodes
    BY <1>1, KnownIs
  <2>2. PICK leader : leader = Leader(r)
    OBVIOUS
  <2>3. leader \in nodes /\ (r \in nodes => leader = r)
    BY <1>1, <2>1, <2>2, LeaderInGraph
  <2>4. CASE ~IsVirtual(leader)
    <3>1. Final(r) = leader
      BY <1>3, <2>2, <2>4 DEF Final
    <3>2. r \in DOMAIN coalesced
      BY <1>1, <1>3, <2>1, <2>3, <2>4 DEF GraphInv
    <3>3. SameNumber(leader) \subseteq physUses
      BY <1>1, <2>2, <3>2 DEF MergedInv
    <3> QED BY <2>4, <3>1, <3>3
  <2>5. CASE IsVirtual(leader)
    <3>1. leader \in VirtualNodes
      BY <2>3, <2>5 DEF VirtualNodes
    <3>2. ToSet(<< >>) = {}
      BY ListOne
    <3>3. leader \in DOMAIN allocated
      BY <1>1, <3>1, <3>2 DEF SelectInv
    <3>4. Final(r) = allocated[leader]
      BY <1>3, <2>2, <2>5, <3>3 DEF Final
    <3> QED BY <1>1, <3>3, <3>4 DEF SelectInv
  <2> QED BY <2>4, <2>5
<1> QED BY <1>2, <1>3

\* Colors are written into the code.
LEMMA RewriteColorsInv == AllocatorInv /\ RewriteColors => AllocatorInv'
<1> SUFFICES ASSUME AllocatorInv, RewriteColors PROVE AllocatorInv'
  OBVIOUS
<1>1. /\ ReadyToRecolor /\ stage' = "done" /\ prog' = prog /\ physUses' = physUses
      /\ code' = [b \in DOMAIN code |-> FlattenSeq([k \in DOMAIN code[b] |-> Recolored(code[b][k])])]
  BY DEF RewriteColors, ReadyToRecolor
<1>2. CodeInv /\ FormedCode(code)
  BY <1>1 DEF AllocatorInv, Working, CodeInv, ReadyToRecolor
<1>3. PICK n \in Nat : DOMAIN code = 1 .. n
  BY <1>2, ListIs DEF FormedCode, AreLists
<1>4. ASSUME NEW b \in 1 .. n
      PROVE  IsList(code'[b]) /\ \A i \in ToSet(code'[b]) : \E k \in DOMAIN code[b] : i = WithColors(code[b][k])
  <2>1. PICK m \in Nat : DOMAIN code[b] = 1 .. m
    BY <1>2, <1>3, ListIs DEF FormedCode, AreLists
  <2>2. PICK lists : lists = [k \in 1 .. m |-> Recolored(code[b][k])]
    OBVIOUS
  <2>3. lists = [k \in 1 .. m |-> lists[k]]
    BY <2>2
  <2>4. ASSUME NEW k \in 1 .. m PROVE IsList(lists[k]) /\ ToSet(lists[k]) \subseteq {WithColors(code[b][k])}
    <3>1. PICK i : i = WithColors(code[b][k])
      OBVIOUS
    <3>2. lists[k] = << >> \/ lists[k] = <<i>>
      BY <2>2, <3>1 DEF Recolored
    <3>3. IsList(<< >>) /\ ToSet(<< >>) = {} /\ IsList(<<i>>) /\ ToSet(<<i>>) = {i}
      BY ListOne
    <3> QED BY <3>1, <3>2, <3>3
  <2>5. IsList(FlattenSeq(lists)) /\ ToSet(FlattenSeq(lists)) = UNION {ToSet(lists[k]) : k \in 1 .. m}
    BY <2>3, <2>4, FlattenMade
  <2>6. code'[b] = FlattenSeq(lists)
    BY <1>1, <1>3, <2>1, <2>2
  <2>7. ASSUME NEW i \in ToSet(code'[b]) PROVE \E k \in DOMAIN code[b] : i = WithColors(code[b][k])
    <3>1. PICK k \in 1 .. m : i \in ToSet(lists[k])
      BY <2>5, <2>6
    <3> QED BY <2>1, <2>4, <3>1
  <2> QED BY <2>5, <2>6, <2>7
<1>5. AreLists(code')
  <2>1. code' = [b \in 1 .. n |-> code'[b]]
    BY <1>1, <1>3
  <2>2. IsList(code') /\ DOMAIN code' = 1 .. n
    BY <2>1, ListMade
  <2> QED BY <1>4, <2>2 DEF AreLists
<1>6. DOMAIN code' = 1 .. n
  BY <1>1, <1>3
<1>7. ASSUME NEW b \in DOMAIN code', NEW k \in DOMAIN code'[b]
      PROVE  \E j \in DOMAIN code[b] : code'[b][k] = WithColors(code[b][j])
  <2>1. code'[b][k] \in ToSet(code'[b])
    BY DEF ToSet
  <2> QED BY <1>4, <1>6, <2>1
<1>8. \A b \in DOMAIN code : \A k \in DOMAIN code[b] : Formed(WithColors(code[b][k]))
  BY <1>2, WithColorsIs DEF FormedCode
<1>9. FormedCode(code')
  BY <1>3, <1>5, <1>6, <1>7, <1>8 DEF FormedCode
<1>10. ASSUME NEW r \in RegsOf(code') PROVE \E x \in RegsOf(code) : r = Final(x)
  <2>1. PICK b \in DOMAIN code' : \E k \in DOMAIN code'[b] : r \in RegsIn(code'[b][k])
    BY <1>9, CodeRegs
  <2>2. PICK k \in DOMAIN code'[b] : r \in RegsIn(code'[b][k])
    BY <2>1
  <2>3. PICK j \in DOMAIN code[b] : code'[b][k] = WithColors(code[b][j])
    BY <1>7
  <2>4. Formed(code[b][j]) /\ RegsIn(code[b][j]) \subseteq RegsOf(code)
    BY <1>2, <1>3, <1>6, CodeRegs DEF FormedCode
  <2>5. PICK x \in RegsIn(code[b][j]) : r = Final(x)
    BY <2>2, <2>3, <2>4, WithColorsIs
  <2> QED BY <2>4, <2>5
<1>11. \A r \in RegsOf(code') : ~IsVirtual(r) /\ (r \in RegsOf(prog.code) \/ SameNumber(r) \subseteq physUses)
  BY <1>1, <1>10, FinalIs
<1>12. NoVirtualRegisterLeft'
  BY <1>11 DEF NoVirtualRegisterLeft
<1>13. CalleeSavedRecorded'
  <2> SUFFICES ASSUME NEW r \in RegsOf(code') \ RegsOf(prog.code), NEW s \in CalleeSaved, r[2] = s[2]
               PROVE  s \in physUses
    BY <1>1 DEF CalleeSavedRecorded
  <2>1. ~IsVirtual(r) /\ SameNumber(r) \subseteq physUses
    BY <1>11
  <2> QED BY <2>1 DEF SameNumber
<1> QED BY <1>1, <1>12, <1>13 DEF AllocatorInv, Working, HasGraph

\* Every spilled register that an instruction names has a first touch.
LEMMA FirstTouchesAre ==
    ASSUME NEW i, Formed(i)
    PROVE  /\ IsList(FirstTouches(i))
           /\ \A t \in ToSet(FirstTouches(i)) : t.reg \in RegsIn(i) \cap spilled
           /\ \A r \in RegsIn(i) \cap spilled : \E k \in DOMAIN FirstTouches(i) : FirstTouches(i)[k].reg = r
<1>1. PICK n \in Nat : n = Len(i.ops) /\ DOMAIN i.ops = 1 .. n
  BY ListIs DEF Formed
<1>2. PICK named : named = [k \in 1 .. n |-> [j \in DOMAIN i.ops[k].regs |->
                               [reg |-> i.ops[k].regs[j], acc |-> i.ops[k].acc]]]
  OBVIOUS
<1>3. ASSUME NEW k \in 1 .. n
      PROVE  /\ IsList(named[k])
             /\ \A t \in ToSet(named[k]) : t.reg \in ToSet(i.ops[k].regs)
             /\ \A r \in ToSet(i.ops[k].regs) : \E t \in ToSet(named[k]) : t.reg = r
  <2>1. PICK rs : rs = i.ops[k].regs
    OBVIOUS
  <2>2. PICK m \in Nat : DOMAIN rs = 1 .. m
    BY <1>1, <2>1, ListIs DEF Formed, WellMade
  <2>3. PICK s : s = named[k]
    OBVIOUS
  <2>4. s = [j \in 1 .. m |-> [reg |-> rs[j], acc |-> i.ops[k].acc]]
    BY <1>2, <2>1, <2>2, <2>3
  <2>5. s = [j \in 1 .. m |-> s[j]] /\ \A j \in 1 .. m : s[j].reg = rs[j]
    BY <2>4
  <2>6. IsList(s) /\ DOMAIN s = 1 .. m
    BY <2>5, ListMade
  <2>7. \A t \in ToSet(s) : t.reg \in ToSet(rs)
    BY <2>2, <2>5, <2>6 DEF ToSet
  <2>8. \A r \in ToSet(rs) : \E t \in ToSet(s) : t.reg = r
    BY <2>2, <2>5, <2>6 DEF ToSet
  <2> QED BY <2>1, <2>3, <2>6, <2>7, <2>8
<1>4. PICK all : all = FlattenSeq(named)
  OBVIOUS
<1>5. IsList(all) /\ ToSet(all) = UNION {ToSet(named[k]) : k \in 1 .. n}
  <2>1. named = [k \in 1 .. n |-> named[k]]
    BY <1>2
  <2> QED BY <1>3, <1>4, <2>1, FlattenMade
<1>6. PICK m \in Nat : DOMAIN all = 1 .. m
  BY <1>5, ListIs
<1> DEFINE IsFirst(k) == all[k].reg \in spilled /\ \A j \in 1 .. k - 1 : all[j].reg # all[k].reg
<1>7. PICK firsts : firsts = [k \in 1 .. m |-> IF IsFirst(k) THEN <<all[k]>> ELSE << >>]
  OBVIOUS
<1>8. FirstTouches(i) = FlattenSeq(firsts)
  BY <1>1, <1>2, <1>4, <1>6, <1>7 DEF FirstTouches
<1>9. \A k \in 1 .. m : firsts[k] = IF IsFirst(k) THEN <<all[k]>> ELSE << >>
  BY <1>7
<1>10. ASSUME NEW k \in 1 .. m
       PROVE  /\ IsList(firsts[k])
              /\ IsFirst(k) => ToSet(firsts[k]) = {all[k]}
              /\ ~IsFirst(k) => ToSet(firsts[k]) = {}
  <2> HIDE DEF IsFirst
  <2>1. PICK x : x = all[k]
    OBVIOUS
  <2>2. IsList(<<x>>) /\ ToSet(<<x>>) = {x} /\ IsList(<< >>) /\ ToSet(<< >>) = {}
    BY ListOne
  <2> QED BY <1>9, <2>1, <2>2
<1>11. PICK touches : touches = FirstTouches(i)
  OBVIOUS
<1>12. IsList(touches) /\ ToSet(touches) = UNION {ToSet(firsts[k]) : k \in 1 .. m}
  <2>1. firsts = [k \in 1 .. m |-> firsts[k]]
    BY <1>7
  <2>2. \A k \in 1 .. m : IsList(firsts[k])
    BY <1>10
  <2> QED BY <1>8, <1>11, <2>1, <2>2, FlattenMade
<1>13. ASSUME NEW t \in ToSet(touches) PROVE t.reg \in RegsIn(i) \cap spilled
  <2>1. PICK k \in 1 .. m : t \in ToSet(firsts[k])
    BY <1>12
  <2>2. t = all[k] /\ IsFirst(k)
    <3> HIDE DEF IsFirst
    <3> QED BY <1>10, <2>1
  <2>3. t \in ToSet(all)
    BY <1>6, <2>2 DEF ToSet
  <2>4. PICK j \in 1 .. n : t \in ToSet(named[j])
    BY <1>5, <2>3
  <2>5. t.reg \in ToSet(i.ops[j].regs)
    BY <1>3, <2>4
  <2>6. t.reg \in RegsIn(i)
    BY <1>1, <2>5 DEF RegsIn
  <2> QED BY <2>2, <2>6
<1>14. ASSUME NEW r \in RegsIn(i) \cap spilled PROVE \E k \in DOMAIN touches : touches[k].reg = r
  <2>1. PICK j \in 1 .. n : r \in ToSet(i.ops[j].regs)
    BY <1>1 DEF RegsIn
  <2>2. PICK t \in ToSet(named[j]) : t.reg = r
    BY <1>3, <2>1
  <2>3. t \in ToSet(all)
    BY <1>5, <2>2
  <2>4. PICK k0 \in 1 .. m : all[k0] = t
    BY <1>6, <2>3 DEF ToSet
  <2>5. PICK places : places = {k \in 1 .. m : all[k].reg = r}
    OBVIOUS
  <2>6. places \in SUBSET Nat /\ places # {}
    BY <2>2, <2>4, <2>5
  <2>7. PICK k \in places : \A q \in places : ~(q < k)
    BY <2>6, LeastNumber
  <2>8. k \in 1 .. m /\ all[k].reg = r
    BY <2>5
  <2>9. ASSUME NEW q \in 1 .. k - 1 PROVE all[q].reg # all[k].reg
    <3>1. q \in 1 .. m /\ q < k
      BY <2>8
    <3> QED BY <2>5, <2>7, <2>8, <3>1
  <2>10. IsFirst(k)
    BY <2>8, <2>9
  <2>11. all[k] \in ToSet(touches)
    <3> HIDE DEF IsFirst
    <3>1. all[k] \in ToSet(firsts[k])
      BY <1>10, <2>8, <2>10
    <3> QED BY <1>12, <2>8, <3>1
  <2>12. PICK q \in DOMAIN touches : touches[q] = all[k]
    BY <2>11 DEF ToSet
  <2> QED BY <2>8, <2>12
<1> QED BY <1>11, <1>12, <1>13, <1>14

\* A reload and a store.
LEMMA MovesFormed ==
    ASSUME NEW r, NEW s
    PROVE  /\ Formed(Move(Reg(r, "W"), Slot(s))) /\ RegsIn(Move(Reg(r, "W"), Slot(s))) = {r}
           /\ Formed(Move(Slot(s), Reg(r, "R"))) /\ RegsIn(Move(Slot(s), Reg(r, "R"))) = {r}
<1>1. ASSUME NEW acc \in {"R", "W", "RW"} PROVE WellMade(Reg(r, acc)) /\ ToSet(Reg(r, acc).regs) = {r}
  BY ListOne DEF WellMade, Reg
<1>2. WellMade(Slot(s)) /\ ToSet(Slot(s).regs) = {}
  BY ListOne DEF WellMade, Slot
<1>3. ASSUME NEW a, NEW b, WellMade(a), WellMade(b)
      PROVE  Formed(Move(a, b)) /\ RegsIn(Move(a, b)) = ToSet(a.regs) \cup ToSet(b.regs)
  <2>1. PICK ops : ops = <<a, b>>
    OBVIOUS
  <2>2. ops = [k \in 1 .. 2 |-> ops[k]] /\ ops[1] = a /\ ops[2] = b
    BY <2>1
  <2>3. IsList(ops) /\ DOMAIN ops = 1 .. 2
    BY <2>2, ListMade
  <2>4. \A k \in 1 .. 2 : k = 1 \/ k = 2
    OBVIOUS
  <2>5. 1 \in 1 .. 2 /\ 2 \in 1 .. 2
    OBVIOUS
  <2>6. Move(a, b).ops = ops /\ "ops" \in DOMAIN Move(a, b)
    BY <2>1 DEF Move, Instr
  <2>7. \A k \in DOMAIN ops : WellMade(ops[k])
    BY <1>3, <2>2, <2>3, <2>4
  <2>8. UNION {ToSet(ops[k].regs) : k \in DOMAIN ops} = ToSet(a.regs) \cup ToSet(b.regs)
    BY <2>2, <2>3, <2>4, <2>5
  <2> QED BY <2>3, <2>6, <2>7, <2>8 DEF Formed, RegsIn
<1>4. PICK w, x, y : w = Reg(r, "W") /\ x = Reg(r, "R") /\ y = Slot(s)
  OBVIOUS
<1>5. WellMade(w) /\ WellMade(x) /\ WellMade(y) /\ ToSet(w.regs) = {r} /\ ToSet(x.regs) = {r} /\ ToSet(y.regs) = {}
  BY <1>1, <1>2, <1>4
<1> QED BY <1>3, <1>4, <1>5

\* A list of instructions that name only some registers.
Names(s, S) == IsList(s) /\ \A x \in ToSet(s) : Formed(x) /\ RegsIn(x) \subseteq S

\* Two such lists after one another.
LEMMA NamesConcat ==
    ASSUME NEW S, NEW s, NEW t, Names(s, S), Names(t, S)
    PROVE  Names(s \o t, S)
<1>1. IsList(s \o t) /\ ToSet(s \o t) = ToSet(s) \cup ToSet(t)
  BY ListConcat DEF Names
<1> QED BY <1>1 DEF Names

\* A list of one instruction, and of none.
LEMMA NamesOne ==
    ASSUME NEW S, NEW x, Formed(x), RegsIn(x) \subseteq S
    PROVE  Names(<<x>>, S) /\ Names(<< >>, S)
<1>1. IsList(<<x>>) /\ ToSet(<<x>>) = {x} /\ IsList(<< >>) /\ ToSet(<< >>) = {}
  BY ListOne
<1> QED BY <1>1 DEF Names

\* A list made of such lists.
LEMMA NamesFlatten ==
    ASSUME NEW S, NEW n \in Nat, NEW s, s = [k \in 1 .. n |-> s[k]], \A k \in 1 .. n : Names(s[k], S)
    PROVE  Names(FlattenSeq(s), S)
<1>1. \A k \in 1 .. n : IsList(s[k])
  BY DEF Names
<1>2. IsList(FlattenSeq(s)) /\ ToSet(FlattenSeq(s)) = UNION {ToSet(s[k]) : k \in 1 .. n}
  BY <1>1, FlattenMade
<1> QED BY <1>2 DEF Names

\* The elements of a list in the other direction.
LEMMA NamesReverse ==
    ASSUME NEW n \in Nat, NEW s, s = [k \in 1 .. n |-> s[k]]
    PROVE  /\ Reverse(s) = [k \in 1 .. n |-> Reverse(s)[k]]
           /\ \A k \in 1 .. n : (n - k) + 1 \in 1 .. n /\ Reverse(s)[k] = s[(n - k) + 1]
<1>1. IsList(s) /\ Len(s) = n
  BY ListMade
<1>2. PICK r : r = Reverse(s)
  OBVIOUS
<1>3. IsList(r) /\ Len(r) = n /\ \A k \in 1 .. n : r[k] = s[(n - k) + 1]
  BY <1>1, <1>2, ReverseMembers
<1>4. r = [k \in 1 .. n |-> r[k]]
  BY <1>3, ListIs
<1>5. \A k \in 1 .. n : (n - k) + 1 \in 1 .. n
  OBVIOUS
<1> QED BY <1>2, <1>3, <1>4, <1>5

\* The instruction and its spill code name the temporaries in place of the
\* spilled registers.
NewNames(i, first) == (RegsIn(i) \ spilled) \cup {V((first - 1) + k) : k \in DOMAIN FirstTouches(i)}

\* rewriteSpilledRegisters leaves no spilled register in an instruction.
LEMMA RewrittenIs ==
    ASSUME NEW i, Formed(i), NEW first \in Nat
    PROVE  Names(Rewritten(i, first), NewNames(i, first))
<1> DEFINE S == NewNames(i, first)
           Temp(k) == V(first - 1 + k)
<1>1. PICK touches : touches = FirstTouches(i)
  OBVIOUS
<1>2. PICK n \in Nat : DOMAIN touches = 1 .. n
  BY <1>1, FirstTouchesAre, ListIs
<1> DEFINE InPlace(r) == IF r \in spilled THEN Temp(CHOOSE k \in DOMAIN touches : touches[k].reg = r) ELSE r
           Reload(k) == IF touches[k].acc = "W" THEN << >> ELSE <<Move(Reg(Temp(k), "W"), Slot(touches[k].reg))>>
           Store(k) == IF touches[k].acc = "R" THEN << >> ELSE <<Move(Slot(touches[k].reg), Reg(Temp(k), "R"))>>
<1>3. \A k \in 1 .. n : Temp(k) \in S
  BY <1>1, <1>2 DEF NewNames
<1>4. PICK reloads, stores : /\ reloads = [k \in 1 .. n |-> Reload(k)]
                             /\ stores = [k \in 1 .. n |-> Store(k)]
  OBVIOUS
<1>5. PICK f : f = [r \in RegsIn(i) |-> InPlace(r)]
  OBVIOUS
<1>6. Renamed(i, InPlace) = RenamedBy(i, f)
  <2>1. \A k \in DOMAIN i.ops : \A j \in DOMAIN i.ops[k].regs : InPlace(i.ops[k].regs[j]) = f[i.ops[k].regs[j]]
    <3> HIDE DEF InPlace
    <3> QED BY <1>5 DEF RegsIn, ToSet
  <2> HIDE DEF InPlace
  <2>2. \A k \in DOMAIN i.ops : [j \in DOMAIN i.ops[k].regs |-> InPlace(i.ops[k].regs[j])]
                                = [j \in DOMAIN i.ops[k].regs |-> f[i.ops[k].regs[j]]]
    BY <2>1
  <2>3. [k \in DOMAIN i.ops |-> [i.ops[k] EXCEPT !.regs = [j \in DOMAIN i.ops[k].regs |-> InPlace(i.ops[k].regs[j])]]]
        = [k \in DOMAIN i.ops |-> [i.ops[k] EXCEPT !.regs = [j \in DOMAIN i.ops[k].regs |-> f[i.ops[k].regs[j]]]]]
    BY <2>2
  <2> QED BY <2>3 DEF Renamed, RenamedBy
<1>7. PICK middle : middle = RenamedBy(i, f)
  OBVIOUS
<1>8. Rewritten(i, first) = (FlattenSeq(reloads) \o <<middle>>) \o FlattenSeq(Reverse(stores))
  <2>1. Rewritten(i, first)
          = Surrounded(FlattenSeq([k \in DOMAIN touches |-> Reload(k)]), Renamed(i, InPlace),
                       FlattenSeq(Reverse([k \in DOMAIN touches |-> Store(k)])))
    BY <1>1 DEF Rewritten
  <2>2. [k \in DOMAIN touches |-> Reload(k)] = reloads /\ [k \in DOMAIN touches |-> Store(k)] = stores
    BY <1>2, <1>4
  <2> HIDE DEF Reload, Store, InPlace
  <2> QED BY <1>6, <1>7, <2>1, <2>2 DEF Surrounded
<1>9. \A r \in RegsIn(i) : f[r] \in S
  <2> SUFFICES ASSUME NEW r \in RegsIn(i) PROVE f[r] \in S
    OBVIOUS
  <2>1. CASE r \in spilled
    <3>1. \E k \in DOMAIN touches : touches[k].reg = r
      BY <1>1, <2>1, FirstTouchesAre
    <3>2. PICK k : k = CHOOSE q \in DOMAIN touches : touches[q].reg = r
      OBVIOUS
    <3>3. k \in 1 .. n
      BY <1>2, <3>1, <3>2
    <3>4. f[r] = Temp(k)
      BY <1>5, <2>1, <3>2
    <3> HIDE DEF S, Temp
    <3> QED BY <1>3, <3>3, <3>4
  <2>2. CASE r \notin spilled
    BY <1>5, <2>2 DEF NewNames
  <2> QED BY <2>1, <2>2
<1>10. Formed(middle) /\ RegsIn(middle) \subseteq S
  <2>1. Formed(middle) /\ \A r \in RegsIn(middle) : \E x \in RegsIn(i) : r = f[x]
    BY <1>7, RenamedIs
  <2> HIDE DEF S
  <2> QED BY <1>9, <2>1
<1>11. Names(<<middle>>, S) /\ Names(<< >>, S)
  <2> HIDE DEF S
  <2> QED BY <1>10, NamesOne
<1>12. ASSUME NEW k \in 1 .. n PROVE Names(reloads[k], S) /\ Names(stores[k], S)
  <2>1. PICK t, u : t = Temp(k) /\ u = touches[k].reg
    OBVIOUS
  <2>2. t \in S
    BY <1>3, <2>1
  <2>3. reloads[k] = << >> \/ reloads[k] = <<Move(Reg(t, "W"), Slot(u))>>
    BY <1>4, <2>1
  <2>4. stores[k] = << >> \/ stores[k] = <<Move(Slot(u), Reg(t, "R"))>>
    BY <1>4, <2>1
  <2> HIDE DEF S
  <2>5. PICK a, b : a = Move(Reg(t, "W"), Slot(u)) /\ b = Move(Slot(u), Reg(t, "R"))
    OBVIOUS
  <2>6. Formed(a) /\ RegsIn(a) \subseteq S /\ Formed(b) /\ RegsIn(b) \subseteq S
    BY <2>2, <2>5, MovesFormed
  <2>7. Names(<<a>>, S) /\ Names(<<b>>, S)
    BY <2>6, NamesOne
  <2> QED BY <1>11, <2>3, <2>4, <2>5, <2>7
<1>13. reloads = [k \in 1 .. n |-> reloads[k]] /\ stores = [k \in 1 .. n |-> stores[k]]
  BY <1>4
<1> HIDE DEF S, Temp, Reload, Store, InPlace
<1>14. Names(FlattenSeq(reloads), S)
  BY <1>12, <1>13, NamesFlatten
<1>15. PICK back : back = Reverse(stores)
  OBVIOUS
<1>16. back = [k \in 1 .. n |-> back[k]] /\ \A k \in 1 .. n : (n - k) + 1 \in 1 .. n /\ back[k] = stores[(n - k) + 1]
  BY <1>13, <1>15, NamesReverse
<1>17. \A k \in 1 .. n : Names(back[k], S)
  BY <1>12, <1>16
<1>18. Names(FlattenSeq(back), S)
  BY <1>16, <1>17, NamesFlatten
<1>19. PICK a, b, c : a = FlattenSeq(reloads) /\ b = <<middle>> /\ c = FlattenSeq(back)
  OBVIOUS
<1>20. Names(a \o b, S)
  BY <1>11, <1>14, <1>19, NamesConcat
<1>21. PICK d : d = a \o b
  OBVIOUS
<1>22. Names(d \o c, S)
  BY <1>18, <1>19, <1>20, <1>21, NamesConcat
<1> QED BY <1>8, <1>15, <1>19, <1>21, <1>22 DEF S

\* The registers rewritten code may name: virtual ones with a class, and others
\* that were there before the pass.
Known(m) == {r \in RegsOf(prog.code) : ~IsVirtual(r)} \cup {V(n) : n \in 1 .. m}
HasClasses(classes) == classes \in Seq(STRING \ {"v"}) /\ Len(class) <= Len(classes)

RewritingBlock(acc) ==
    HasClasses(acc.classes) /\ Names(acc.out, Known(Len(acc.classes)))
RewritingCode(acc, n) ==
    /\ HasClasses(acc.classes)
    /\ IsList(acc.code) /\ Len(acc.code) = n
    /\ \A c \in ToSet(acc.code) : Names(c, Known(Len(acc.classes)))

\* More registers are known when more have been made.
LEMMA KnownGrows ==
    ASSUME NEW m \in Nat, NEW n \in Nat, m <= n
    PROVE  Known(m) \subseteq Known(n)
<1>1. \A k \in 1 .. m : k \in 1 .. n
  OBVIOUS
<1> QED BY <1>1 DEF Known

\* What names only some registers names only those of a larger set.
LEMMA NamesGrow ==
    ASSUME NEW S, NEW T, S \subseteq T, NEW s, Names(s, S)
    PROVE  Names(s, T)
BY DEF Names

\* One instruction is rewritten.
LEMMA RewriteInstructionIs ==
    ASSUME CodeInv, GraphInv, spilled \subseteq VirtualNodes,
           NEW acc, RewritingBlock(acc), NEW i, Formed(i), RegsIn(i) \subseteq RegsOf(code)
    PROVE  RewritingBlock(RewriteInstruction(acc, i)) /\ Len(acc.classes) <= Len(RewriteInstruction(acc, i).classes)
<1>1. PICK touches : touches = FirstTouches(i)
  OBVIOUS
<1>2. PICK n \in Nat : n = Len(touches) /\ DOMAIN touches = 1 .. n
  BY <1>1, FirstTouchesAre, ListIs
<1>3. PICK m \in Nat : m = Len(acc.classes)
  BY DEF RewritingBlock, HasClasses
<1>4. acc.classes \in Seq(STRING \ {"v"}) /\ Len(class) <= m
  BY <1>3 DEF RewritingBlock, HasClasses
<1>5. PICK new : new = [k \in 1 .. n |-> ClassOf(touches[k].reg)]
  OBVIOUS
<1>6. ASSUME NEW k \in 1 .. n PROVE ClassOf(touches[k].reg) \in STRING \ {"v"}
  <2>1. touches[k] \in ToSet(touches)
    BY <1>2 DEF ToSet
  <2>2. PICK r : r = touches[k].reg
    OBVIOUS
  <2>3. r \in VirtualNodes
    BY <1>1, <2>1, <2>2, FirstTouchesAre
  <2>4. r \in StartNodes /\ IsVirtual(r)
    BY <2>3 DEF VirtualNodes, GraphInv
  <2>5. r[2] \in 1 .. Len(class)
    BY <2>4, KnownIs
  <2>6. class[r[2]] \in STRING \ {"v"}
    BY <2>5 DEF CodeInv
  <2> QED BY <2>2, <2>4, <2>6 DEF ClassOf
<1>7. new \in Seq(STRING \ {"v"}) /\ Len(new) = n
  <2>1. new \in [1 .. n -> STRING \ {"v"}]
    BY <1>5, <1>6
  <2> QED BY <2>1
<1>8. PICK done : done = RewriteInstruction(acc, i)
  OBVIOUS
<1>9. PICK more : more = Rewritten(i, m + 1)
  OBVIOUS
<1>10. done.out = acc.out \o more /\ done.classes = acc.classes \o new
  BY <1>1, <1>2, <1>3, <1>5, <1>8, <1>9 DEF RewriteInstruction
<1>11. done.classes \in Seq(STRING \ {"v"}) /\ Len(done.classes) = m + n
  <2>1. PICK S, old : S = STRING \ {"v"} /\ old = acc.classes
    OBVIOUS
  <2>2. old \in Seq(S) /\ Len(old) = m /\ new \in Seq(S) /\ Len(new) = n
    BY <1>3, <1>4, <1>7, <2>1
  <2>3. old \o new \in Seq(S) /\ Len(old \o new) = m + n
    BY <2>2
  <2> QED BY <1>10, <2>1, <2>3
<1>12. m <= m + n /\ m + n \in Nat /\ Len(class) <= m + n
  <2>1. Len(class) \in Nat
    BY DEF CodeInv
  <2> QED BY <1>4, <2>1
<1>13. NewNames(i, m + 1) \subseteq Known(m + n)
  <2> SUFFICES ASSUME NEW r \in NewNames(i, m + 1) PROVE r \in Known(m + n)
    OBVIOUS
  <2>1. CASE r \in RegsIn(i)
    <3>1. r \in RegsOf(code)
      BY <2>1
    <3>2. CASE IsVirtual(r)
      <4>1. r = V(r[2]) /\ r[2] \in 1 .. Len(class)
        BY <3>1, <3>2 DEF CodeInv
      <4>2. Len(class) \in Nat
        BY DEF CodeInv
      <4>3. r[2] \in 1 .. m + n
        BY <1>12, <4>1, <4>2
      <4> QED BY <4>1, <4>3 DEF Known
    <3>3. CASE ~IsVirtual(r)
      BY <3>1, <3>3 DEF CodeInv, Known
    <3> QED BY <3>2, <3>3
  <2>2. CASE r \in {V((m + 1 - 1) + k) : k \in 1 .. n}
    <3>1. PICK k \in 1 .. n : r = V((m + 1 - 1) + k)
      BY <2>2
    <3>2. (m + 1 - 1) + k \in 1 .. m + n
      OBVIOUS
    <3> QED BY <3>1, <3>2 DEF Known
  <2> QED BY <1>1, <1>2, <2>1, <2>2 DEF NewNames
<1>14. Names(more, Known(m + n))
  <2>1. m + 1 \in Nat
    OBVIOUS
  <2>2. Names(more, NewNames(i, m + 1))
    BY <1>9, <2>1, RewrittenIs
  <2> QED BY <1>13, <2>2, NamesGrow
<1>15. Names(acc.out, Known(m + n))
  <2>1. Names(acc.out, Known(m)) /\ Known(m) \subseteq Known(m + n)
    BY <1>3, <1>12, KnownGrows DEF RewritingBlock
  <2> QED BY <2>1, NamesGrow
<1>16. Names(done.out, Known(m + n))
  <2>1. PICK S : S = Known(m + n)
    OBVIOUS
  <2>2. PICK out : out = acc.out
    OBVIOUS
  <2>3. Names(out \o more, S)
    BY <1>14, <1>15, <2>1, <2>2, NamesConcat
  <2> QED BY <1>10, <2>1, <2>2, <2>3
<1>17. RewritingBlock(done)
  BY <1>11, <1>12, <1>16 DEF RewritingBlock, HasClasses
<1> QED BY <1>3, <1>8, <1>11, <1>12, <1>17

\* A block is rewritten.
LEMMA RewriteBlockIs ==
    ASSUME CodeInv, GraphInv, spilled \subseteq VirtualNodes, NEW n \in Nat,
           NEW acc, RewritingCode(acc, n), NEW b \in DOMAIN code
    PROVE  RewritingCode(RewriteBlock(acc, code[b]), n + 1)
<1>1. PICK block : block = code[b]
  OBVIOUS
<1>2. /\ IsList(block)
      /\ \A k \in DOMAIN block : Formed(block[k]) /\ RegsIn(block[k]) \subseteq RegsOf(code)
  BY <1>1, CodeRegs DEF CodeInv, FormedCode, AreLists
<1>3. PICK m \in Nat : DOMAIN block = 1 .. m
  BY <1>2, ListIs
<1>4. PICK base : base = [out |-> << >>, classes |-> acc.classes]
  OBVIOUS
<1>5. base.out = << >> /\ base.classes = acc.classes
  BY <1>4
<1>6. RewritingBlock(base)
  <2>1. IsList(<< >>) /\ ToSet(<< >>) = {}
    BY ListOne
  <2> QED BY <1>5, <2>1 DEF RewritingBlock, RewritingCode, Names
<1>7. PICK p : RewriteInstructionSteps(p, block, m, base)
  BY <1>3, RewriteInstructionWalk
<1>8. /\ p[0] = base /\ p[m] = RewrittenBlock(base, block)
      /\ \A k \in 1 .. m : p[k] = RewriteInstruction(p[k - 1], block[k])
  BY <1>7 DEF RewriteInstructionSteps
<1> DEFINE Good(one) == RewritingBlock(one) /\ Len(base.classes) <= Len(one.classes)
           T == {k \in Nat : k <= m => Good(p[k])}
<1>9. Len(base.classes) \in Nat
  BY <1>6 DEF RewritingBlock, HasClasses
<1>10. 0 \in T
  BY <1>6, <1>8, <1>9
<1>11. ASSUME NEW k \in Nat, k \in T PROVE k + 1 \in T
  <2> SUFFICES ASSUME k + 1 <= m PROVE Good(p[k + 1])
    OBVIOUS
  <2>1. k <= m /\ k + 1 \in 1 .. m /\ (k + 1) - 1 = k
    OBVIOUS
  <2>2. Good(p[k])
    BY <1>11, <2>1
  <2>3. PICK i, one : i = block[k + 1] /\ one = p[k]
    OBVIOUS
  <2>4. Formed(i) /\ RegsIn(i) \subseteq RegsOf(code)
    BY <1>2, <1>3, <2>1, <2>3
  <2>5. p[k + 1] = RewriteInstruction(one, i)
    BY <1>8, <2>1, <2>3
  <2>6. RewritingBlock(one) /\ Len(base.classes) <= Len(one.classes)
    BY <2>2, <2>3
  <2>7. RewritingBlock(RewriteInstruction(one, i)) /\ Len(one.classes) <= Len(RewriteInstruction(one, i).classes)
    BY <2>4, <2>6, RewriteInstructionIs
  <2>8. Len(one.classes) \in Nat /\ Len(RewriteInstruction(one, i).classes) \in Nat
    BY <2>6, <2>7 DEF RewritingBlock, HasClasses
  <2> QED BY <1>9, <2>5, <2>6, <2>7, <2>8
<1>12. m \in T
  <2> HIDE DEF T
  <2> QED BY <1>10, <1>11, NumberInduction
<1>13. PICK one : one = RewrittenBlock(base, block)
  OBVIOUS
<1>14. RewritingBlock(one) /\ Len(acc.classes) <= Len(one.classes)
  BY <1>5, <1>8, <1>12, <1>13
<1>15. PICK done : done = RewriteBlock(acc, block)
  OBVIOUS
<1>16. done.code = Append(acc.code, one.out) /\ done.classes = one.classes
  BY <1>4, <1>13, <1>15 DEF RewriteBlock, RewrittenBlock
<1>17. /\ IsList(done.code) /\ Len(done.code) = n + 1
       /\ ToSet(done.code) = ToSet(acc.code) \cup {one.out}
  <2>1. PICK c, x : c = acc.code /\ x = one.out
    OBVIOUS
  <2>2. IsList(c) /\ Len(c) = n
    BY <2>1 DEF RewritingCode
  <2>3. IsList(Append(c, x)) /\ Len(Append(c, x)) = Len(c) + 1 /\ ToSet(Append(c, x)) = ToSet(c) \cup {x}
    BY <2>2, ListAppend
  <2> QED BY <1>16, <2>1, <2>2, <2>3
<1>18. ASSUME NEW c \in ToSet(done.code) PROVE Names(c, Known(Len(done.classes)))
  <2>1. PICK k1, k2 : k1 = Len(acc.classes) /\ k2 = Len(one.classes)
    OBVIOUS
  <2>2. k1 \in Nat /\ k2 \in Nat /\ k1 <= k2
    BY <1>14, <2>1 DEF RewritingBlock, RewritingCode, HasClasses
  <2>3. Known(k1) \subseteq Known(k2)
    BY <2>2, KnownGrows
  <2>4. CASE c = one.out
    BY <1>14, <1>16, <2>4 DEF RewritingBlock
  <2>5. CASE c \in ToSet(acc.code)
    <3>1. Names(c, Known(k1))
      BY <2>1, <2>5 DEF RewritingCode
    <3>2. Names(c, Known(k2))
      BY <2>3, <3>1, NamesGrow
    <3> QED BY <1>16, <2>1, <3>2
  <2> QED BY <1>17, <2>4, <2>5
<1>19. RewritingCode(done, n + 1)
  BY <1>14, <1>16, <1>17, <1>18 DEF RewritingCode, RewritingBlock
<1> QED BY <1>1, <1>15, <1>19

\* Spill code is put around the instructions.
LEMMA RewriteSpilledInv == AllocatorInv /\ RewriteSpilled => AllocatorInv'
<1> SUFFICES ASSUME AllocatorInv, RewriteSpilled PROVE AllocatorInv'
  OBVIOUS
<1>1. PICK base : base = [code |-> << >>, classes |-> class]
  OBVIOUS
<1>2. PICK done : done = RewrittenCode(base, code)
  OBVIOUS
<1>3. /\ stage = "select" /\ stage' \in {"build", "failed"}
      /\ code' = done.code /\ class' = done.classes
      /\ prog' = prog /\ bank' = bank /\ palette' = palette /\ reserved' = reserved
  BY <1>1, <1>2 DEF RewriteSpilled, NextIteration, RewrittenCode
<1>4. CodeInv /\ GraphInv /\ SelectInv
  BY <1>3 DEF AllocatorInv, Working, HasGraph
<1>5. spilled \subseteq VirtualNodes
  BY <1>4 DEF SelectInv
<1>6. PICK n \in Nat : n = Len(code) /\ DOMAIN code = 1 .. n
  BY <1>4, ListIs DEF CodeInv, FormedCode, AreLists
<1>7. PICK p : RewriteBlockSteps(p, code, n, base)
  BY <1>6, RewriteBlockWalk
<1>8. p[0] = base /\ p[n] = done /\ \A k \in 1 .. n : p[k] = RewriteBlock(p[k - 1], code[k])
  BY <1>2, <1>7 DEF RewriteBlockSteps
<1> DEFINE T == {k \in Nat : k <= n => RewritingCode(p[k], k)}
<1>9. 0 \in T
  <2>1. base.code = << >> /\ base.classes = class
    BY <1>1
  <2>2. IsList(<< >>) /\ Len(<< >>) = 0 /\ ToSet(<< >>) = {}
    BY ListOne
  <2>3. class \in Seq(STRING \ {"v"}) /\ Len(class) <= Len(class)
    BY <1>4 DEF CodeInv
  <2> QED BY <1>8, <2>1, <2>2, <2>3 DEF RewritingCode, HasClasses
<1>10. ASSUME NEW k \in Nat, k \in T PROVE k + 1 \in T
  <2> SUFFICES ASSUME k + 1 <= n PROVE RewritingCode(p[k + 1], k + 1)
    OBVIOUS
  <2>1. k <= n /\ k + 1 \in 1 .. n /\ (k + 1) - 1 = k
    OBVIOUS
  <2>2. RewritingCode(p[k], k)
    BY <1>10, <2>1
  <2>3. PICK acc, b : acc = p[k] /\ b = k + 1
    OBVIOUS
  <2>4. RewritingCode(RewriteBlock(acc, code[b]), k + 1)
    BY <1>4, <1>5, <1>6, <2>1, <2>2, <2>3, RewriteBlockIs
  <2> QED BY <1>8, <2>1, <2>3, <2>4
<1>11. n \in T
  <2> HIDE DEF T
  <2> QED BY <1>9, <1>10, NumberInduction
<1>12. RewritingCode(done, n)
  BY <1>8, <1>11
<1>13. PICK m \in Nat : m = Len(class')
  BY <1>3, <1>12 DEF RewritingCode, HasClasses
<1>14. /\ class' \in Seq(STRING \ {"v"})
       /\ IsList(code') /\ Len(code') = n
       /\ \A c \in ToSet(code') : Names(c, Known(m))
  BY <1>3, <1>12, <1>13 DEF RewritingCode, HasClasses
<1>15. DOMAIN code' = 1 .. n
  BY <1>14, ListIs
<1>16. \A b \in DOMAIN code' : Names(code'[b], Known(m))
  BY <1>14 DEF ToSet
<1>17. FormedCode(code')
  BY <1>14, <1>16 DEF FormedCode, AreLists, Names, ToSet
<1>18. ASSUME NEW r \in RegsOf(code') PROVE r \in Known(m)
  <2>1. PICK b \in DOMAIN code' : \E k \in DOMAIN code'[b] : r \in RegsIn(code'[b][k])
    BY <1>17, CodeRegs
  <2>2. PICK k \in DOMAIN code'[b] : r \in RegsIn(code'[b][k])
    BY <2>1
  <2>3. code'[b][k] \in ToSet(code'[b])
    BY DEF ToSet
  <2> QED BY <1>16, <2>2, <2>3 DEF Names
<1>19. \A r \in RegsOf(code') :
          /\ IsVirtual(r) => r = V(r[2]) /\ r[2] \in 1 .. m
          /\ ~IsVirtual(r) => r \in RegsOf(prog.code)
  <2>1. \A k \in 1 .. m : IsVirtual(V(k)) /\ V(k)[2] = k
    BY DEF IsVirtual, V
  <2> QED BY <1>18, <2>1 DEF Known
<1>20. CodeInv'
  <2>1. prog \in Programs /\ prog.succ \in [DOMAIN code' -> SUBSET DOMAIN code'] /\ IsList(palette)
        /\ bank \in Banks /\ reserved \subseteq bank.sp \cup bank.fp
    BY <1>4, <1>6, <1>15 DEF CodeInv
  <2> QED BY <1>3, <1>13, <1>14, <1>17, <1>19, <2>1 DEF CodeInv
<1> QED BY <1>3, <1>20, NotDone DEF AllocatorInv, Working, HasGraph

-----------------------------------------------------------------------------
(* The theorems.                                                           *)

\* Every step of the pass keeps the invariant.
LEMMA AllocatorStepInv == AllocatorInv /\ [AllocatorNext]_allocatorVars => AllocatorInv'
<1> SUFFICES ASSUME AllocatorInv, [AllocatorNext]_allocatorVars PROVE AllocatorInv'
  OBVIOUS
<1>1. CASE Build
  BY <1>1, BuildInv
<1>2. CASE CoalesceCandidate
  BY <1>2, CoalesceCandidateInv
<1>3. CASE StartSimplify
  BY <1>3, StartSimplifyInv
<1>4. CASE SimplifyLowDegree
  BY <1>4, SimplifyLowDegreeInv
<1>5. CASE SimplifySpillCandidate
  BY <1>5, SimplifySpillCandidateInv
<1>6. CASE SimplifyUnspillable
  BY <1>6, SimplifyUnspillableInv
<1>7. CASE StartSelect
  BY <1>7, StartSelectInv
<1>8. CASE AssignColor
  BY <1>8, AssignColorInv
<1>9. CASE MarkSpilled
  BY <1>9, MarkSpilledInv
<1>10. CASE OutOfColors
  BY <1>10, OutOfColorsInv
<1>11. CASE RewriteSpilled
  BY <1>11, RewriteSpilledInv
<1>12. CASE RewriteColors
  BY <1>12, RewriteColorsInv
<1>13. CASE UNCHANGED allocatorVars
  <2>1. /\ UNCHANGED <<prog, code, class, bank, palette, reserved, stage, nodes, edges, coalesced, affinity>>
        /\ UNCHANGED <<degree, queue, removed, stack, allocated, spilled, physUses>>
    BY <1>13 DEF allocatorVars, function, frame, graph, merging, coloring
  <2>2. K' = K /\ VirtualNodes' = VirtualNodes /\ StartNodes' = StartNodes /\ StartEdges' = StartEdges
    BY <2>1 DEF K, VirtualNodes, StartNodes, StartEdges, StartGraph, BlockGraph
  <2>3. Working' = Working /\ HasGraph' = HasGraph
    BY <2>1 DEF Working, HasGraph
  <2>4. CodeInv' <=> CodeInv
    BY <2>1 DEF CodeInv
  <2>5. GraphInv' <=> GraphInv
    BY <2>1, <2>2 DEF GraphInv
  <2>6. LeaderInv' <=> LeaderInv
    BY <2>1, <2>2 DEF LeaderInv, Leads
  <2>7. \A x : Leader(x)' = Leader(x) /\ SameNumber(x)' = SameNumber(x)
    BY <2>1 DEF Leader, SameNumber
  <2>8. MergedInv' <=> MergedInv
    BY <2>1, <2>2, <2>7 DEF MergedInv, SameNumber
  <2>9. SimplifyInv' <=> SimplifyInv
    BY <2>1, <2>2 DEF SimplifyInv
  <2>10. SelectInv' <=> SelectInv
    BY <2>1, <2>2, <2>7 DEF SelectInv, SameNumber, NumberOf
  <2>11. NoVirtualRegisterLeft' = NoVirtualRegisterLeft /\ CalleeSavedRecorded' = CalleeSavedRecorded
    BY <2>1 DEF NoVirtualRegisterLeft, CalleeSavedRecorded
  <2> QED BY <2>1, <2>3, <2>4, <2>5, <2>6, <2>8, <2>9, <2>10, <2>11 DEF AllocatorInv
<1> QED BY <1>1, <1>2, <1>3, <1>4, <1>5, <1>6, <1>7, <1>8, <1>9, <1>10, <1>11, <1>12, <1>13
        DEF AllocatorNext

\* Of two registers that interfere in the code, at most one kind of pair keeps
\* a hardware number in common.
LEMMA ApartIs == AllocatorInv => InterferingRegistersApart
<1> SUFFICES ASSUME AllocatorInv, ReadyToRecolor PROVE InterferingRegistersApart
  BY DEF InterferingRegistersApart, ReadyToRecolor
<1>1. CodeInv /\ GraphInv /\ LeaderInv /\ MergedInv /\ SelectInv /\ stack = << >> /\ spilled = {}
  BY DEF AllocatorInv, Working, HasGraph, ReadyToRecolor
<1>2. EdgesOver(StartEdges, StartNodes)
  BY <1>1, StartGraphIs DEF CodeInv
<1>3. VirtualNodes = DOMAIN allocated
  <2>1. ToSet(<< >>) = {}
    BY ListOne
  <2> QED BY <1>1, <2>1 DEF SelectInv
<1>4. ASSUME NEW r \in StartNodes
      PROVE  /\ Leader(r) \in nodes
             /\ Final(r) = IF IsVirtual(Leader(r)) THEN allocated[Leader(r)] ELSE Leader(r)
             /\ IsVirtual(Leader(r)) => Leader(r) \in DOMAIN allocated
  <2>1. Leader(r) \in nodes /\ (r \in nodes => Leader(r) = r)
    BY <1>1, LeaderInGraph
  <2>2. IsVirtual(Leader(r)) => Leader(r) \in DOMAIN allocated
    BY <1>3, <2>1 DEF VirtualNodes
  <2>3. CASE IsVirtual(r)
    BY <2>1, <2>2, <2>3 DEF Final
  <2>4. CASE ~IsVirtual(r)
    <3>1. r \in nodes
      BY <1>1, <2>4 DEF GraphInv
    <3> QED BY <2>1, <2>4, <3>1 DEF Final
  <2> QED BY <2>1, <2>2, <2>3, <2>4
<1>5. ASSUME NEW e \in StartEdges, NEW r \in e, NEW s \in e, r # s
      PROVE  /\ Final(r) # Final(s)
             /\ Final(r)[2] = Final(s)[2] => ~IsVirtual(Leader(r)) /\ ~IsVirtual(Leader(s))
  <2>1. PICK x, y : x = Leader(r) /\ y = Leader(s)
    OBVIOUS
  <2>2. r \in StartNodes /\ s \in StartNodes
    BY <1>2 DEF EdgesOver
  <2>3. {x, y} \in edges
    BY <1>1, <1>5, <2>1 DEF MergedInv
  <2>4. x # y
    <3>1. \E a \in nodes : \E b \in nodes : a # b /\ {x, y} = {a, b}
      BY <1>1, <2>3 DEF GraphInv, EdgesOver
    <3>2. PICK a \in nodes : \E b \in nodes : a # b /\ {x, y} = {a, b}
      BY <3>1
    <3>3. PICK b \in nodes : a # b /\ {x, y} = {a, b}
      BY <3>2
    <3>4. a \in {x, y} /\ b \in {x, y}
      BY <3>3
    <3> QED BY <3>3, <3>4
  <2>5. /\ Final(r) = IF IsVirtual(x) THEN allocated[x] ELSE x
        /\ Final(s) = IF IsVirtual(y) THEN allocated[y] ELSE y
        /\ IsVirtual(x) => x \in DOMAIN allocated
        /\ IsVirtual(y) => y \in DOMAIN allocated
    BY <1>4, <2>1, <2>2
  <2>6. CASE ~IsVirtual(x) /\ ~IsVirtual(y)
    BY <2>1, <2>4, <2>5, <2>6
  <2>7. CASE IsVirtual(x) \/ IsVirtual(y)
    <3>1. NumberOf(x) # NumberOf(y)
      <4>1. \A a, b \in {x, y} : a # b /\ a \in DOMAIN allocated /\ (IsVirtual(b) => b \in DOMAIN allocated)
                                   => NumberOf(a) # NumberOf(b)
        BY <1>1, <2>3 DEF SelectInv
      <4>2. CASE IsVirtual(x)
        BY <2>4, <2>5, <4>1, <4>2
      <4>3. CASE IsVirtual(y)
        BY <2>4, <2>5, <4>1, <4>3
      <4> QED BY <2>7, <4>2, <4>3
    <3>2. Final(r)[2] = NumberOf(x) /\ Final(s)[2] = NumberOf(y)
      BY <2>5 DEF NumberOf
    <3> QED BY <3>1, <3>2
  <2> QED BY <2>6, <2>7
<1>6. \A b \in DOMAIN code : BlockGraph(b, LiveOut(code, prog.succ)[b]).edges \subseteq StartEdges
  BY DEF StartEdges, StartGraph
<1> QED BY <1>5, <1>6 DEF InterferingRegistersApart

\* Every state of the allocator, in every iteration over every function, satisfies
\* the invariant (MirRegisterAllocatorPass::run).
THEOREM AllocatorInvariant == AllocatorSpec => []AllocatorInv
BY AllocatorInitInv, AllocatorStepInv, PTL DEF AllocatorSpec

\* rewriteColors finds a color for every operand: the code it leaves names hardware
\* registers only, whatever was coalesced and however often spill code was written.
THEOREM NoOperandLeftVirtual == AllocatorSpec => []NoVirtualRegisterLeft
<1>1. AllocatorInv => NoVirtualRegisterLeft
  BY DEF AllocatorInv
<1> QED BY <1>1, AllocatorInvariant, PTL

\* A callee saved register that the allocator brought into a function, by coloring or
\* by coalescing, through whichever class, has been recorded for the prologue.
THEOREM PrologueSavesWhatIsTaken == AllocatorSpec => []CalleeSavedRecorded
<1>1. AllocatorInv => CalleeSavedRecorded
  BY DEF AllocatorInv
<1> QED BY <1>1, AllocatorInvariant, PTL

\* selectColors gives registers that interfere different hardware registers: when
\* colors are about to be written into the code, no two registers with an edge in
\* its interference graph end in one register, however they have been merged.
THEOREM ColoringIsProper == AllocatorSpec => []InterferingRegistersApart
BY ApartIs, AllocatorInvariant, PTL
=============================================================================
