--------------------------- MODULE PhiElimination ---------------------------
(***************************************************************************)
(* Instruction selection of one function in SSA form                       *)
(* (MirInstructionSelector::selectFunction) and, as part of it, the        *)
(* elimination of its phis (selectPHI of the two targets).                 *)
(*                                                                         *)
(* The selector goes over the blocks in list order and over the            *)
(* instructions of a block from last to first, replacing each where it     *)
(* stands.  A phi is replaced by copies in OTHER blocks: in each           *)
(* predecessor, in front of its first branch.  They are generic moves, so  *)
(* the selector goes round again until a round finds nothing to select.    *)
(***************************************************************************)
EXTENDS MirCode, FiniteSetsExt

CONSTANTS
    Programs,    \* the functions, as the parser reads them
    Targets,     \* the targets to select for
    LongestPath  \* how many blocks of an execution are compared

ASSUME TargetsAssumption == Targets \subseteq {"x86_64", "riscv64"}

\* A function: the phis of every block (a destination and the pairs of an
\* operand and the block it comes from), the rest of the block, the successors.
\* Blocks are numbered by id, and listed in that order.
Phi(dst, pairs) == [dst |-> dst, pairs |-> pairs]
FromBlock(op, b) == [op |-> op, from |-> b]

\* The blocks of a function are lists of instructions, each behind a list of
\* phis, whose operands are in a list too.
ASSUME ProgramsAssumption ==
    \A p \in Programs :
        /\ Len(p.body) > 0
        /\ p.body \in [1 .. Len(p.body) -> Seq(MachineInstructions)]
        /\ p.phis \in [1 .. Len(p.body) -> Seq([dst : RegisterRefs, pairs : Seq([op : MachineOperands, from : Nat])])]
        /\ p.succ \in [1 .. Len(p.body) -> SUBSET (1 .. Len(p.body))]

VARIABLES
    target,  \* the target description selected for
    prog,    \* the function as written
    insts,   \* the function as it stands
    block,   \* the block selectFunction is at
    at,      \* the instruction selectBlock is at, 0 outside of it
    round,   \* which pass over the blocks this is
    found,   \* progress: has this round selected anything?
    done

selectorVars == <<target, prog, insts, block, at, round, found, done>>

BlockIds == DOMAIN insts

\* Kinds the selector has still to replace.
IsUnselected(i) == i.kind \in {"phi", "generic", "LOAD", "call", "MOV", "JMP", "BR_COND", "RET"}

\* What selectPHI takes for the end of the straight code of a predecessor.
IsBranch(i) ==
    \/ i.kind \in {"JMP", "BR_COND", "RET", "jump", "bne"}
    \/ i.kind = "jalr"
    \/ i.kind = "ret" /\ target = "x86_64"

\* The parser keeps the operands of a phi in the order they are written; the
\* blocks they are paired with become known labels and are dropped.
ParsedPhi(phi) ==
    Instr("phi", "phi", <<Reg(phi.dst, "W")>> \o [k \in DOMAIN phi.pairs |-> phi.pairs[k].op], {}, {})
Parsed(p) == [b \in DOMAIN p.body |-> [k \in DOMAIN p.phis[b] |-> ParsedPhi(p.phis[b][k])] \o p.body[b]]

SelectorInit ==
    /\ target \in Targets
    /\ prog \in Programs
    /\ insts = Parsed(prog)
    /\ block = 1
    /\ at = 0
    /\ round = 1
    /\ found = FALSE
    /\ done = FALSE

\* The last unselected instruction of a block in front of position k.
LastUnselected(body, k) == Max({0} \cup {j \in 1 .. k - 1 : IsUnselected(body[j])})

\* Mutation: whatever a round inserts behind its cursor is left as it is.
AnotherRound_Never == FALSE
\* The loop goes round again after a round that selected something.
AnotherRound == found

\* The next block, the next round or the end.
Advance ==
    IF block < Len(insts)
       THEN block' = block + 1 /\ UNCHANGED <<round, found, done>>
    ELSE IF AnotherRound
       THEN block' = 1 /\ round' = round + 1 /\ found' = FALSE /\ done' = done
    ELSE done' = TRUE /\ UNCHANGED <<block, round, found>>

SkipBlock ==
    /\ at = 0
    /\ ~done
    /\ LastUnselected(insts[block], Len(insts[block]) + 1) = 0
    /\ Advance
    /\ UNCHANGED <<target, prog, insts, at>>

EnterBlock ==
    /\ at = 0
    /\ ~done
    /\ at' = LastUnselected(insts[block], Len(insts[block]) + 1)
    /\ at' > 0
    /\ found' = TRUE
    /\ UNCHANGED <<target, prog, insts, block, round, done>>

\* The walk goes on from position k.  It is the place of the instruction that
\* has been selected while the one in front of it is still there: the walk goes
\* towards the front, and what has been put behind is left.  Once both are
\* gone, or the selected one was the first, it starts anew from the block's end.
MoveOn(body, k) ==
    /\ at' = LastUnselected(body, k)
    /\ IF at' = 0 THEN Advance ELSE UNCHANGED <<block, round, found, done>>
    /\ UNCHANGED <<target, prog>>

\* The target code of an instruction other than a phi.  A loaded value is named
\* by its address, so that the load is a copy to whoever compares values.
TargetCode(i) ==
    CASE i.kind = "generic" -> <<[i EXCEPT !.kind = "op"]>>
      [] i.kind = "call" -> <<[i EXCEPT !.kind = IF target = "x86_64" THEN "op" ELSE "jalr"]>>
      [] i.kind \in {"MOV", "LOAD"} -> <<[i EXCEPT !.kind = "move"]>>
      [] i.kind = "JMP" -> <<[i EXCEPT !.kind = "jump"]>>
      [] i.kind = "RET" -> <<[i EXCEPT !.kind = "ret"]>>
      [] i.kind = "BR_COND" ->
            LET jump == Instr("jump", "jump", << >>, {}, {})
            IN  IF target = "x86_64" THEN <<[i EXCEPT !.kind = "op"], jump, jump>>  \* CMP, JNE, JMP
                                     ELSE <<[i EXCEPT !.kind = "bne"], jump>>       \* BNE, JAL

\* The one pattern with a nested instruction (Select_ADD64rm): the load at d of
\* the block becomes the memory operand of the addition at k, which is its only
\* reader, with no call between them.
ReadOnlyBy(r, k) ==
    \A b \in BlockIds : \A j \in DOMAIN insts[b] : \A n \in DOMAIN insts[b][j].ops :
        r \in ToSet(insts[b][j].ops[n].regs) /\ insts[b][j].ops[n].acc # "W" => b = block /\ j = k /\ n = 3
IsFoldable(d, k) ==
    LET body == insts[block]
    IN  /\ target = "x86_64"
        /\ body[k].kind = "generic" /\ body[k].tag = "add"
        /\ body[d].kind = "LOAD"
        /\ body[k].ops[3] = Reg(body[d].ops[1].regs[1], "R")
        /\ ReadOnlyBy(body[d].ops[1].regs[1], k)
        /\ \A j \in d + 1 .. k - 1 : body[j].kind # "call"

\* Where the walk goes on from an instruction that has been replaced.
Onward(body) == IF at = 1 THEN Len(body) + 1 ELSE at

SelectInstruction ==
    /\ at > 0
    /\ insts[block][at].kind # "phi"
    /\ \A d \in 1 .. at - 1 : ~IsFoldable(d, at)
    /\ insts' = [insts EXCEPT ![block] = SubSeq(@, 1, at - 1) \o TargetCode(@[at]) \o SubSeq(@, at + 1, Len(@))]
    /\ MoveOn(insts'[block], Onward(insts'[block]))

\* ADD64rm takes the place of the addition, and the load goes with it.
SelectFolding ==
    /\ at > 0
    /\ \E d \in 1 .. at - 1 :
          LET add == [insts[block][at] EXCEPT !.kind = "op", !.ops[3] = insts[block][d].ops[2]]
          IN  /\ IsFoldable(d, at)
              /\ insts' = [insts EXCEPT ![block] = RemoveAt([@ EXCEPT ![at] = add], d)]
              /\ MoveOn(insts'[block], IF d = at - 1 THEN Len(insts[block]) ELSE at - 1)

-----------------------------------------------------------------------------
(* selectPHI                                                               *)

AllCode == UNION {ToSet(insts[b]) : b \in BlockIds}
IsUsed(r) == \E i \in AllCode : r \in Uses(i)
IsDefined(r) == \E i \in AllCode : r \in Defs(i)

Preds(b) == SetToSortSeq({p \in BlockIds : b \in prog.succ[p]}, <)

\* Mutation: the slots are counted from the last predecessor.
SlotOf_FromLast(p, b) == Len(Preds(b)) - SelectInSeq(Preds(b), LAMBDA x : x = p) + 2
\* The operand of a phi for predecessor p: 1 + i for the i-th, the destination
\* being operand 0 (operands are numbered from 1 here).
SlotOf(p, b) == 1 + SelectInSeq(Preds(b), LAMBDA x : x = p)

\* The copy a phi needs at the end of predecessor p: none for a literal, and
\* none for a register that nothing defines.
CopyFor(phi, p, b) ==
    IF SlotOf(p, b) \notin DOMAIN phi.ops THEN << >>
    ELSE LET in == phi.ops[SlotOf(p, b)]
         IN  IF in.kind = "reg" /\ IsDefined(in.regs[1])
                THEN <<Instr("MOV", "mov", <<phi.ops[1], in>>, {}, {})>>
                ELSE << >>

\* In front of the first branch, or at the end of a block without one.
InsertPoint(body) == Min({Len(body) + 1} \cup {k \in DOMAIN body : IsBranch(body[k])})

WithCopy(body, copy) ==
    LET k == InsertPoint(body)
    IN  SubSeq(body, 1, k - 1) \o copy \o SubSeq(body, k, Len(body))

SelectPhi ==
    /\ at > 0
    /\ insts[block][at].kind = "phi"
    /\ LET phi == insts[block][at]
           used == IsUsed(phi.ops[1].regs[1])
           copied == [b \in BlockIds |-> IF used /\ b \in ToSet(Preds(block))
                                          THEN WithCopy(insts[b], CopyFor(phi, b, block)) ELSE insts[b]]
       IN  insts' = [copied EXCEPT ![block] = RemoveAt(@, at)]
    /\ MoveOn(insts'[block], Onward(insts'[block]))

SelectorNext == SkipBlock \/ EnterBlock \/ SelectInstruction \/ SelectFolding \/ SelectPhi

SelectorSpec == SelectorInit /\ [][SelectorNext]_selectorVars

-----------------------------------------------------------------------------
(* What the function means in SSA form: on entry to a block all its phis   *)
(* take, at once, the operand paired with the block control comes from.    *)

Value(st, pair, dst) ==
    CASE pair.op.kind = "imm" -> <<"literal">>
      [] \E i \in UNION {ToSet(Parsed(prog)[b]) : b \in BlockIds} : pair.op.regs[1] \in Defs(i) -> st.val[pair.op.regs[1]]
      [] OTHER -> st.val[dst]   \* undefined: any value will do

Enter(st, from, b) ==
    LET phis == prog.phis[b]
        PairOf(phi) == CHOOSE q \in ToSet(phi.pairs) : q.from = from
        Phis(l) == {k \in DOMAIN phis : phis[k].dst = l}
    IN  [st EXCEPT !.val = [l \in DOMAIN st.val |->
            IF Phis(l) = {} THEN st.val[l]
            ELSE LET phi == phis[CHOOSE k \in Phis(l) : TRUE] IN Value(st, PairOf(phi), l)]]

SsaTrace(path) ==
    LET Loads(i) == IF i.kind = "LOAD" THEN [i EXCEPT !.kind = "move"] ELSE i
        Visible(b) == [k \in DOMAIN prog.body[b] |-> Loads(prog.body[b][k])]
        Visit(st, k) == FoldLeft(LAMBDA s, i : IF i.kind = "JMP" THEN s ELSE Step(s, i, FALSE),
                                 IF k = 1 THEN st ELSE Enter(st, path[k - 1], path[k]), Visible(path[k]))
    IN  FoldLeft(Visit, [val |-> [l \in Locations(Parsed(prog)) |-> <<"init", l>>], trace |-> << >>],
                 [k \in DOMAIN path |-> k]).trace

SameMeaning == \A path \in Paths(prog.succ, LongestPath) : Trace(insts, path, FALSE) = SsaTrace(path)

-----------------------------------------------------------------------------
(* When selectPHI gets it right.                                           *)

\* The blocks control can get to from s before it enters b again.
Reach(s, b) ==
    LET near[n \in Nat] == IF n = 0 THEN {s} \ {b}
                           ELSE near[n - 1] \cup ((UNION {prog.succ[t] : t \in near[n - 1]}) \ {b})
    IN  near[Len(insts)]

\* Does an edge from one of "froms" into t give a phi of t the register r?
PhiReads(r, froms, t) ==
    \E k \in DOMAIN prog.phis[t] : \E q \in ToSet(prog.phis[t][k].pairs) : q.from \in froms /\ r \in ToSet(q.op.regs)

\* Is r read on a way that leaves p for s, before block b is entered?
LiveOnto(r, p, s, b) ==
    \/ PhiReads(r, {p}, s)
    \/ \E t \in Reach(s, b) : \/ \E i \in ToSet(prog.body[t]) : r \in Uses(i)
                              \/ \E u \in prog.succ[t] : PhiReads(r, {t}, u)

LastOf(body) == body[Len(body)]

PhiIsConventional(b, k) ==
    LET phi == prog.phis[b][k]
    IN  /\ [j \in DOMAIN phi.pairs |-> phi.pairs[j].from] = Preds(b)
        /\ \A q \in ToSet(phi.pairs) : q.op.kind = "reg"
        \* The copies of a later phi stand in front of those of this one.
        /\ \A j \in k + 1 .. Len(prog.phis[b]) : \A q \in ToSet(phi.pairs) : prog.phis[b][j].dst \notin ToSet(q.op.regs)
        /\ \A p \in ToSet(Preds(b)) :
              \* A branch that is selected after the copy is inserted, or is
              \* itself the reader of its condition, reads the new value.
              /\ phi.dst \in Uses(LastOf(prog.body[p])) => target = "x86_64" /\ p <= b
              \* The copy is executed whichever way p is left.
              /\ \A s \in prog.succ[p] \ {b} : ~LiveOnto(phi.dst, p, s, b)
              \* JALR counts as the first branch of p.
              /\ target = "riscv64" => \A i \in ToSet(prog.body[p]) : i.kind # "call"

Conventional == \A b \in BlockIds : \A k \in DOMAIN prog.phis[b] : PhiIsConventional(b, k)

-----------------------------------------------------------------------------

\* The state of the selector stays in the shape the code gives it.
SelectorTypeOK ==
    /\ block \in BlockIds
    /\ at \in 0 .. Len(insts[block])
    /\ at > 0 => IsUnselected(insts[block][at])
    /\ round \in Nat
    /\ found \in BOOLEAN
    /\ done \in BOOLEAN

\* When the loop of selectFunction stops, no generic instruction is left, not
\* even among the copies that were put behind its cursor.
EverythingSelected == done => \A i \in AllCode : ~IsUnselected(i)

\* Two rounds select everything and a third finds nothing: only the copies of
\* phis are ever added, and they add nothing themselves.
ThreeRoundsAtMost == round <= 3

\* A copy never stands behind a branch, where one of the ways out of the block
\* would miss it.
CopiesBeforeBranches ==
    \A b \in BlockIds : \A j, k \in DOMAIN insts[b] :
        j < k /\ IsBranch(insts[b][j]) => insts[b][k].kind \notin {"MOV", "move"}

\* On every function whose phis are conventional, the selected code computes
\* along every path what the function means in SSA form.
ConventionalPhisKeepMeaning == done /\ Conventional => SameMeaning

\* What the documentation says of every function: each phi becomes moves along
\* the incoming edges.
PhisBecomeMoves == done => SameMeaning
=============================================================================
