---------------------------- MODULE SsaConstruction ----------------------------
(***************************************************************************)
(* The construction of SSA form (NonSsaToSsaPass) of one function: the     *)
(* blocks that define each register, a post-order of the blocks, the       *)
(* dominator tree by the iteration of Cooper, Harvey and Kennedy, the      *)
(* dominance frontiers, the phis on the iterated frontiers, and the        *)
(* renaming along the dominator tree.                                      *)
(*                                                                         *)
(* Generic instructions either read or write an operand, never both, and   *)
(* all registers are virtual here.  The edges are those of CodeFlow.       *)
(***************************************************************************)
EXTENDS MirCode, FiniteSetsExt

CONSTANTS
    Programs,    \* the functions: successors of the blocks, bodies, parameters
    LongestPath  \* how many blocks of an execution are compared

\* Registers: those of the input, the names renaming gives out, and the one
\* that stands for a value nobody has defined.
Base(v) == V(<<v, 0>>)
Version(v, n) == V(<<v, n>>)
Undef(v) == V(<<v, -1>>)
BaseOf(r) == r[2][1]

\* Generic code: an operand is read or written, never both, and names registers
\* as they were before the pass.
Bases == {"v"} \X (Nat \X {0})
GenericOperands ==
    [kind : {"reg"}, regs : [1 .. 1 -> Bases], acc : {"R", "W"}]
    \cup [kind : {"mem", "imm"}, regs : Seq(Bases), acc : {"R"}]
GenericInstructions ==
    [kind : STRING, tag : STRING, ops : Seq(GenericOperands), uses : {{}}, defs : {{}}]

\* A function has an entry, the first of its blocks, and leads from blocks to blocks.
ASSUME ProgramsAssumption ==
    \A p \in Programs :
        p.succ \in Seq(SUBSET Nat) /\ p.succ # <<>> /\ \A b \in DOMAIN p.succ : p.succ[b] \subseteq DOMAIN p.succ

\* Its bodies are generic code.
ASSUME BodiesAssumption ==
    \A p \in Programs : p.params \in SUBSET Nat /\ p.body \in [DOMAIN p.succ -> Seq(GenericInstructions)]

VARIABLES
    prog,       \* the function as written
    phase,
    defSites,   \* m_defSites
    walk,       \* the calls of the depth-first walk that have not returned
    postOrder,  \* m_postOrderNodes
    idom,       \* m_immDomTree, for the blocks that have an entry in it
    next,       \* the next block of a sweep, as an index of postOrder
    changed,
    frontier,   \* m_domFrontier
    todo,       \* the registers that still need their phis placed
    worklist, hasPhi,
    phis,       \* of each block, in front of its body
    code,       \* the bodies
    stacks,     \* varStacks
    counters,   \* varCounters
    frames      \* the calls of renameBlock that have not returned

dominance == <<walk, postOrder, idom, next, changed, frontier>>
placement == <<todo, worklist, hasPhi>>
renaming == <<stacks, counters, frames>>
ssaVars == <<prog, phase, defSites, dominance, placement, phis, code, renaming>>

Blocks == DOMAIN prog.succ
Entry == 1
Ascending(s) == [k \in 1 .. Cardinality(s) |-> CHOOSE x \in s : Cardinality({y \in s : y < x}) = k - 1]
Preds(b) == Ascending({p \in Blocks : b \in prog.succ[p]})
WrittenIn(b) == UNION {Defs(prog.body[b][k]) : k \in DOMAIN prog.body[b]}

SsaInit ==
    /\ prog \in Programs
    /\ phase = "defs"
    /\ defSites = <<>>
    /\ walk = <<>> /\ postOrder = <<>> /\ idom = <<>> /\ next = 0 /\ changed = TRUE
    /\ frontier = [b \in Blocks |-> {}]
    /\ todo = {} /\ worklist = <<>> /\ hasPhi = {}
    /\ phis = [b \in Blocks |-> <<>>]
    /\ code = prog.body
    /\ stacks = [v \in {} |-> <<>>] /\ counters = [v \in {} |-> 0] /\ frames = <<>>

-----------------------------------------------------------------------------
(* The registers and the order of the blocks.                              *)

\* buildVirtualRegDefPlaces: parameters are defined in the entry.  The walk
\* comes next, with a call for the entry.
BuildDefSites ==
    /\ phase = "defs"
    /\ LET Sites(v) == {b \in Blocks : Base(v) \in WrittenIn(b)}
                       \cup (IF v \in prog.params THEN {Entry} ELSE {})
           defined == {BaseOf(r) : r \in UNION {WrittenIn(b) : b \in Blocks}} \cup prog.params
       IN  defSites' = [v \in defined |-> Sites(v)]
    /\ phase' = "order"
    /\ walk' = <<Entry>>
    /\ UNCHANGED <<prog, postOrder, idom, next, changed, frontier, placement, phis, code, renaming>>

\* Where the walk can go from the block it is at: successors it has not entered.
Unvisited == prog.succ[Last(walk)] \ (ToSet(walk) \cup ToSet(postOrder))

\* buildPostOrderIndexList, into the next successor in ascending order.
EnterSuccessor ==
    /\ phase = "order" /\ walk # <<>> /\ Unvisited # {}
    /\ walk' = Append(walk, Min(Unvisited))
    /\ UNCHANGED <<prog, phase, defSites, postOrder, idom, next, changed, frontier, placement, phis, code, renaming>>

LeaveBlock ==
    /\ phase = "order" /\ walk # <<>> /\ Unvisited = {}
    /\ postOrder' = Append(postOrder, Last(walk))
    /\ walk' = Front(walk)
    /\ UNCHANGED <<prog, phase, defSites, idom, next, changed, frontier, placement, phis, code, renaming>>

\* The start of buildImmDomTree: the entry is its own dominator.
StartDominators ==
    /\ phase = "order" /\ walk = <<>>
    /\ idom' = [b \in {Entry} |-> Entry]
    /\ next' = 0
    /\ changed' = TRUE
    /\ phase' = "dominators"
    /\ UNCHANGED <<prog, defSites, walk, postOrder, frontier, placement, phis, code, renaming>>

-----------------------------------------------------------------------------
(* Dominators.                                                             *)

Index(b) == CHOOSE k \in DOMAIN postOrder : postOrder[k] = b

\* The finger with the lower index moves up, until both are the same; one at
\* the root stays there.  Two fingers have no more steps than n to make.
Intersect(b1, b2) ==
    LET meet[n \in 0 .. 2 * Len(postOrder)] ==
            [f1 \in DOMAIN idom |-> [f2 \in DOMAIN idom |->
                IF n = 0 \/ f1 = f2 THEN f1
                ELSE IF Index(f1) < Index(f2) THEN meet[n - 1][idom[f1]][f2] ELSE meet[n - 1][f1][idom[f2]]]]
    IN  meet[2 * Len(postOrder)][b1][b2]

\* The predecessors that have a dominator already, in ascending order.
Processed(b) == Ascending({p \in DOMAIN idom : b \in prog.succ[p]})
NewIdom(b) ==
    LET processed == Processed(b)
        common[k \in DOMAIN processed] == IF k = 1 THEN processed[1] ELSE Intersect(processed[k], common[k - 1])
    IN  common[Len(processed)]

\* Mutation: the flag is not looked at.
AnotherSweep_Always == TRUE
\* The sweeps go on after one that has changed something.
AnotherSweep == changed

\* One block of a sweep in reverse post-order.
VisitBlock ==
    /\ phase = "dominators" /\ next > 0
    /\ LET b == postOrder[next]
       IN  IF b = Entry \/ Processed(b) = <<>> \/ (b \in DOMAIN idom /\ idom[b] = NewIdom(b))
           THEN UNCHANGED <<idom, changed>>
           ELSE idom' = [x \in DOMAIN idom \cup {b} |-> IF x = b THEN NewIdom(b) ELSE idom[x]] /\ changed' = TRUE
    /\ next' = next - 1
    /\ UNCHANGED <<prog, phase, defSites, walk, postOrder, frontier, placement, phis, code, renaming>>

Sweep ==
    /\ phase = "dominators" /\ next = 0
    /\ IF AnotherSweep THEN next' = Len(postOrder) /\ changed' = FALSE /\ UNCHANGED phase
       ELSE phase' = "frontier" /\ UNCHANGED <<next, changed>>
    /\ UNCHANGED <<prog, defSites, walk, postOrder, idom, frontier, placement, phis, code, renaming>>

\* The blocks from runner upwards that are below "stop" in the dominator tree.
Runners(runner, stop) ==
    LET up[k \in 0 .. Len(postOrder)] == IF k = 0 THEN runner ELSE idom[up[k - 1]]
    IN  {up[k] : k \in {k \in 0 .. Len(postOrder) : \A j \in 0 .. k : up[j] \in DOMAIN idom \ {stop}}}

\* Mutation: the walk up starts above the predecessor.
BuildFrontier_SkipsPredecessor ==
    /\ phase = "frontier"
    /\ LET Joins == {b \in DOMAIN idom : Len(Preds(b)) >= 2}
       IN  frontier' = [r \in Blocks |-> {b \in Joins : \E p \in ToSet(Preds(b)) :
                            p \in DOMAIN idom /\ p # idom[b] /\ r \in Runners(idom[p], idom[b])}]
    /\ todo' = DOMAIN defSites
    /\ phase' = "place"
    /\ UNCHANGED <<prog, defSites, walk, postOrder, idom, next, changed, worklist, hasPhi, phis, code, renaming>>

\* buildDominanceFrontier: every join is in the frontier of the blocks between
\* its predecessors and its dominator.
BuildFrontier ==
    /\ phase = "frontier"
    /\ LET Joins == {b \in DOMAIN idom : Len(Preds(b)) >= 2}
       IN  frontier' = [r \in Blocks |-> {b \in Joins : \E p \in ToSet(Preds(b)) : r \in Runners(p, idom[b])}]
    /\ todo' = DOMAIN defSites
    /\ phase' = "place"
    /\ UNCHANGED <<prog, defSites, walk, postOrder, idom, next, changed, worklist, hasPhi, phis, code, renaming>>

-----------------------------------------------------------------------------
(* Phis.  The registers are taken in ascending order; the worklist is a     *)
(* stack of blocks.                                                        *)

Placing == Min(todo)

TakeRegister ==
    /\ phase = "place" /\ todo # {} /\ worklist = <<>> /\ hasPhi = {}
    /\ worklist' = Ascending(defSites[Placing])
    /\ UNCHANGED <<prog, phase, defSites, dominance, todo, hasPhi, phis, code, renaming>>

\* createPhiInstruction: as many operands as there are predecessors, all of
\* them the register itself.
NewPhi(v, b) ==
    Instr("phi", "phi", <<Reg(Base(v), "W")>> \o [k \in DOMAIN Preds(b) |-> Reg(Base(v), "R")], {}, {})

\* A block leaves the worklist, and the blocks of its frontier that have no phi
\* yet get one, in front of those they have; the next register follows.
PlacePhis ==
    /\ phase = "place" /\ worklist # <<>>
    /\ LET v == Placing
           fresh == frontier[Last(worklist)] \ hasPhi
           rest == Front(worklist) \o Ascending(fresh \ (defSites[v] \cup ToSet(Front(worklist))))
       IN  /\ phis' = [b \in Blocks |-> IF b \in fresh THEN <<NewPhi(v, b)>> \o phis[b] ELSE phis[b]]
           /\ worklist' = rest
           /\ IF rest = <<>> THEN todo' = todo \ {v} /\ hasPhi' = {}
              ELSE hasPhi' = hasPhi \cup fresh /\ UNCHANGED todo
    /\ UNCHANGED <<prog, phase, defSites, dominance, code, renaming>>

Variables == DOMAIN defSites \cup {BaseOf(r) : r \in RegsOf(prog.body)}

Frame(b) == [block |-> b, entered |-> FALSE, children |-> <<>>, pushed |-> <<>>]
StartRenaming ==
    /\ phase = "place" /\ todo = {}
    /\ stacks' = [v \in Variables |-> <<>>]
    /\ counters' = [v \in Variables |-> 0]
    /\ frames' = <<Frame(Entry)>>
    /\ phase' = "rename"
    /\ UNCHANGED <<prog, defSites, dominance, placement, phis, code>>

-----------------------------------------------------------------------------
(* Renaming.                                                               *)

\* The base register of a phi, from its operands as they were created.
PhiBase(phi) == BaseOf(phi.ops[1].regs[1])

\* How many definitions of v block b has in front of its k-th instruction.
DefsBefore(b, v, k) ==
    Cardinality({j \in DOMAIN phis[b] : PhiBase(phis[b][j]) = v})
    + Cardinality({m \in 1 .. k - 1 : Base(v) \in Defs(code[b][m])})

\* The top of the stack of v where the walk enters block b; the arguments are
\* pushed in the entry.
OnEntry(b, v) ==
    IF stacks[v] # <<>> THEN Last(stacks[v])
    ELSE IF b = Entry /\ v \in prog.params THEN Base(v) ELSE Undef(v)

\* The top of the stack of v in front of the k-th instruction.
Reaching(b, v, k) ==
    LET n == DefsBefore(b, v, k)
    IN  IF n = 0 THEN OnEntry(b, v) ELSE Version(v, counters[v] + n)
AtEnd(b, v) == Reaching(b, v, Len(code[b]) + 1)

\* Mutation: an instruction that reads what it writes reads its own name.
NameOf_WritesFirst(b, k, op) == [op EXCEPT !.regs = [i \in DOMAIN op.regs |-> Reaching(b, BaseOf(op.regs[i]), k + 1)]]
\* What is read, base and index of memory operands included, takes the
\* definition that reaches, what is written a new name.
NameOf(b, k, op) ==
    [op EXCEPT !.regs =
        [i \in DOMAIN op.regs |-> Reaching(b, BaseOf(op.regs[i]), IF op.acc = "R" THEN k ELSE k + 1)]]

Renamed(b) ==
    [k \in DOMAIN code[b] |->
        [code[b][k] EXCEPT !.ops = [o \in DOMAIN code[b][k].ops |-> NameOf(b, k, code[b][k].ops[o])]]]
RenamedPhis(b) ==
    [j \in DOMAIN phis[b] |->
        [phis[b][j] EXCEPT !.ops[1] = Reg(Version(PhiBase(phis[b][j]), counters[PhiBase(phis[b][j])] + 1), "W")]]

\* The place of block b among the predecessors of s.
PredIndex(b, s) == CHOOSE k \in DOMAIN Preds(s) : Preds(s)[k] = b

\* The operand of the phis of a successor s for block b.
Populated(b, s, heads) ==
    [j \in DOMAIN heads |->
        IF 1 + PredIndex(b, s) \in DOMAIN heads[j].ops
        THEN [heads[j] EXCEPT !.ops[1 + PredIndex(b, s)] = Reg(AtEnd(b, PhiBase(heads[j])), "R")]
        ELSE heads[j]]

DomChildren(b) == Ascending({c \in DOMAIN idom : idom[c] = b /\ c # b})
Pushed(b, v) == DefsBefore(b, v, Len(code[b]) + 1) + (IF b = Entry /\ v \in prog.params THEN 1 ELSE 0)

\* renameBlock up to its recursive calls: the phis, the body, and the operand
\* for this block of the phis of its successors.
RenameBlock ==
    /\ phase = "rename" /\ frames # <<>> /\ ~Last(frames).entered
    /\ LET b == Last(frames).block
           named == [phis EXCEPT ![b] = RenamedPhis(b)]
           New(v) == [n \in 1 .. DefsBefore(b, v, Len(code[b]) + 1) |-> Version(v, counters[v] + n)]
           Args(v) == IF b = Entry /\ v \in prog.params THEN <<Base(v)>> ELSE <<>>
       IN  /\ code' = [code EXCEPT ![b] = Renamed(b)]
           /\ phis' = [s \in Blocks |-> IF s \in prog.succ[b] THEN Populated(b, s, named[s]) ELSE named[s]]
           /\ stacks' = [v \in DOMAIN stacks |-> stacks[v] \o Args(v) \o New(v)]
           /\ counters' = [v \in DOMAIN counters |-> counters[v] + Len(New(v))]
           /\ frames' = Append(Front(frames),
                  [block |-> b, entered |-> TRUE, children |-> DomChildren(b),
                   pushed |-> [v \in DOMAIN stacks |-> Pushed(b, v)]])
    /\ UNCHANGED <<prog, phase, defSites, dominance, placement>>

\* Into the next child of the dominator tree.
Descend ==
    /\ phase = "rename" /\ frames # <<>> /\ Last(frames).entered /\ Last(frames).children # <<>>
    /\ LET top == Last(frames)
           rest == [top EXCEPT !.children = Tail(top.children)]
       IN  frames' = Append(Append(Front(frames), rest), Frame(Head(top.children)))
    /\ UNCHANGED <<prog, phase, defSites, dominance, placement, phis, code, stacks, counters>>

\* Mutation: the definitions of a subtree stay on the stacks.
Popped_Nothing(old, n) == old
\* A stack without the last n registers.
Popped(old, n) == SubSeq(old, 1, Len(old) - n)

Leave ==
    /\ phase = "rename" /\ frames # <<>> /\ Last(frames).entered /\ Last(frames).children = <<>>
    /\ stacks' = [v \in DOMAIN stacks |-> Popped(stacks[v], Last(frames).pushed[v])]
    /\ frames' = Front(frames)
    /\ phase' = IF Len(frames) = 1 THEN "done" ELSE phase
    /\ UNCHANGED <<prog, defSites, dominance, placement, phis, code, counters>>

SsaNext ==
    \/ BuildDefSites \/ EnterSuccessor \/ LeaveBlock \/ StartDominators
    \/ VisitBlock \/ Sweep \/ BuildFrontier
    \/ TakeRegister \/ PlacePhis \/ StartRenaming
    \/ RenameBlock \/ Descend \/ Leave

SsaSpec == SsaInit /\ [][SsaNext]_ssaVars /\ WF_ssaVars(SsaNext)
-----------------------------------------------------------------------------
(* Dominance by its definition.                                            *)

\* The blocks that a path from the entry gets to without going through a: those
\* in every set that has the entry and is closed under such steps.
ReachedWithout(a) ==
    {b \in Blocks : \A S \in SUBSET (Blocks \ {a}) :
        {Entry} \ {a} \subseteq S /\ (\A c \in S : prog.succ[c] \ {a} \subseteq S) => b \in S}
Reached == ReachedWithout(0)
Dominated == [a \in Reached |-> Reached \ ReachedWithout(a)]

(* What the function computes, told by where its operands come from.       *)

\* The ways from the entry through n blocks.
Walks(n) ==
    LET ways[k \in 1 .. n] ==
            IF k = 1 THEN {<<Entry>>}
            ELSE UNION {{Append(p, b) : b \in prog.succ[Last(p)]} : p \in ways[k - 1]}
    IN  ways[n]

\* The argument that a register holds before anything is executed, or nothing.
Initially(r) == IF r[2][2] = 0 /\ BaseOf(r) \in prog.params THEN <<0, BaseOf(r)>> ELSE <<0, 0>>

\* Which instruction has given register r the value it holds in front of the
\* j-th one of the k-th block of a path: the last one that has written it; a
\* phi passes on what its operand holds where control comes from.
Supplier(body, merges, path, k, j, r) ==
    LET \* The value in front of instruction i of block m, given the one at the end of the block before.
        Given(m, i, q, Before(_)) ==
            LET b == path[m]
                writers == {w \in 1 .. i - 1 : q \in Defs(body[b][w])}
                phi == SelectInSeq(merges[b], LAMBDA x : x.ops[1].regs[1] = q)
            IN  IF writers # {} THEN <<m, Max(writers)>>
                ELSE IF m = 1 THEN Initially(q)
                ELSE IF phi = 0 THEN Before(q)
                ELSE Before(merges[b][phi].ops[1 + PredIndex(path[m - 1], b)].regs[1])
        atEnd[m \in 1 .. Len(path), q \in {r} \cup RegsOf(body) \cup RegsOf(merges)] ==
            Given(m, Len(body[path[m]]) + 1, q, LAMBDA x : atEnd[m - 1, x])
    IN  Given(k, j, r, LAMBDA x : atEnd[k - 1, x])

-----------------------------------------------------------------------------
(* Properties.                                                             *)

\* buildImmDomTree and buildDominanceFrontier: once the sweeps change nothing,
\* the tree holds the closest strict dominator of every block that can be
\* reached, and no other block; the frontier of a block is where its dominance
\* ends.  An entry that is the head of a loop does not count: control also gets
\* there from the caller, which is no predecessor in the graph.
DominanceExact ==
    phase = "place" =>
        LET dominated == Dominated
            Strictly(a) == dominated[a] \ {a}
            heads == {Entry} \cap UNION {prog.succ[p] : p \in DOMAIN dominated}
        IN  /\ DOMAIN idom = DOMAIN dominated
            /\ \A b \in DOMAIN dominated \ {Entry} :
                  /\ b \in Strictly(idom[b])
                  /\ \A a \in DOMAIN dominated : b \in Strictly(a) => idom[b] \in dominated[a]
            /\ \A a \in DOMAIN dominated :
                  frontier[a] \ heads = ((UNION {prog.succ[p] : p \in dominated[a]}) \ Strictly(a)) \ heads

\* The instructions of a block that define a register, phis at place 0.
DefsIn(r, b) ==
    {<<0, j>> : j \in {j \in DOMAIN phis[b] : r \in Defs(phis[b][j])}}
    \cup {<<k, 1>> : k \in {k \in DOMAIN code[b] : r \in Defs(code[b][k])}}
IsGiven(r) == r[2][2] = -1 \/ (r[2][2] = 0 /\ BaseOf(r) \in prog.params)
AvailableAtEnd(dominated, r, b) ==
    IsGiven(r) \/ \E a \in DOMAIN dominated : b \in dominated[a] /\ DefsIn(r, a) # {}
AvailableAt(dominated, r, b, k) ==
    \/ \E d \in DefsIn(r, b) : d[1] < k
    \/ DefsIn(r, b) = {} /\ AvailableAtEnd(dominated, r, b)

\* renameVariables: afterwards no register has two definitions in the code that
\* can be reached, and every use is behind its definition on every path, that
\* of a phi at the end of the predecessor its operand stands for.
StrictSsa ==
    phase = "done" =>
        LET dominated == Dominated
            reached == DOMAIN dominated
        IN  /\ \A r \in RegsOf(code) \cup RegsOf(phis) :
                  Cardinality(UNION {{<<b, d>> : d \in DefsIn(r, b)} : b \in reached}) <= IF IsGiven(r) THEN 0 ELSE 1
            /\ \A b \in reached :
                  /\ \A k \in DOMAIN code[b] : \A r \in Uses(code[b][k]) : AvailableAt(dominated, r, b, k)
                  /\ \A j \in DOMAIN phis[b] : \A p \in reached : b \in prog.succ[p] =>
                         AvailableAtEnd(dominated, phis[b][j].ops[1 + PredIndex(p, b)].regs[1], p)

\* The pass as a whole: on every path each operand comes from the same execution
\* of the same instruction as before, or is the same argument, whatever has
\* been defined on which side of a join.
MeaningKept ==
    phase = "done" =>
        \A n \in 1 .. LongestPath : \A path \in Walks(n) :
            LET b == path[n]
                NoPhis == [c \in Blocks |-> <<>>]
            IN  \A k \in DOMAIN code[b] : \A o \in {o \in DOMAIN code[b][k].ops : code[b][k].ops[o].acc = "R"} :
                    \A i \in DOMAIN code[b][k].ops[o].regs :
                        Supplier(code, phis, path, n, k, code[b][k].ops[o].regs[i])
                            = Supplier(prog.body, NoPhis, path, n, k, prog.body[b][k].ops[o].regs[i])

\* The sweeps over the dominator tree come to an end, as do the worklist of the
\* phis and the walk that renames: the loops only go on while they change something.
Completes == <>(phase = "done")
=============================================================================
