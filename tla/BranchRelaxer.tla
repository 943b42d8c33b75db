---------------------------- MODULE BranchRelaxer ----------------------------
(***************************************************************************)
(* The branch relaxers of the two targets (BranchRelaxer of x86-64 and     *)
(* RiscV64BranchRelaxer): a stream of bytes, labels and branches, filled   *)
(* by its client, and relaxAndResolve, which widens the branches whose     *)
(* displacement has no room in the short form and then emits the code.     *)
(*                                                                         *)
(* The two differ in sizes, in what a displacement counts from, in which   *)
(* branches have a long form and in a last layout pass that only x86-64    *)
(* has; an encoding says which.  Offsets stay far below the 32 bits of the *)
(* long forms.                                                             *)
(***************************************************************************)
EXTENDS Integers, Sequences, FiniteSets

CONSTANTS
    Labels,      \* the labels the client may use
    DataSizes,   \* the lengths of the byte strings it may append, per encoding
    MaxItems     \* bound on the length of the stream

Forms == {"jmp", "jcc"}

\* BranchItem::getSize and the short range, per encoding.  "base" is what is
\* added to the offset of a short branch to get the address its displacement
\* counts from, "longBase" the same for the long form; "skip" is the
\* displacement of the inverted branch in front of a long RISC-V jump;
\* "period" is the number of values the short field can hold.
X86 == [short |-> [jmp |-> 2, jcc |-> 2], long |-> [jmp |-> 5, jcc |-> 6],
        base |-> 2, longBase |-> [jmp |-> 5, jcc |-> 6], skip |-> 0,
        relaxes |-> Forms, low |-> -128, high |-> 127, period |-> 256,
        lastLayout |-> TRUE]

RiscV == [short |-> [jmp |-> 4, jcc |-> 4], long |-> [jmp |-> 4, jcc |-> 8],
          base |-> 0, longBase |-> [jmp |-> 0, jcc |-> 4], skip |-> 8,
          relaxes |-> {"jcc"}, low |-> -4096, high |-> 4094, period |-> 8192,
          lastLayout |-> FALSE]

Encodings == {X86, RiscV}

\* A label that is not defined (a key the hash map does not have).
Undefined == -1

DataItems == [kind : {"data"}, size : Nat]
LabelItems == [kind : {"label"}, label : Labels]
BranchItems == [kind : Forms, label : Labels, relaxed : BOOLEAN]
Items == DataItems \cup LabelItems \cup BranchItems

ASSUME DataSizesAssumption == DataSizes \in [Encodings -> SUBSET Nat]
ASSUME LabelsAssumption == Labels # {}
\* RISC-V code comes in whole instructions: the lowest bit of a displacement,
\* which its branches do not encode, is never set.
ASSUME AlignmentAssumption == \A n \in DataSizes[RiscV] : n % 4 = 0

VARIABLES
    enc,        \* the encoding of the target
    items,      \* m_items
    pc,         \* what the relaxer is doing
    pos,        \* the item its current loop is at
    offset,     \* currentOffset
    start,      \* the offset the last layout pass saw at each item
    labels,     \* labelOffsets, later resolvedLabels
    changed,    \* the flag of the loop
    relaxedCount, \* branches widened by this call
    rounds,     \* rounds of this call
    out         \* the displacements of the emitted branches, by item

vars == <<enc, items, pc, pos, offset, start, labels, changed, relaxedCount, rounds, out>>

NoLabels == [l \in Labels |-> Undefined]

Init ==
    /\ enc \in Encodings
    /\ items = <<>>
    /\ pc = "idle"
    /\ pos = 1
    /\ offset = 0
    /\ start = <<>>
    /\ labels = NoLabels
    /\ changed = FALSE
    /\ relaxedCount = 0
    /\ rounds = 0
    /\ out = <<>>

IsBranch(item) == item.kind \in Forms

\* The size of an item in code of encoding e, and in that of the target.
SizeIn(e, item) ==
    IF item.kind = "data" THEN item.size
    ELSE IF item.kind = "label" THEN 0
    ELSE IF item.relaxed THEN e.long[item.kind] ELSE e.short[item.kind]
Size(item) == SizeIn(enc, item)

\* A layout pass begins, over an empty map of labels.
BeginLayout(phase) ==
    /\ pc' = phase
    /\ pos' = 1
    /\ offset' = 0
    /\ start' = <<>>
    /\ labels' = NoLabels

\* relaxAndResolve is called (round 1), or the stream changes and what an
\* earlier call has returned is forgotten (round 0).
Restart(phase, round) ==
    /\ BeginLayout(phase)
    /\ changed' = FALSE
    /\ relaxedCount' = 0
    /\ rounds' = round
    /\ out' = <<>>

-----------------------------------------------------------------------------
(* The client.                                                             *)

Extend(item) ==
    /\ pc \in {"idle", "done"}
    /\ Len(items) < MaxItems
    /\ items' = Append(items, item)
    /\ Restart("idle", 0)
    /\ UNCHANGED enc

EmitBytes ==
    \E n \in DataSizes[enc] \ {0} : Extend([kind |-> "data", size |-> n])
DefineLabel ==
    \E l \in Labels : Extend([kind |-> "label", label |-> l])
EmitBranch ==
    \E f \in Forms, l \in Labels : Extend([kind |-> f, label |-> l, relaxed |-> FALSE])

Clear ==
    /\ pc \in {"idle", "done"}
    /\ items' = <<>>
    /\ Restart("idle", 0)
    /\ UNCHANGED enc

-----------------------------------------------------------------------------
(* relaxAndResolve.                                                        *)

Relax ==
    /\ pc \in {"idle", "done"}
    /\ Restart("layout", 1)
    /\ UNCHANGED <<enc, items>>

\* One item of a layout pass.  A later definition of a label replaces an
\* earlier one.
LayoutItem ==
    /\ pc \in {"layout", "final"}
    /\ pos <= Len(items)
    /\ start' = Append(start, offset)
    /\ labels' = IF items[pos].kind = "label"
                    THEN [labels EXCEPT ![items[pos].label] = offset]
                    ELSE labels
    /\ offset' = offset + Size(items[pos])
    /\ pos' = pos + 1
    /\ UNCHANGED <<enc, items, pc, changed, relaxedCount, rounds, out>>

\* Mutation: the second pass goes on where the first has ended.
LayoutDone_KeepsOffset ==
    /\ pc \in {"layout", "final"}
    /\ pos > Len(items)
    /\ pc' = IF pc = "layout" THEN "check" ELSE "emit"
    /\ pos' = 1
    /\ UNCHANGED <<enc, items, offset, start, labels, changed, relaxedCount, rounds, out>>
LayoutDone ==
    /\ pc \in {"layout", "final"}
    /\ pos > Len(items)
    /\ pc' = IF pc = "layout" THEN "check" ELSE "emit"
    /\ pos' = 1
    /\ offset' = 0
    /\ UNCHANGED <<enc, items, start, labels, changed, relaxedCount, rounds, out>>

\* The displacement a short branch at offset "at" needs.
Displacement(item, at) == labels[item.label] - (at + enc.base)

\* A branch in its short form that has a long one.
MayWiden(item) == item.kind \in enc.relaxes /\ ~item.relaxed

\* The branch has to be widened: it can be, it is short still, its label is
\* defined, and the displacement does not fit.
OutOfReach(item, at) ==
    /\ MayWiden(item)
    /\ labels[item.label] # Undefined
    /\ \/ Displacement(item, at) < enc.low
       \/ Displacement(item, at) > enc.high

\* One item of the second pass.  The offset counts the item in its new size;
\* the offsets of the labels are those of the layout pass.
CheckItem ==
    /\ pc = "check"
    /\ pos <= Len(items)
    /\ LET widen == OutOfReach(items[pos], offset)
           item  == IF widen THEN [items[pos] EXCEPT !.relaxed = TRUE] ELSE items[pos]
       IN  /\ items' = [items EXCEPT ![pos] = item]
           /\ changed' = (changed \/ widen)
           /\ relaxedCount' = relaxedCount + (IF widen THEN 1 ELSE 0)
           /\ offset' = offset + Size(item)
    /\ pos' = pos + 1
    /\ UNCHANGED <<enc, pc, start, labels, rounds, out>>

\* Mutation: a new round although nothing has changed.
NextRound_Always == TRUE
NextRound == changed

\* The end of a round: another one, or the code is emitted, by x86-64 after
\* one more layout pass.
CheckDone ==
    /\ pc = "check"
    /\ pos > Len(items)
    /\ IF NextRound
          THEN BeginLayout("layout") /\ changed' = FALSE /\ rounds' = rounds + 1
          ELSE /\ IF enc.lastLayout
                     THEN BeginLayout("final")
                     ELSE pc' = "emit" /\ pos' = 1 /\ offset' = 0 /\ UNCHANGED <<start, labels>>
               /\ UNCHANGED <<changed, rounds>>
    /\ UNCHANGED <<enc, items, relaxedCount, out>>

\* What is encoded for the branch at offset "at": the address its
\* displacement counts from, the displacement as the field holds it, and how
\* far the inverted branch in front of it jumps.  x86-64 takes offset 0 for a
\* label that is not defined (operator[] of the map), RISC-V displacement 0.
\* Mutation: the long RISC-V jump is encoded as if it were at "at".
Encoded_FromStart(item, at) ==
    LET base   == at + (IF item.relaxed THEN enc.longBase[item.kind] ELSE enc.base)
        target == IF labels[item.label] # Undefined THEN labels[item.label]
                  ELSE IF enc.lastLayout THEN 0 ELSE base
        disp   == target - (IF item.relaxed /\ enc.skip # 0 THEN at ELSE base)
    IN  [base |-> base,
         disp |-> IF item.relaxed \/ item.kind \notin enc.relaxes THEN disp
                  ELSE ((disp - enc.low) % enc.period) + enc.low,
         skip |-> IF item.relaxed THEN enc.skip ELSE 0]
Encoded(item, at) ==
    LET base   == at + (IF item.relaxed THEN enc.longBase[item.kind] ELSE enc.base)
        target == IF labels[item.label] # Undefined THEN labels[item.label]
                  ELSE IF enc.lastLayout THEN 0 ELSE base
        disp   == target - base
    IN  [base |-> base,
         disp |-> IF item.relaxed \/ item.kind \notin enc.relaxes THEN disp
                  ELSE ((disp - enc.low) % enc.period) + enc.low,
         skip |-> IF item.relaxed THEN enc.skip ELSE 0]

NoBranch == [base |-> 0, disp |-> 0, skip |-> 0]

\* One item of the emission.  operator[] leaves an entry for the label of an
\* x86-64 branch that is not defined.
EmitItem ==
    /\ pc = "emit"
    /\ pos <= Len(items)
    /\ out' = Append(out, IF IsBranch(items[pos]) THEN Encoded(items[pos], offset) ELSE NoBranch)
    /\ labels' = IF IsBranch(items[pos]) /\ enc.lastLayout /\ labels[items[pos].label] = Undefined
                    THEN [labels EXCEPT ![items[pos].label] = 0]
                    ELSE labels
    /\ offset' = offset + Size(items[pos])
    /\ pos' = pos + 1
    /\ UNCHANGED <<enc, items, pc, start, changed, relaxedCount, rounds>>

EmitDone ==
    /\ pc = "emit"
    /\ pos > Len(items)
    /\ pc' = "done"
    /\ UNCHANGED <<enc, items, pos, offset, start, labels, changed, relaxedCount, rounds, out>>

Next ==
    \/ EmitBytes \/ DefineLabel \/ EmitBranch \/ Clear
    \/ Relax \/ LayoutItem \/ LayoutDone \/ CheckItem \/ CheckDone
    \/ EmitItem \/ EmitDone

Spec == Init /\ [][Next]_vars

-----------------------------------------------------------------------------
(* Properties.                                                             *)

\* Types.
TypeOK ==
    /\ enc \in Encodings
    /\ items \in Seq(Items)
    /\ pc \in {"idle", "layout", "check", "final", "emit", "done"}
    /\ pos \in Nat
    /\ pc \in {"layout", "check", "final", "emit"} => pos \in 1 .. Len(items) + 1
    /\ offset \in Nat
    /\ start \in Seq(Nat)
    /\ labels \in [Labels -> Nat \cup {Undefined}]
    /\ changed \in BOOLEAN
    /\ relaxedCount \in Nat
    /\ rounds \in Nat
    /\ out \in Seq([base : Int, disp : Int, skip : Int])

\* The offsets of the last layout pass are the positions the items have in
\* the code that is emitted.
IsLayout ==
    /\ Len(start) = Len(items)
    /\ items # <<>> => start[1] = 0
    /\ \A k \in 1 .. Len(items) - 1 : start[k + 1] = start[k] + Size(items[k])

\* The last definition of label l in the stream.
LastDefinition(l, k) ==
    /\ items[k].kind = "label" /\ items[k].label = l
    /\ \A j \in k + 1 .. Len(items) : ~(items[j].kind = "label" /\ items[j].label = l)

\* From the moment the loop of relaxAndResolve ends, every branch left in its
\* short form has a displacement the short field can hold, measured in the
\* layout that is emitted: no branch was passed over because the labels of
\* its round were those of the smaller code.
ShortFormsFit ==
    pc \in {"emit", "done"} =>
        /\ IsLayout
        /\ \A k, d \in 1 .. Len(items) :
              MayWiden(items[k]) /\ LastDefinition(items[k].label, d) =>
                  start[d] - (start[k] + enc.base) \in enc.low .. enc.high

\* Every emitted branch whose label is defined leads to the place where the
\* emitted code has the last definition of that label, and the inverted
\* branch in front of a long RISC-V jump leads behind that jump.
LandsOnLabel ==
    pc = "done" =>
        \A k, d \in 1 .. Len(items) :
            IsBranch(items[k]) /\ LastDefinition(items[k].label, d) =>
                /\ out[k].base + out[k].disp = start[d]
                /\ out[k].skip \in {0, Size(items[k])}

\* The labels reported to the caller are the places of their definitions.
ResolvedWhereDefined ==
    pc = "done" => \A d \in 1 .. Len(items) :
        LastDefinition(items[d].label, d) => labels[items[d].label] = start[d]

\* Every round but the last widens a branch, and a branch is widened once:
\* the loop ends after at most one round more than there are branches.
RoundsBounded ==
    pc \in {"layout", "check", "final", "emit"} =>
        /\ rounds <= relaxedCount + 1
        /\ relaxedCount <= Cardinality({k \in 1 .. Len(items) : IsBranch(items[k]) /\ items[k].relaxed})

\* A widened branch stays wide while its item exists: the loop cannot
\* alternate between two layouts.
OnlyGrows ==
    [][items' = <<>> \/ (/\ Len(items') >= Len(items)
                         /\ \A k \in 1 .. Len(items) : Size(items'[k]) >= Size(items[k]))]_vars
=============================================================================
