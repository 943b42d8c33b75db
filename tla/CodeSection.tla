----------------------------- MODULE CodeSection -----------------------------
(***************************************************************************)
(* CodeSection, a section of the object file as a doubly linked stream of  *)
(* data, label and alignment nodes with a cursor, and the part of          *)
(* CodeEmitterContext that binds labels in it.  Nodes are inserted behind  *)
(* the cursor, bytes are added to the node at the cursor, and the offset   *)
(* of the cursor is kept as a running count that only a jump recomputes.   *)
(* SectionText says what all of this is for.                               *)
(*                                                                         *)
(* A node is the number of its allocation; Null stands for nullptr.        *)
(***************************************************************************)
EXTENDS Integers, Sequences, SequencesExt

CONSTANTS
    Bytes,       \* what a byte can hold
    Runs,        \* the sequences of bytes that are emitted at a time
    Fixups,      \* the sequences of bytes that are patched in
    PadByte,     \* m_padByte
    Labels,
    Alignments,
    Endianness,  \* m_endianness
    MaxNodes,    \* bound on the nodes of the stream
    MaxData      \* bound on the bytes of one node

Null == 0
Nodes == 1 .. MaxNodes
Kinds == {"Data", "Label", "Align"}
Endiannesses == {"Little", "Big"}

ASSUME NodesAssumption == MaxNodes \in Nat \ {0}
ASSUME BytesAssumption == Bytes \subseteq Nat /\ PadByte \in Bytes
ASSUME RunsAssumption ==
    /\ Runs \subseteq Seq(Bytes) /\ Fixups \subseteq Seq(Bytes)
    /\ \A run \in Runs : Reverse(run) \in Runs
    /\ \A fixup \in Fixups : Reverse(fixup) \in Fixups
ASSUME AlignmentsAssumption == Alignments \subseteq Nat \ {0}

VARIABLES
    kind, prev, next, data, alignment, calculatedOffset,  \* the fields of the nodes
    count,         \* how many nodes have been allocated
    head, tail, cursor,
    cursorOffset,  \* m_cursorOffset, the running offset of the cursor
    isFinalized,
    buffer,        \* m_buffer, the flattened bytes
    labelNode      \* CodeLabel::m_node

stream == <<kind, prev, next, data, alignment, count, head, tail>>
vars == <<stream, calculatedOffset, cursor, cursorOffset, isFinalized, buffer, labelNode>>

\* The constructor seeds the stream with an empty data node.
Init ==
    /\ kind = [n \in Nodes |-> "Data"]
    /\ prev = [n \in Nodes |-> Null]
    /\ next = [n \in Nodes |-> Null]
    /\ data = [n \in Nodes |-> <<>>]
    /\ alignment = [n \in Nodes |-> 1]
    /\ calculatedOffset = [n \in Nodes |-> 0]
    /\ count = 1
    /\ head = 1 /\ tail = 1 /\ cursor = 1
    /\ cursorOffset = 0
    /\ isFinalized = FALSE
    /\ buffer = <<>>
    /\ labelNode = [l \in Labels |-> Null]

-----------------------------------------------------------------------------
(* Reading the stream.                                                     *)

\* The nodes from the head on, as the loops over m_next meet them.
Chain ==
    LET From[n \in 0 .. MaxNodes] == IF n = Null THEN <<>> ELSE <<n>> \o From[next[n]]
    IN  From[head]

ChainUpTo(node) ==
    LET chain == Chain IN SubSeq(chain, 1, SelectInSeq(chain, LAMBDA n : n = node))

AlignUp(offset, a) ==
    IF a > 1 /\ offset % a # 0 THEN offset + (a - (offset % a)) ELSE offset

\* computeOffsetTo: a replay up to and including the node.
Advance(offset, n) ==
    CASE kind[n] = "Data"  -> offset + Len(data[n])
      [] kind[n] = "Align" -> AlignUp(offset, alignment[n])
      [] kind[n] = "Label" -> offset
ComputeOffsetTo(node) == FoldLeft(Advance, 0, ChainUpTo(node))

GetCurrentOffset == IF isFinalized THEN Len(buffer) ELSE cursorOffset

-----------------------------------------------------------------------------
(* Writing.                                                                *)

\* insertNodeAfter: the target is the cursor, which is never null.
InsertNodeAfter(target) ==
    /\ count < MaxNodes
    /\ count' = count + 1
    /\ next' = [next EXCEPT ![count'] = next[target], ![target] = count']
    /\ prev' = [n \in Nodes |-> IF n = count' THEN target
                                ELSE IF n = next[target] THEN count' ELSE prev[n]]
    /\ tail' = IF next[target] = Null THEN count' ELSE tail
    /\ head' = head
    /\ cursor' = count'

\* emit8 to emit64 and emitBytes, which write into the node at the cursor
\* when it holds data and into a new one behind it otherwise.
EmitBytes(bytes) ==
    /\ IF kind[cursor] = "Data"
       THEN /\ data' = [data EXCEPT ![cursor] = @ \o bytes]
            /\ UNCHANGED <<kind, prev, next, count, head, tail, cursor>>
       ELSE /\ InsertNodeAfter(cursor)
            /\ kind' = [kind EXCEPT ![count'] = "Data"]
            /\ data' = [data EXCEPT ![count'] = bytes]
    /\ \A n \in Nodes : Len(data'[n]) <= MaxData
    /\ cursorOffset' = cursorOffset + Len(bytes)
    /\ UNCHANGED <<alignment, calculatedOffset, isFinalized, buffer, labelNode>>

\* emitBytesWithEndian: bytes of the other order are turned around.
InOrder(bytes, endianness) == IF endianness = Endianness THEN bytes ELSE Reverse(bytes)
EmitBytesWithEndian(bytes, endianness) == EmitBytes(InOrder(bytes, endianness))

\* Mutation: the padding is left to finalize.
AlignTo_Late(a) ==
    /\ InsertNodeAfter(cursor)
    /\ kind' = [kind EXCEPT ![count'] = "Align"]
    /\ alignment' = [alignment EXCEPT ![count'] = a]
    /\ UNCHANGED <<data, cursorOffset, calculatedOffset, isFinalized, buffer, labelNode>>

AlignTo(a) ==
    /\ InsertNodeAfter(cursor)
    /\ kind' = [kind EXCEPT ![count'] = "Align"]
    /\ alignment' = [alignment EXCEPT ![count'] = a]
    /\ cursorOffset' = AlignUp(cursorOffset, a)
    /\ UNCHANGED <<data, calculatedOffset, isFinalized, buffer, labelNode>>

\* setCursor; resetCursorToEnd is the jump to the tail.
SetCursor(node) ==
    /\ cursor' = node
    /\ cursorOffset' = ComputeOffsetTo(node)
    /\ UNCHANGED <<stream, calculatedOffset, isFinalized, buffer, labelNode>>
ResetCursorToEnd == SetCursor(tail)

\* CodeEmitterContext::bindLabel: the first time the label gets a node at the
\* cursor, any other time the cursor goes back to that node.
BindLabel(l) ==
    IF labelNode[l] = Null
    THEN /\ InsertNodeAfter(cursor)
         /\ kind' = [kind EXCEPT ![count'] = "Label"]
         /\ labelNode' = [labelNode EXCEPT ![l] = count']
         /\ UNCHANGED <<data, alignment, cursorOffset, calculatedOffset, isFinalized, buffer>>
    ELSE SetCursor(labelNode[l])

-----------------------------------------------------------------------------
(* The flattened section.                                                  *)

Padding(size, a) == [k \in 1 .. AlignUp(size, a) - size |-> PadByte]

\* Mutation: a label takes the offset of what follows it.
Flatten_LateLabels(flat, n) ==
    CASE kind[n] = "Data"  -> [flat EXCEPT !.bytes = @ \o data[n]]
      [] kind[n] = "Align" -> [flat EXCEPT !.bytes = @ \o Padding(Len(@), alignment[n])]
      [] kind[n] = "Label" ->
            [flat EXCEPT !.offset[n] =
                Len(flat.bytes) + (IF next[n] = Null THEN 0 ELSE Len(data[next[n]]))]
Flatten(flat, n) ==
    CASE kind[n] = "Data"  -> [flat EXCEPT !.bytes = @ \o data[n]]
      [] kind[n] = "Align" -> [flat EXCEPT !.bytes = @ \o Padding(Len(@), alignment[n])]
      [] kind[n] = "Label" -> [flat EXCEPT !.offset[n] = Len(flat.bytes)]

Finalize ==
    LET flat == FoldLeft(Flatten, [bytes |-> <<>>, offset |-> calculatedOffset], Chain)
    IN  /\ buffer' = flat.bytes
        /\ calculatedOffset' = flat.offset
        /\ cursorOffset' = Len(buffer')
        /\ isFinalized' = TRUE
        /\ UNCHANGED <<stream, cursor, labelNode>>

\* patch32, patch64 and patchBytesWithEndian, which refuse an image that is
\* not there yet and a place outside it.
Patch(at, bytes, endianness) ==
    /\ isFinalized
    /\ at + Len(bytes) <= Len(buffer)
    /\ buffer' = [k \in 1 .. Len(buffer) |->
                     IF k \in at + 1 .. at + Len(bytes)
                     THEN InOrder(bytes, endianness)[k - at] ELSE buffer[k]]
    /\ UNCHANGED <<stream, calculatedOffset, cursor, cursorOffset, isFinalized, labelNode>>

Next ==
    \/ \E bytes \in Runs, e \in Endiannesses : EmitBytesWithEndian(bytes, e)
    \/ \E a \in Alignments : AlignTo(a)
    \/ \E l \in Labels : BindLabel(l)
    \/ ResetCursorToEnd
    \/ Finalize
    \/ \E at \in 0 .. Len(buffer), bytes \in Fixups, e \in Endiannesses : Patch(at, bytes, e)

Spec == Init /\ [][Next]_vars
-----------------------------------------------------------------------------
(* Properties.                                                             *)

TypeOK ==
    /\ kind \in [Nodes -> Kinds]
    /\ prev \in [Nodes -> 0 .. MaxNodes] /\ next \in [Nodes -> 0 .. MaxNodes]
    /\ data \in [Nodes -> Seq(Bytes)]
    /\ alignment \in [Nodes -> Alignments \cup {1}]
    /\ calculatedOffset \in [Nodes -> Nat]
    /\ count \in Nodes
    /\ {head, tail, cursor} \subseteq 1 .. count
    /\ cursorOffset \in Nat
    /\ isFinalized \in BOOLEAN
    /\ buffer \in Seq(Bytes)
    /\ labelNode \in [Labels -> 0 .. count]

\* The links of insertNodeAfter agree in both directions: what follows a node
\* points back at it, and the ends of the list are the head and the tail.
LinksAgree ==
    \A n \in 1 .. count :
        /\ next[n] \in 0 .. count /\ prev[n] \in 0 .. count
        /\ next[n] # Null => prev[next[n]] = n
        /\ prev[n] # Null => next[prev[n]] = n
        /\ next[n] = Null <=> n = tail
        /\ prev[n] = Null <=> n = head

\* "Running byte offset of m_cursor, kept in sync with finalize()": the count
\* that emits and alignments keep is what a replay of the stream would give.
CursorOffsetExact == ~isFinalized => cursorOffset = ComputeOffsetTo(cursor)

\* The stream is a section text: what is written lands where the reported
\* offset says, labels where the text has them, and the flattened bytes are
\* the layout of the text, wherever the cursor was sent in between.
ItemsOf(n) ==
    CASE kind[n] = "Data"  -> [k \in 1 .. Len(data[n]) |-> [kind |-> "byte", value |-> data[n][k]]]
      [] kind[n] = "Align" -> <<[kind |-> "align", value |-> alignment[n]]>>
      [] kind[n] = "Label" -> <<[kind |-> "label", value |-> CHOOSE l \in Labels : labelNode[l] = n]>>
Collect(items, n) == items \o ItemsOf(n)
TextOf(nodes) == FoldLeft(Collect, <<>>, nodes)

Text == INSTANCE SectionText WITH
    text     <- TextOf(Chain),
    position <- Len(TextOf(ChainUpTo(cursor))),
    image    <- IF isFinalized THEN buffer ELSE <<-1>>,
    offset   <- GetCurrentOffset,
    address  <- [l \in Labels |-> IF labelNode[l] = Null THEN 0 ELSE calculatedOffset[labelNode[l]]]

ImplementsText == Text!Spec
=============================================================================
