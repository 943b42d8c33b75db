----------------------------- MODULE SectionText -----------------------------
(***************************************************************************)
(* What a section of an object file promises its users: a text of bytes,   *)
(* label marks and alignment marks, written at a position that can be put  *)
(* back to a label or to the end, and laid out as an image.  The section   *)
(* tells where its next byte will land until it is laid out, and the size  *)
(* of its image from then on.                                              *)
(***************************************************************************)
EXTENDS Integers, Sequences, SequencesExt

CONSTANTS
    Bytes,       \* what a byte can hold
    Runs,        \* the sequences of bytes that are written at a time
    Fixups,      \* the sequences of bytes that replace others in the image
    PadByte,     \* what alignment is filled up with
    Labels,
    Alignments

VARIABLES
    text,      \* the items in order
    position,  \* how many of them are before the place where the next one goes
    image,     \* the bytes of the section, once it is laid out
    offset,    \* the offset the section reports
    address    \* the address of each label, from when it is laid out

textVars == <<text, position, image, offset, address>>

Byte(b) == [kind |-> "byte", value |-> b]
Mark(l) == [kind |-> "label", value |-> l]
AlignMark(a) == [kind |-> "align", value |-> a]

NotLaidOut == <<-1>>  \* no byte is negative
NoAddress == 0

Padding(size, a) == [k \in 1 .. ((a - (size % a)) % a) |-> PadByte]

\* The bytes that a text stands for.
Place(bytes, item) ==
    CASE item.kind = "byte"  -> Append(bytes, item.value)
      [] item.kind = "align" -> bytes \o Padding(Len(bytes), item.value)
      [] item.kind = "label" -> bytes
Layout(items) == FoldLeft(Place, <<>>, items)

\* The size of what is before place k.
Offset(items, k) == Len(Layout(SubSeq(items, 1, k)))

Places(items, l) == {k \in 1 .. Len(items) : items[k] = Mark(l)}

Reported(items, k, bytes) == IF bytes = NotLaidOut THEN Offset(items, k) ELSE Len(bytes)

Init ==
    /\ text = <<>>
    /\ position = 0
    /\ image = NotLaidOut
    /\ offset = 0
    /\ address = [l \in Labels |-> NoAddress]

\* A run of items goes in at the position, which moves behind it.
Write(run) ==
    /\ LET old == text at == position
       IN  /\ position' = at + Len(run)
           /\ text' = SubSeq(old, 1, at) \o run \o SubSeq(old, at + 1, Len(old))
    /\ offset' = Reported(text', position', image)
    /\ UNCHANGED <<image, address>>

Move ==
    /\ position' \in 0 .. Len(text)
    /\ offset' = Reported(text, position', image)
    /\ UNCHANGED <<text, image, address>>

LayOut ==
    /\ image' = Layout(text)
    /\ offset' = Len(image')
    /\ address' = [l \in Labels |->
                       IF Places(text, l) = {} THEN NoAddress
                       ELSE Offset(text, CHOOSE k \in Places(text, l) : TRUE)]
    /\ UNCHANGED <<text, position>>

\* Bytes of the image are replaced.
Patch(at, bytes) ==
    /\ image # NotLaidOut
    /\ at + Len(bytes) <= Len(image)
    /\ image' = [k \in 1 .. Len(image) |->
                    IF k \in at + 1 .. at + Len(bytes) THEN bytes[k - at] ELSE image[k]]
    /\ UNCHANGED <<text, position, offset, address>>

Next ==
    \/ \E b \in Runs : Write([k \in DOMAIN b |-> Byte(b[k])])
    \/ \E l \in Labels : Places(text, l) = {} /\ Write(<<Mark(l)>>)
    \/ \E a \in Alignments : Write(<<AlignMark(a)>>)
    \/ Move
    \/ LayOut
    \/ \E at \in 0 .. Len(image), b \in Fixups : Patch(at, b)

Spec == Init /\ [][Next]_textVars
=============================================================================
