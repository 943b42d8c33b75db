------------------------ MODULE BranchRelaxer_proofs ------------------------
(***************************************************************************)
(* What relaxAndResolve guarantees of every stream, of any length, over    *)
(* any labels and byte strings, for both encodings.                        *)
(***************************************************************************)
EXTENDS BranchRelaxer, FiniteSetTheorems, TLAPS

-----------------------------------------------------------------------------
(* Types.                                                                  *)

\* The sizes of an encoding are natural numbers, its long forms are not
\* shorter than its short ones, and only branches are widened.
LEMMA EncodingFacts ==
    ASSUME NEW e \in Encodings
    PROVE  /\ e.short \in [Forms -> Nat]
           /\ e.long \in [Forms -> Nat]
           /\ \A f \in Forms : e.short[f] <= e.long[f]
           /\ e.longBase \in [Forms -> Int]
           /\ e.base \in Int /\ e.low \in Int /\ e.high \in Int
           /\ e.skip \in Int /\ e.period \in Nat \ {0}
           /\ e.relaxes \subseteq Forms
           /\ e.lastLayout \in BOOLEAN
<1>1. CASE e = X86
  BY <1>1 DEF X86, Forms
<1>2. CASE e = RiscV
  BY <1>2 DEF RiscV, Forms
<1> QED
  BY <1>1, <1>2 DEF Encodings

\* An item has a size, and a kind of its own.
LEMMA ItemFacts ==
    ASSUME enc \in Encodings, NEW item \in Items
    PROVE  /\ Size(item) \in Nat
           /\ IsBranch(item) => item.label \in Labels /\ item.relaxed \in BOOLEAN
           /\ item.kind = "label" => item.label \in Labels
<1>1. enc.short \in [Forms -> Nat] /\ enc.long \in [Forms -> Nat]
  BY EncodingFacts
<1>2. CASE item \in DataItems
  BY <1>2 DEF DataItems, Size, SizeIn, IsBranch, Forms
<1>3. CASE item \in LabelItems
  BY <1>3 DEF LabelItems, Size, SizeIn, IsBranch, Forms
<1>4. CASE item \in BranchItems
  <2>1. item.kind \in Forms /\ item.label \in Labels /\ item.relaxed \in BOOLEAN
    BY <1>4 DEF BranchItems
  <2>2. item.kind # "data" /\ item.kind # "label"
    BY <2>1 DEF Forms
  <2>3. enc.long[item.kind] \in Nat /\ enc.short[item.kind] \in Nat
    BY <1>1, <2>1
  <2> QED
    BY <2>1, <2>2, <2>3 DEF Size, SizeIn, IsBranch
<1> QED
  BY <1>2, <1>3, <1>4 DEF Items

\* What CheckItem puts in the place of an item: the item, or a widened
\* branch.
LEMMA WidenedItem ==
    ASSUME enc \in Encodings, NEW item \in Items, OutOfReach(item, offset)
    PROVE  /\ [item EXCEPT !.relaxed = TRUE] \in Items
           /\ IsBranch(item)
           /\ Size([item EXCEPT !.relaxed = TRUE]) >= Size(item)
<1>1. item.kind \in Forms /\ ~item.relaxed
  BY EncodingFacts DEF OutOfReach, MayWiden
<1>2. item \in BranchItems
  BY <1>1 DEF Items, DataItems, LabelItems, Forms
<1> DEFINE wide == [item EXCEPT !.relaxed = TRUE]
<1>3. wide \in BranchItems /\ wide.kind = item.kind /\ wide.relaxed = TRUE
  BY <1>2 DEF BranchItems
<1>4. Size(wide) = enc.long[item.kind] /\ Size(item) = enc.short[item.kind]
  BY <1>1, <1>3 DEF Size, SizeIn, Forms
<1>5. enc.short[item.kind] <= enc.long[item.kind]
       /\ enc.short[item.kind] \in Nat /\ enc.long[item.kind] \in Nat
  BY <1>1, EncodingFacts
<1> QED
  BY <1>1, <1>3, <1>4, <1>5 DEF Items, IsBranch

\* A layout pass begins with a well typed state.
LEMMA BeginLayoutType ==
    ASSUME NEW phase, BeginLayout(phase)
    PROVE  /\ pos' = 1 /\ offset' = 0 /\ start' \in Seq(Nat) /\ start' = <<>>
           /\ labels' \in [Labels -> Nat \cup {Undefined}]
BY DEF BeginLayout, NoLabels, Undefined

\* So does a call, and a changed stream.
LEMMA RestartType ==
    ASSUME NEW phase, NEW round, round \in Nat, Restart(phase, round)
    PROVE  /\ pc' = phase /\ pos' = 1 /\ offset' = 0 /\ start' \in Seq(Nat)
           /\ labels' \in [Labels -> Nat \cup {Undefined}]
           /\ changed' \in BOOLEAN /\ relaxedCount' \in Nat /\ rounds' \in Nat
           /\ out' \in Seq([base : Int, disp : Int, skip : Int])
<1>1. BeginLayout(phase) /\ changed' = FALSE /\ relaxedCount' = 0 /\ rounds' = round /\ out' = <<>>
  BY DEF Restart
<1>2. out' \in Seq([base : Int, disp : Int, skip : Int])
  BY <1>1
<1>3. pc' = phase
  BY <1>1 DEF BeginLayout
<1> QED
  BY <1>1, <1>2, <1>3, BeginLayoutType

\* A stream grows by an item.
LEMMA ExtendType ==
    ASSUME TypeOK, NEW item \in Items, Extend(item)
    PROVE  TypeOK'
<1>1. items' \in Seq(Items)
  <2>1. items \in Seq(Items)
    BY DEF TypeOK
  <2>2. items' = Append(items, item)
    BY DEF Extend
  <2> QED
    BY <2>1, <2>2
<1>2. pc' = "idle" /\ enc' \in Encodings
  BY DEF Extend, Restart, BeginLayout, TypeOK
<1>3. /\ pos' = 1 /\ offset' = 0 /\ start' \in Seq(Nat)
      /\ labels' \in [Labels -> Nat \cup {Undefined}]
      /\ changed' \in BOOLEAN /\ relaxedCount' \in Nat /\ rounds' \in Nat
      /\ out' \in Seq([base : Int, disp : Int, skip : Int])
  <2>1. Restart("idle", 0)
    BY DEF Extend
  <2> QED
    BY <2>1, RestartType
<1> QED
  BY <1>1, <1>2, <1>3 DEF TypeOK

\* The length of the stream is a natural number, and a loop that has not left
\* the stream is at an item of it.
LEMMA LenType == TypeOK => Len(items) \in Nat
<1>1. TypeOK => items \in Seq(Items)
  BY DEF TypeOK
<1> QED
  BY <1>1

LEMMA HereType ==
    TypeOK /\ pc \in {"layout", "check", "final", "emit"} /\ pos <= Len(items)
        => pos \in 1 .. Len(items) /\ items[pos] \in Items
<1> SUFFICES ASSUME TypeOK, pc \in {"layout", "check", "final", "emit"}, pos <= Len(items)
             PROVE  pos \in 1 .. Len(items) /\ items[pos] \in Items
  OBVIOUS
<1>1. items \in Seq(Items) /\ pos \in 1 .. Len(items) + 1
  BY DEF TypeOK
<1>2. pos \in 1 .. Len(items)
  BY <1>1, LenType
<1> QED
  BY <1>1, <1>2

\* What is encoded for a branch consists of integers.
LEMMA EncodedType ==
    ASSUME TypeOK, NEW item \in Items, IsBranch(item), NEW at \in Nat
    PROVE  Encoded(item, at) \in [base : Int, disp : Int, skip : Int]
<1>1. item.kind \in Forms /\ item.label \in Labels /\ labels[item.label] \in Int
  BY ItemFacts DEF IsBranch, TypeOK, Undefined
<1>2. enc.longBase[item.kind] \in Int /\ enc.base \in Int /\ enc.low \in Int
      /\ enc.skip \in Int /\ enc.period \in Nat \ {0}
  BY <1>1, EncodingFacts DEF TypeOK
<1>3. \A d \in Int : (d - enc.low) % enc.period \in Int
  BY <1>2
<1> DEFINE base == at + (IF item.relaxed THEN enc.longBase[item.kind] ELSE enc.base)
           target == IF labels[item.label] # Undefined THEN labels[item.label]
                     ELSE IF enc.lastLayout THEN 0 ELSE base
           disp == target - base
<1>4. base \in Int
  BY <1>2
<1>5. target \in Int
  BY <1>1, <1>4
<1> HIDE DEF base, target
<1>6. disp \in Int /\ ((disp - enc.low) % enc.period) + enc.low \in Int
  BY <1>2, <1>3, <1>4, <1>5
<1> HIDE DEF disp
<1>7. Encoded(item, at) =
         [base |-> base,
          disp |-> IF item.relaxed \/ item.kind \notin enc.relaxes THEN disp
                   ELSE ((disp - enc.low) % enc.period) + enc.low,
          skip |-> IF item.relaxed THEN enc.skip ELSE 0]
  BY DEF Encoded, base, target, disp
<1>8. (IF item.relaxed THEN enc.skip ELSE 0) \in Int
  BY <1>2
<1> QED
  BY <1>4, <1>6, <1>7, <1>8

\* The initial state.
LEMMA InitType == Init => TypeOK
<1> SUFFICES ASSUME Init PROVE TypeOK
  OBVIOUS
<1>1. items \in Seq(Items) /\ start \in Seq(Nat) /\ out \in Seq([base : Int, disp : Int, skip : Int])
  BY DEF Init
<1>2. labels \in [Labels -> Nat \cup {Undefined}]
  BY DEF Init, NoLabels
<1> QED
  BY <1>1, <1>2 DEF Init, TypeOK

\* Every type, in every reachable state.
THEOREM TypeCorrect == Spec => []TypeOK
<1>1. Init => TypeOK
  BY InitType
<1>2. TypeOK /\ [Next]_vars => TypeOK'
  <2> SUFFICES ASSUME TypeOK, [Next]_vars PROVE TypeOK'
    OBVIOUS
  <2>1. CASE EmitBytes
    <3>1. PICK n \in DataSizes[enc] \ {0} : Extend([kind |-> "data", size |-> n])
      BY <2>1 DEF EmitBytes
    <3>2. [kind |-> "data", size |-> n] \in Items
      BY <3>1, DataSizesAssumption DEF TypeOK, Items, DataItems
    <3> QED
      BY <3>1, <3>2, ExtendType
  <2>2. CASE DefineLabel
    <3>1. PICK l \in Labels : Extend([kind |-> "label", label |-> l])
      BY <2>2 DEF DefineLabel
    <3>2. [kind |-> "label", label |-> l] \in Items
      BY DEF Items, LabelItems
    <3> QED
      BY <3>1, <3>2, ExtendType
  <2>3. CASE EmitBranch
    <3>1. PICK f \in Forms, l \in Labels : Extend([kind |-> f, label |-> l, relaxed |-> FALSE])
      BY <2>3 DEF EmitBranch
    <3>2. [kind |-> f, label |-> l, relaxed |-> FALSE] \in Items
      BY DEF Items, BranchItems
    <3> QED
      BY <3>1, <3>2, ExtendType
  <2>4. CASE Clear
    <3>1. items' \in Seq(Items) /\ enc' \in Encodings /\ Restart("idle", 0)
      BY <2>4 DEF Clear, TypeOK
    <3>2. pc' = "idle" /\ pos' = 1 /\ offset' = 0 /\ start' \in Seq(Nat)
          /\ labels' \in [Labels -> Nat \cup {Undefined}]
          /\ changed' \in BOOLEAN /\ relaxedCount' \in Nat /\ rounds' \in Nat
          /\ out' \in Seq([base : Int, disp : Int, skip : Int])
      BY <3>1, RestartType
    <3> QED
      BY <3>1, <3>2 DEF TypeOK
  <2>5. CASE Relax
    <3>1. items' = items /\ enc' = enc /\ Restart("layout", 1)
      BY <2>5 DEF Relax
    <3>2. items \in Seq(Items) /\ enc \in Encodings
      BY DEF TypeOK
    <3>3. Len(items) \in Nat
      BY <3>2
    <3>4. pc' = "layout" /\ pos' = 1 /\ offset' = 0 /\ start' \in Seq(Nat)
          /\ labels' \in [Labels -> Nat \cup {Undefined}]
          /\ changed' \in BOOLEAN /\ relaxedCount' \in Nat /\ rounds' \in Nat
          /\ out' \in Seq([base : Int, disp : Int, skip : Int])
      BY <3>1, RestartType
    <3> QED
      BY <3>1, <3>2, <3>3, <3>4 DEF TypeOK
  <2>6. CASE LayoutItem
    <3>1. items[pos] \in Items
      BY <2>6, HereType DEF LayoutItem
    <3>2. offset' \in Nat
      <4>1. offset' = offset + Size(items[pos]) /\ Size(items[pos]) \in Nat
        BY <2>6, <3>1, ItemFacts DEF LayoutItem, TypeOK
      <4> QED
        BY <4>1 DEF TypeOK
    <3>3. labels' \in [Labels -> Nat \cup {Undefined}]
      <4>1. labels \in [Labels -> Nat \cup {Undefined}] /\ offset \in Nat
        BY DEF TypeOK
      <4>2. items[pos].kind = "label" => items[pos].label \in Labels
        BY <3>1, ItemFacts DEF TypeOK
      <4>3. labels' = IF items[pos].kind = "label"
                         THEN [labels EXCEPT ![items[pos].label] = offset]
                         ELSE labels
        BY <2>6 DEF LayoutItem
      <4> QED
        BY <4>1, <4>2, <4>3
    <3>4. start' \in Seq(Nat)
      <4>1. start \in Seq(Nat) /\ offset \in Nat
        BY DEF TypeOK
      <4>2. start' = Append(start, offset)
        BY <2>6 DEF LayoutItem
      <4> QED
        BY <4>1, <4>2
    <3>5. pos \in 1 .. Len(items) /\ pos' = pos + 1
      BY <2>6, HereType DEF LayoutItem
    <3>6. UNCHANGED <<enc, items, pc, changed, relaxedCount, rounds, out>>
      BY <2>6 DEF LayoutItem
    <3>7. pos' \in 1 .. Len(items) + 1
      BY <3>5, LenType
    <3> QED
      BY <3>2, <3>3, <3>4, <3>5, <3>6, <3>7 DEF TypeOK
  <2>7. CASE LayoutDone
    BY <2>7 DEF LayoutDone, TypeOK
  <2>8. CASE CheckItem
    <3>1. items[pos] \in Items /\ pos \in 1 .. Len(items)
      BY <2>8, HereType DEF CheckItem
    <3> DEFINE widen == OutOfReach(items[pos], offset)
               item == IF widen THEN [items[pos] EXCEPT !.relaxed = TRUE] ELSE items[pos]
    <3>2. item \in Items
      BY <3>1, WidenedItem DEF TypeOK
    <3>3. Size(item) \in Nat
      BY <3>2, ItemFacts DEF TypeOK
    <3>4. items' = [items EXCEPT ![pos] = item] /\ offset' = offset + Size(item)
          /\ relaxedCount' = relaxedCount + (IF widen THEN 1 ELSE 0)
          /\ changed' = (changed \/ widen)
          /\ pos' = pos + 1
      BY <2>8 DEF CheckItem
    <3> HIDE DEF item, widen
    <3>5. items' \in Seq(Items) /\ Len(items') = Len(items)
      <4>1. items \in Seq(Items)
        BY DEF TypeOK
      <4> QED
        BY <3>1, <3>2, <3>4, <4>1
    <3>6. changed' \in BOOLEAN
      BY <3>4, Zenon
    <3>7. relaxedCount' \in Nat /\ offset' \in Nat
      BY <3>3, <3>4 DEF TypeOK
    <3>8. UNCHANGED <<enc, pc, start, labels, rounds, out>>
      BY <2>8 DEF CheckItem
    <3>9. pos' \in 1 .. Len(items') + 1
      BY <3>1, <3>4, <3>5, LenType
    <3> QED
      BY <3>5, <3>6, <3>7, <3>8, <3>9 DEF TypeOK
  <2>9. CASE CheckDone
    <3>1. UNCHANGED <<enc, items, relaxedCount, out>> /\ changed' \in BOOLEAN /\ rounds' \in Nat
      <4>1. /\ UNCHANGED <<enc, items, relaxedCount, out>>
            /\ changed' = FALSE \/ changed' = changed
            /\ rounds' = rounds + 1 \/ rounds' = rounds
        BY <2>9 DEF CheckDone
      <4>2. changed' \in BOOLEAN
        BY <4>1, Zenon DEF TypeOK
      <4>3. rounds' \in Nat
        BY <4>1 DEF TypeOK
      <4> QED
        BY <4>1, <4>2, <4>3
    <3>2. items \in Seq(Items) /\ enc \in Encodings /\ Len(items) \in Nat
      BY LenType DEF TypeOK
    <3>3. CASE NextRound \/ enc.lastLayout
      <4>1. BeginLayout("layout") \/ BeginLayout("final")
        BY <2>9, <3>3 DEF CheckDone
      <4>2. pc' \in {"layout", "final"}
        BY <4>1 DEF BeginLayout
      <4>3. pos' = 1 /\ offset' = 0 /\ start' \in Seq(Nat) /\ labels' \in [Labels -> Nat \cup {Undefined}]
        BY <4>1, BeginLayoutType
      <4> QED
        BY <3>1, <3>2, <4>2, <4>3 DEF TypeOK
    <3>4. CASE ~NextRound /\ ~enc.lastLayout
      <4>1. pc' = "emit" /\ pos' = 1 /\ offset' = 0 /\ UNCHANGED <<start, labels>>
        BY <2>9, <3>4 DEF CheckDone
      <4> QED
        BY <3>1, <3>2, <4>1 DEF TypeOK
    <3> QED
      BY <3>3, <3>4
  <2>10. CASE EmitItem
    <3>1. items[pos] \in Items
      BY <2>10, HereType DEF EmitItem
    <3>2. IsBranch(items[pos]) => Encoded(items[pos], offset) \in [base : Int, disp : Int, skip : Int]
      <4>1. offset \in Nat
        BY DEF TypeOK
      <4> QED
        BY <3>1, <4>1, EncodedType
    <3>3. NoBranch \in [base : Int, disp : Int, skip : Int]
      BY DEF NoBranch
    <3>4. out' \in Seq([base : Int, disp : Int, skip : Int])
      <4>1. out \in Seq([base : Int, disp : Int, skip : Int])
        BY DEF TypeOK
      <4>2. out' = Append(out, IF IsBranch(items[pos]) THEN Encoded(items[pos], offset) ELSE NoBranch)
        BY <2>10 DEF EmitItem
      <4> QED
        BY <3>2, <3>3, <4>1, <4>2
    <3>5. offset' \in Nat
      <4>1. offset' = offset + Size(items[pos]) /\ Size(items[pos]) \in Nat
        BY <2>10, <3>1, ItemFacts DEF EmitItem, TypeOK
      <4> QED
        BY <4>1 DEF TypeOK
    <3>6. labels' \in [Labels -> Nat \cup {Undefined}]
      <4>1. labels \in [Labels -> Nat \cup {Undefined}]
        BY DEF TypeOK
      <4>2. IsBranch(items[pos]) => items[pos].label \in Labels
        BY <3>1, ItemFacts DEF TypeOK
      <4>3. \/ labels' = labels
            \/ IsBranch(items[pos]) /\ labels' = [labels EXCEPT ![items[pos].label] = 0]
        BY <2>10 DEF EmitItem
      <4> QED
        BY <4>1, <4>2, <4>3
    <3>7. UNCHANGED <<enc, items, pc, start, changed, relaxedCount, rounds>> /\ pos' = pos + 1
      BY <2>10 DEF EmitItem
    <3>8. pos' \in 1 .. Len(items) + 1
      BY <2>10, <3>7, HereType, LenType DEF EmitItem
    <3> QED
      BY <3>4, <3>5, <3>6, <3>7, <3>8 DEF TypeOK
  <2>11. CASE EmitDone
    BY <2>11 DEF EmitDone, TypeOK
  <2>12. CASE UNCHANGED vars
    BY <2>12 DEF vars, TypeOK
  <2> QED
    BY <2>1, <2>2, <2>3, <2>4, <2>5, <2>6, <2>7, <2>8, <2>9, <2>10, <2>11, <2>12 DEF Next
<1> QED
  BY <1>1, <1>2, PTL DEF Spec

-----------------------------------------------------------------------------
(* The inductive invariant.  Its parts are stated of a stream its, offsets *)
(* f and a map of labels lab in encoding e.                                *)

\* Item d is the last of the first n that defines l.
LastUpTo(its, l, d, n) ==
    /\ its[d].kind = "label" /\ its[d].label = l
    /\ \A j \in d + 1 .. n : ~(its[j].kind = "label" /\ its[j].label = l)

\* The first n offsets are those of the items.
LayoutUpTo(e, its, f, n) ==
    /\ n >= 1 => f[1] = 0
    /\ \A k \in 1 .. n - 1 : f[k + 1] = f[k] + SizeIn(e, its[k])

\* o is the offset of item p.
Here(e, its, f, p, o) ==
    /\ p = 1 => o = 0
    /\ p > 1 => o = f[p - 1] + SizeIn(e, its[p - 1])

\* The map has every label that the first n items define, at its last
\* definition.
Knows(its, f, lab, n) ==
    \A d \in 1 .. n : \A l \in Labels : LastUpTo(its, l, d, n) => lab[l] = f[d]

\* The short branches among the first n items reach their labels.
FitUpTo(e, its, f, n) ==
    \A k \in 1 .. n, d \in 1 .. Len(its) :
        /\ its[k].kind \in e.relaxes /\ ~its[k].relaxed
        /\ LastUpTo(its, its[k].label, d, Len(its))
        => f[d] - (f[k] + e.base) \in e.low .. e.high

\* A layout pass has done the items before pos.
LayoutInv ==
    pc \in {"layout", "final"} =>
        /\ Len(start) = pos - 1
        /\ LayoutUpTo(enc, items, start, pos - 1)
        /\ Here(enc, items, start, pos, offset)
        /\ Knows(items, start, labels, pos - 1)

\* As long as a round has widened nothing, its offsets are exact and the
\* branches it has passed reach their labels.
CheckInv ==
    pc = "check" =>
        /\ Len(start) = Len(items)
        /\ ~changed => /\ LayoutUpTo(enc, items, start, Len(items))
                       /\ Here(enc, items, start, pos, offset)
                       /\ Knows(items, start, labels, Len(items))
                       /\ FitUpTo(enc, items, start, pos - 1)

\* The last layout pass of x86-64 repeats that of the last round.
FinalInv ==
    pc = "final" =>
        \E f \in Seq(Nat) :
            /\ Len(f) = Len(items)
            /\ LayoutUpTo(enc, items, f, Len(items))
            /\ FitUpTo(enc, items, f, Len(items))
            /\ \A k \in 1 .. pos - 1 : start[k] = f[k]

\* The emission works on a layout in which every short branch fits.
EmitInv ==
    pc \in {"emit", "done"} =>
        /\ Len(start) = Len(items)
        /\ LayoutUpTo(enc, items, start, Len(items))
        /\ Knows(items, start, labels, Len(items))
        /\ FitUpTo(enc, items, start, Len(items))
        /\ pc = "emit" => Here(enc, items, start, pos, offset)

\* Only branches with a long form are widened.
WideInv ==
    \A k \in 1 .. Len(items) :
        IsBranch(items[k]) /\ items[k].relaxed => items[k].kind \in enc.relaxes

\* The branch of item k leads to item d.
Lands(k, d) ==
    /\ out[k].base + out[k].disp = start[d]
    /\ out[k].skip \in {0, SizeIn(enc, items[k])}

\* The branches emitted so far lead to their labels.
OutInv ==
    /\ pc \in {"layout", "check", "final"} => out = <<>>
    /\ pc \in {"emit", "done"} =>
          /\ Len(out) = IF pc = "emit" THEN pos - 1 ELSE Len(items)
          /\ \A k \in 1 .. Len(out), d \in 1 .. Len(items) :
                IsBranch(items[k]) /\ LastUpTo(items, items[k].label, d, Len(items))
                    => Lands(k, d)

\* The relaxer's own part, and all of it.
LoopInv == TypeOK /\ LayoutInv /\ CheckInv /\ FinalInv /\ EmitInv
IInv == LoopInv /\ WideInv /\ OutInv

-----------------------------------------------------------------------------
(* The steps of the loops.                                                 *)

\* At an item of the stream whose offsets are known, the running offset is
\* the one the layout has for it.
LEMMA HereIs ==
    ASSUME NEW e, NEW its, NEW f, NEW n \in Nat, NEW p \in 1 .. n, NEW o,
           LayoutUpTo(e, its, f, n), Here(e, its, f, p, o)
    PROVE  o = f[p]
<1>1. CASE p = 1
  BY <1>1 DEF LayoutUpTo, Here
<1>2. CASE p > 1
  <2>1. p - 1 \in 1 .. n - 1 /\ (p - 1) + 1 = p
    BY <1>2
  <2> QED
    BY <1>2, <2>1 DEF LayoutUpTo, Here
<1> QED
  BY <1>1, <1>2

\* One more item of a layout pass.
LEMMA LayoutStep ==
    ASSUME NEW e, NEW its, NEW f \in Seq(Nat), NEW p \in Nat \ {0}, NEW o \in Nat,
           Len(f) = p - 1, LayoutUpTo(e, its, f, p - 1), Here(e, its, f, p, o)
    PROVE  /\ Len(Append(f, o)) = p
           /\ LayoutUpTo(e, its, Append(f, o), p)
           /\ Here(e, its, Append(f, o), p + 1, o + SizeIn(e, its[p]))
<1> DEFINE g == Append(f, o)
<1>1. Len(g) = p /\ g[p] = o /\ \A k \in 1 .. p - 1 : g[k] = f[k]
  OBVIOUS
<1> HIDE DEF g
<1>2. g[1] = 0
  <2>1. CASE p = 1
    BY <1>1, <2>1 DEF Here
  <2>2. CASE p > 1
    BY <1>1, <2>2 DEF LayoutUpTo
  <2> QED
    BY <2>1, <2>2
<1>3. ASSUME NEW k \in 1 .. p - 1
      PROVE  g[k + 1] = g[k] + SizeIn(e, its[k])
  <2>1. CASE k = p - 1
    BY <1>1, <2>1 DEF Here
  <2>2. CASE k < p - 1
    <3>1. k \in 1 .. (p - 1) - 1 /\ k \in 1 .. p - 1 /\ k + 1 \in 1 .. p - 1
      BY <2>2
    <3> QED
      BY <1>1, <3>1 DEF LayoutUpTo
  <2> QED
    BY <2>1, <2>2
<1>4. Here(e, its, g, p + 1, o + SizeIn(e, its[p]))
  BY <1>1 DEF Here
<1> QED
  BY <1>1, <1>2, <1>3, <1>4 DEF LayoutUpTo, g

\* A layout pass over one more item knows its label.
LEMMA KnowsStep ==
    ASSUME NEW its \in Seq(Items), NEW f \in Seq(Nat), NEW p \in 1 .. Len(its), NEW o \in Nat,
           NEW lab \in [Labels -> Nat \cup {Undefined}],
           Len(f) = p - 1, Knows(its, f, lab, p - 1)
    PROVE  Knows(its, Append(f, o),
                 IF its[p].kind = "label" THEN [lab EXCEPT ![its[p].label] = o] ELSE lab, p)
<1> DEFINE g == Append(f, o)
           new == IF its[p].kind = "label" THEN [lab EXCEPT ![its[p].label] = o] ELSE lab
<1>1. g[p] = o /\ \A k \in 1 .. p - 1 : g[k] = f[k]
  OBVIOUS
<1> HIDE DEF g
<1> SUFFICES ASSUME NEW d \in 1 .. p, NEW l \in Labels, LastUpTo(its, l, d, p)
             PROVE  new[l] = g[d]
  BY DEF Knows, g
<1>2. CASE d = p
  BY <1>1, <1>2 DEF LastUpTo
<1>3. CASE d < p
  <2>1. d \in 1 .. p - 1 /\ p \in d + 1 .. p
    BY <1>3
  <2>2. ~(its[p].kind = "label" /\ its[p].label = l)
    BY <2>1 DEF LastUpTo
  <2>3. LastUpTo(its, l, d, p - 1)
    BY <2>1 DEF LastUpTo
  <2>4. lab[l] = f[d]
    BY <2>1, <2>3 DEF Knows
  <2>5. new[l] = lab[l]
    BY <2>2
  <2> QED
    BY <1>1, <2>1, <2>4, <2>5
<1> QED
  BY <1>2, <1>3

\* A round passes over a branch that it does not widen: its label is within
\* reach, or not defined.
LEMMA FitStep ==
    ASSUME TypeOK, NEW p \in 1 .. Len(items), ~OutOfReach(items[p], start[p]),
           Len(start) = Len(items), Knows(items, start, labels, Len(items)),
           FitUpTo(enc, items, start, p - 1)
    PROVE  FitUpTo(enc, items, start, p)
<1> SUFFICES ASSUME NEW k \in 1 .. p, NEW d \in 1 .. Len(items),
                    items[k].kind \in enc.relaxes, ~items[k].relaxed,
                    LastUpTo(items, items[k].label, d, Len(items))
             PROVE  start[d] - (start[k] + enc.base) \in enc.low .. enc.high
  BY DEF FitUpTo
<1>1. CASE k < p
  <2>1. k \in 1 .. p - 1
    BY <1>1
  <2> QED
    BY <2>1 DEF FitUpTo
<1>2. CASE k = p
  <2>1. items \in Seq(Items) /\ start \in Seq(Nat) /\ Len(items) \in Nat
    BY LenType DEF TypeOK
  <2>2. start[d] \in Nat /\ start[p] \in Nat /\ items[p] \in Items
    BY <2>1
  <2>3. enc.base \in Int /\ enc.low \in Int /\ enc.high \in Int /\ items[p].kind \in Forms
    BY <1>2, EncodingFacts DEF TypeOK
  <2>4. items[p].label \in Labels
    BY <2>2, <2>3, ItemFacts DEF TypeOK, IsBranch
  <2>5. labels[items[p].label] = start[d]
    BY <1>2, <2>4 DEF Knows
  <2>6. labels[items[p].label] # Undefined
    BY <2>2, <2>5 DEF Undefined
  <2>7. start[d] - (start[p] + enc.base) >= enc.low /\ start[d] - (start[p] + enc.base) <= enc.high
    BY <1>2, <2>2, <2>3, <2>5, <2>6 DEF OutOfReach, MayWiden, Displacement
  <2> QED
    BY <1>2, <2>2, <2>3, <2>7
<1> QED
  BY <1>1, <1>2

\* The steps of the invariant, one per action.
LEMMA LayoutItemStep == LoopInv /\ TypeOK' /\ LayoutItem => LoopInv'
<1> SUFFICES ASSUME LoopInv, TypeOK', LayoutItem PROVE LoopInv'
  OBVIOUS
<1>1. pc \in {"layout", "final"} /\ pos \in 1 .. Len(items) /\ items[pos] \in Items
  BY HereType DEF LayoutItem, LoopInv
<1>2. items \in Seq(Items) /\ start \in Seq(Nat) /\ offset \in Nat /\ Len(items) \in Nat
      /\ labels \in [Labels -> Nat \cup {Undefined}]
  BY LenType DEF LoopInv, TypeOK
<1>3. UNCHANGED <<enc, items, pc>> /\ start' = Append(start, offset) /\ pos' = pos + 1
      /\ offset' = offset + SizeIn(enc, items[pos])
      /\ labels' = IF items[pos].kind = "label"
                      THEN [labels EXCEPT ![items[pos].label] = offset]
                      ELSE labels
  BY DEF LayoutItem, Size
<1>4. Len(start) = pos - 1 /\ LayoutUpTo(enc, items, start, pos - 1)
      /\ Here(enc, items, start, pos, offset) /\ Knows(items, start, labels, pos - 1)
  BY <1>1 DEF LoopInv, LayoutInv
<1>5. Len(start') = pos /\ LayoutUpTo(enc, items, start', pos)
      /\ Here(enc, items, start', pos + 1, offset')
  <2>1. pos \in Nat \ {0}
    BY <1>1
  <2> QED
    BY <1>2, <1>3, <1>4, <2>1, LayoutStep
<1>6. Knows(items, start', labels', pos)
  BY <1>1, <1>2, <1>3, <1>4, KnowsStep
<1>7. pos' - 1 = pos
  BY <1>1, <1>3
<1>8. LayoutInv'
  BY <1>3, <1>5, <1>6, <1>7 DEF LayoutInv
<1>9. FinalInv'
  <2> SUFFICES ASSUME pc = "final" PROVE FinalInv'
    BY <1>3 DEF FinalInv
  <2>1. PICK f \in Seq(Nat) :
            /\ Len(f) = Len(items)
            /\ LayoutUpTo(enc, items, f, Len(items))
            /\ FitUpTo(enc, items, f, Len(items))
            /\ \A k \in 1 .. pos - 1 : start[k] = f[k]
    BY DEF LoopInv, FinalInv
  <2>2. Here(enc, items, f, pos, offset)
    <3>1. CASE pos = 1
      BY <1>4, <3>1 DEF Here
    <3>2. CASE pos > 1
      <4>1. pos - 1 \in 1 .. pos - 1
        BY <1>1, <3>2
      <4> QED
        BY <1>4, <2>1, <3>2, <4>1 DEF Here
    <3> QED
      BY <1>1, <3>1, <3>2
  <2>3. offset = f[pos]
    BY <1>1, <1>2, <2>1, <2>2, HereIs
  <2>4. \A k \in 1 .. pos : start'[k] = f[k]
    BY <1>1, <1>2, <1>3, <1>4, <2>1, <2>3
  <2> QED
    BY <1>3, <1>7, <2>1, <2>4 DEF FinalInv
<1>10. pc' # "check" /\ pc' \notin {"emit", "done"}
  BY <1>1, <1>3
<1> QED
  BY <1>8, <1>9, <1>10 DEF LoopInv, CheckInv, EmitInv

LEMMA LayoutDoneStep == LoopInv /\ TypeOK' /\ LayoutDone => LoopInv'
<1> SUFFICES ASSUME LoopInv, TypeOK', LayoutDone PROVE LoopInv'
  OBVIOUS
<1>1. pc \in {"layout", "final"} /\ pos = Len(items) + 1 /\ Len(items) \in Nat
  BY LenType DEF LayoutDone, LoopInv, TypeOK
<1>2. UNCHANGED <<enc, items, start, labels, changed>> /\ pos' = 1 /\ offset' = 0
      /\ pc' = IF pc = "layout" THEN "check" ELSE "emit"
  BY DEF LayoutDone
<1>3. Len(start) = Len(items) /\ LayoutUpTo(enc, items, start, Len(items))
      /\ Knows(items, start, labels, Len(items))
  BY <1>1 DEF LoopInv, LayoutInv
<1>4. Here(enc, items, start, 1, 0)
  BY DEF Here
<1>5. CASE pc = "layout"
  <2>1. FitUpTo(enc, items, start, 0)
    BY DEF FitUpTo
  <2>2. CheckInv'
    BY <1>2, <1>3, <1>4, <2>1 DEF CheckInv
  <2> QED
    BY <1>2, <1>5, <2>2 DEF LoopInv, LayoutInv, FinalInv, EmitInv
<1>6. CASE pc = "final"
  <2>1. PICK f \in Seq(Nat) :
            /\ Len(f) = Len(items)
            /\ FitUpTo(enc, items, f, Len(items))
            /\ \A k \in 1 .. pos - 1 : start[k] = f[k]
    BY <1>6 DEF LoopInv, FinalInv
  <2>2. FitUpTo(enc, items, start, Len(items))
    BY <1>1, <2>1 DEF FitUpTo
  <2>3. EmitInv'
    BY <1>2, <1>3, <1>4, <2>2 DEF EmitInv
  <2> QED
    BY <1>2, <1>6, <2>3 DEF LoopInv, LayoutInv, FinalInv, CheckInv
<1> QED
  BY <1>1, <1>5, <1>6

LEMMA CheckItemStep == LoopInv /\ TypeOK' /\ CheckItem => LoopInv'
<1> SUFFICES ASSUME LoopInv, TypeOK', CheckItem PROVE LoopInv'
  OBVIOUS
<1>1. pc = "check" /\ pos \in 1 .. Len(items) /\ items[pos] \in Items
  BY HereType DEF CheckItem, LoopInv
<1>2. items \in Seq(Items) /\ start \in Seq(Nat) /\ Len(items) \in Nat
  BY LenType DEF LoopInv, TypeOK
<1> DEFINE widen == OutOfReach(items[pos], offset)
           item == IF widen THEN [items[pos] EXCEPT !.relaxed = TRUE] ELSE items[pos]
<1>3. items' = [items EXCEPT ![pos] = item] /\ offset' = offset + Size(item)
      /\ changed' = (changed \/ widen) /\ pos' = pos + 1
      /\ UNCHANGED <<enc, pc, start, labels>>
  BY DEF CheckItem
<1>4. Len(items') = Len(items)
  BY <1>2, <1>3
<1>5. Len(start) = Len(items)
  BY <1>1 DEF LoopInv, CheckInv
<1>6. CASE changed'
  BY <1>1, <1>3, <1>4, <1>5, <1>6 DEF LoopInv, LayoutInv, CheckInv, FinalInv, EmitInv
<1>7. CASE ~changed'
  <2>1. ~changed /\ ~widen
    BY <1>3, <1>7
  <2>2. items' = items /\ offset' = offset + SizeIn(enc, items[pos])
    BY <1>2, <1>3, <2>1 DEF Size
  <2>3. LayoutUpTo(enc, items, start, Len(items)) /\ Here(enc, items, start, pos, offset)
        /\ Knows(items, start, labels, Len(items)) /\ FitUpTo(enc, items, start, pos - 1)
    BY <1>1, <2>1 DEF LoopInv, CheckInv
  <2>4. offset = start[pos]
    BY <1>1, <1>2, <2>3, HereIs
  <2>5. FitUpTo(enc, items, start, pos)
    BY <1>1, <1>5, <2>1, <2>3, <2>4, FitStep DEF LoopInv
  <2>6. Here(enc, items, start, pos + 1, offset')
    BY <1>1, <2>2, <2>4 DEF Here
  <2>7. pos' - 1 = pos
    BY <1>1, <1>3
  <2>8. CheckInv'
    BY <1>3, <1>5, <2>2, <2>3, <2>5, <2>6, <2>7 DEF CheckInv
  <2> QED
    BY <1>1, <1>3, <2>8 DEF LoopInv, LayoutInv, FinalInv, EmitInv
<1> QED
  BY <1>6, <1>7

LEMMA CheckDoneStep == LoopInv /\ TypeOK' /\ CheckDone => LoopInv'
<1> SUFFICES ASSUME LoopInv, TypeOK', CheckDone PROVE LoopInv'
  OBVIOUS
<1>1. pc = "check" /\ pos = Len(items) + 1 /\ Len(items) \in Nat
  BY LenType DEF CheckDone, LoopInv, TypeOK
<1>2. UNCHANGED <<enc, items>>
  BY DEF CheckDone
<1>3. ASSUME NEW phase \in {"layout", "final"}, BeginLayout(phase)
      PROVE  LayoutInv' /\ CheckInv' /\ EmitInv' /\ pc' = phase /\ pos' = 1
  <2>1. pc' = phase /\ pos' = 1 /\ offset' = 0 /\ start' = <<>> /\ labels' = NoLabels
    BY <1>3 DEF BeginLayout
  <2>2. Len(start') = 0
    BY <2>1
  <2> QED
    BY <2>1, <2>2 DEF LayoutInv, CheckInv, EmitInv, LayoutUpTo, Here, Knows
<1>4. CASE NextRound
  <2>1. BeginLayout("layout")
    BY <1>4 DEF CheckDone
  <2> QED
    BY <1>3, <2>1 DEF LoopInv, FinalInv
<1>5. CASE ~NextRound
  <2>1. LayoutUpTo(enc, items, start, Len(items)) /\ Knows(items, start, labels, Len(items))
        /\ FitUpTo(enc, items, start, Len(items)) /\ Len(start) = Len(items)
    BY <1>1, <1>5 DEF LoopInv, CheckInv, NextRound
  <2>2. CASE enc.lastLayout
    <3>1. BeginLayout("final")
      BY <1>5, <2>2 DEF CheckDone
    <3>2. FinalInv'
      <4>1. start \in Seq(Nat)
        BY DEF LoopInv, TypeOK
      <4>2. pos' = 1
        BY <1>3, <3>1
      <4> QED
        BY <1>2, <2>1, <4>1, <4>2 DEF FinalInv
    <3> QED
      BY <1>3, <3>1, <3>2 DEF LoopInv
  <2>3. CASE ~enc.lastLayout
    <3>1. pc' = "emit" /\ pos' = 1 /\ offset' = 0 /\ UNCHANGED <<start, labels>>
      BY <1>5, <2>3 DEF CheckDone
    <3> QED
      BY <1>2, <2>1, <3>1 DEF LoopInv, LayoutInv, CheckInv, FinalInv, EmitInv, Here
  <2> QED
    BY <2>2, <2>3
<1> QED
  BY <1>4, <1>5

\* A label that is known is not the one an emitted branch adds.
LEMMA KnowsWithEntry ==
    ASSUME TypeOK, Knows(items, start, labels, Len(items)), Len(start) = Len(items),
           NEW x \in Labels, labels[x] = Undefined
    PROVE  Knows(items, start, [labels EXCEPT ![x] = 0], Len(items))
<1> SUFFICES ASSUME NEW d \in 1 .. Len(items), NEW l \in Labels,
                    LastUpTo(items, l, d, Len(items))
             PROVE  [labels EXCEPT ![x] = 0][l] = start[d]
  BY DEF Knows
<1>1. labels[l] = start[d]
  BY DEF Knows
<1>2. start[d] \in Nat
  BY DEF TypeOK
<1>3. l # x
  BY <1>1, <1>2 DEF Undefined
<1> QED
  BY <1>1, <1>3 DEF TypeOK

LEMMA EmitItemStep == LoopInv /\ TypeOK' /\ EmitItem => LoopInv'
<1> SUFFICES ASSUME LoopInv, TypeOK', EmitItem PROVE LoopInv'
  OBVIOUS
<1>1. pc = "emit" /\ pos \in 1 .. Len(items) /\ items[pos] \in Items
  BY HereType DEF EmitItem, LoopInv
<1>2. Len(items) \in Nat /\ start \in Seq(Nat)
  BY LenType DEF LoopInv, TypeOK
<1>3. UNCHANGED <<enc, items, pc, start>> /\ pos' = pos + 1
      /\ offset' = offset + SizeIn(enc, items[pos])
  BY DEF EmitItem, Size
<1>4. /\ Len(start) = Len(items)
      /\ LayoutUpTo(enc, items, start, Len(items))
      /\ Knows(items, start, labels, Len(items))
      /\ FitUpTo(enc, items, start, Len(items))
      /\ Here(enc, items, start, pos, offset)
  BY <1>1 DEF LoopInv, EmitInv
<1>5. offset = start[pos]
  BY <1>1, <1>2, <1>4, HereIs
<1>6. Here(enc, items, start, pos + 1, offset')
  BY <1>1, <1>3, <1>5 DEF Here
<1>7. Knows(items, start, labels', Len(items))
  <2>1. CASE labels' = labels
    BY <1>4, <2>1
  <2>2. CASE labels' # labels
    <3>1. IsBranch(items[pos]) /\ labels[items[pos].label] = Undefined
          /\ labels' = [labels EXCEPT ![items[pos].label] = 0]
      BY <2>2 DEF EmitItem
    <3>2. items[pos].label \in Labels
      BY <1>1, <3>1, ItemFacts DEF LoopInv, TypeOK
    <3> QED
      BY <1>4, <3>1, <3>2, KnowsWithEntry DEF LoopInv
  <2> QED
    BY <2>1, <2>2
<1>8. EmitInv'
  BY <1>3, <1>4, <1>6, <1>7 DEF EmitInv
<1> QED
  BY <1>1, <1>3, <1>8 DEF LoopInv, LayoutInv, CheckInv, FinalInv

LEMMA LoopStep == LoopInv /\ TypeOK' /\ [Next]_vars => LoopInv'
<1> SUFFICES ASSUME LoopInv, TypeOK', [Next]_vars PROVE LoopInv'
  OBVIOUS
<1>1. ASSUME NEW round, Restart("idle", round) PROVE LoopInv'
  BY <1>1 DEF Restart, BeginLayout, LoopInv, LayoutInv, CheckInv, FinalInv, EmitInv
<1>2. CASE EmitBytes \/ DefineLabel \/ EmitBranch \/ Clear
  BY <1>1, <1>2 DEF EmitBytes, DefineLabel, EmitBranch, Clear, Extend
<1>3. CASE Relax
  <2>1. pc' = "layout" /\ pos' = 1 /\ offset' = 0 /\ start' = <<>>
    BY <1>3 DEF Relax, Restart, BeginLayout
  <2>2. Len(start') = 0
    BY <2>1
  <2> QED
    BY <2>1, <2>2 DEF LoopInv, LayoutInv, CheckInv, FinalInv, EmitInv, LayoutUpTo, Here, Knows
<1>4. CASE EmitDone
  BY <1>4 DEF EmitDone, LoopInv, LayoutInv, CheckInv, FinalInv, EmitInv
<1>5. CASE UNCHANGED vars
  BY <1>5 DEF vars, LoopInv, LayoutInv, CheckInv, FinalInv, EmitInv
<1> QED
  BY <1>2, <1>3, <1>4, <1>5, LayoutItemStep, LayoutDoneStep, CheckItemStep, CheckDoneStep,
     EmitItemStep DEF Next

-----------------------------------------------------------------------------
(* What is emitted.                                                        *)

\* A value the field has room for is kept by its wrap-around.
LEMMA SmallMod256 == \A x \in 0 .. 255 : x % 256 = x
OBVIOUS

LEMMA SmallMod8192 == \A x \in 0 .. 8191 : x % 8192 = x
OBVIOUS

\* A displacement in the short range is kept by the short field.
LEMMA FieldKeeps ==
    ASSUME NEW e \in Encodings, NEW d \in e.low .. e.high
    PROVE  ((d - e.low) % e.period) + e.low = d
<1>1. CASE e = X86
  <2>1. e.low = -128 /\ e.high = 127 /\ e.period = 256
    BY <1>1 DEF X86
  <2>2. d \in -128 .. 127
    BY <2>1
  <2> DEFINE x == d + 128
  <2>3. x \in 0 .. 255 /\ d - (-128) = x /\ x + (-128) = d
    BY <2>2
  <2> HIDE DEF x
  <2>4. x % 256 = x
    BY <2>3, SmallMod256
  <2> QED
    BY <2>1, <2>3, <2>4
<1>2. CASE e = RiscV
  <2>1. e.low = -4096 /\ e.high = 4094 /\ e.period = 8192
    BY <1>2 DEF RiscV
  <2>2. d \in -4096 .. 4094
    BY <2>1
  <2> DEFINE x == d + 4096
  <2>3. x \in 0 .. 8191 /\ d - (-4096) = x /\ x + (-4096) = d
    BY <2>2
  <2> HIDE DEF x
  <2>4. x % 8192 = x
    BY <2>3, SmallMod8192
  <2> QED
    BY <2>1, <2>3, <2>4
<1> QED
  BY <1>1, <1>2 DEF Encodings

\* An emitted branch leads to the offset its label has in the map, if the
\* map has it and the short field can hold a short displacement.
LEMMA EncodedLands ==
    ASSUME TypeOK, NEW item \in Items, IsBranch(item), NEW at \in Nat,
           item.relaxed => item.kind \in enc.relaxes,
           labels[item.label] # Undefined,
           MayWiden(item) => labels[item.label] - (at + enc.base) \in enc.low .. enc.high
    PROVE  /\ Encoded(item, at).base + Encoded(item, at).disp = labels[item.label]
           /\ Encoded(item, at).skip \in {0, SizeIn(enc, item)}
<1>1. item.kind \in Forms /\ item.label \in Labels /\ item.relaxed \in BOOLEAN
  BY ItemFacts DEF IsBranch, TypeOK
<1>2. labels[item.label] \in Nat
  BY <1>1 DEF TypeOK
<1> DEFINE base == at + (IF item.relaxed THEN enc.longBase[item.kind] ELSE enc.base)
           disp == labels[item.label] - base
           enco == Encoded(item, at)
<1>3. enco = [base |-> base,
              disp |-> IF item.relaxed \/ item.kind \notin enc.relaxes THEN disp
                       ELSE ((disp - enc.low) % enc.period) + enc.low,
              skip |-> IF item.relaxed THEN enc.skip ELSE 0]
  BY DEF Encoded
<1>4. base \in Int
  <2>1. enc.longBase[item.kind] \in Int /\ enc.base \in Int
    BY <1>1, EncodingFacts DEF TypeOK
  <2> QED
    BY <2>1
<1>5. disp \in Int /\ base + disp = labels[item.label]
  <2> HIDE DEF base
  <2> QED
    BY <1>2, <1>4
<1>6. ~item.relaxed /\ item.kind \in enc.relaxes
        => ((disp - enc.low) % enc.period) + enc.low = disp
  <2> SUFFICES ASSUME ~item.relaxed, item.kind \in enc.relaxes
               PROVE  ((disp - enc.low) % enc.period) + enc.low = disp
    OBVIOUS
  <2>1. disp \in enc.low .. enc.high
    BY DEF MayWiden
  <2>2. enc \in Encodings
    BY DEF TypeOK
  <2> HIDE DEF disp, base, enco
  <2> QED
    BY <2>1, <2>2, FieldKeeps
<1>7. enco.base + enco.disp = labels[item.label]
  <2> HIDE DEF base, disp
  <2>1. enco.base = base
    BY <1>3
  <2>2. enco.disp = disp
    BY <1>1, <1>3, <1>6
  <2> QED
    BY <1>5, <2>1, <2>2
<1>8. enco.skip \in {0, SizeIn(enc, item)}
  <2>1. CASE ~item.relaxed
    BY <1>3, <2>1
  <2>2. CASE item.relaxed /\ enc = X86
    BY <1>3, <2>2 DEF X86
  <2>3. CASE item.relaxed /\ enc = RiscV
    BY <1>3, <2>3 DEF RiscV, SizeIn, Forms
  <2> QED
    BY <1>1, <2>1, <2>2, <2>3 DEF TypeOK, Encodings
<1> QED
  BY <1>7, <1>8

LEMMA WideStep == TypeOK /\ TypeOK' /\ WideInv /\ [Next]_vars => WideInv'
<1> SUFFICES ASSUME TypeOK, TypeOK', WideInv, [Next]_vars PROVE WideInv'
  OBVIOUS
<1>1. ASSUME UNCHANGED <<enc, items>> PROVE WideInv'
  BY <1>1 DEF WideInv, IsBranch
<1>2. ASSUME NEW item \in Items, item.kind \in Forms => ~item.relaxed, Extend(item) PROVE WideInv'
  <2>1. items' = Append(items, item) /\ enc' = enc /\ items \in Seq(Items)
    BY <1>2 DEF Extend, TypeOK
  <2>2. \A k \in 1 .. Len(items') :
           (k \in 1 .. Len(items) /\ items'[k] = items[k]) \/ items'[k] = item
    BY <2>1
  <2> QED
    BY <1>2, <2>1, <2>2 DEF WideInv, IsBranch
<1>3. CASE EmitBytes
  <2>1. PICK n \in DataSizes[enc] \ {0} : Extend([kind |-> "data", size |-> n])
    BY <1>3 DEF EmitBytes
  <2>2. [kind |-> "data", size |-> n] \in Items
    BY <2>1, DataSizesAssumption DEF TypeOK, Items, DataItems
  <2> QED
    BY <1>2, <2>1, <2>2 DEF Forms
<1>4. CASE DefineLabel
  <2>1. PICK l \in Labels : Extend([kind |-> "label", label |-> l])
    BY <1>4 DEF DefineLabel
  <2>2. [kind |-> "label", label |-> l] \in Items
    BY DEF Items, LabelItems
  <2> QED
    BY <1>2, <2>1, <2>2 DEF Forms
<1>5. CASE EmitBranch
  <2>1. PICK f \in Forms, l \in Labels : Extend([kind |-> f, label |-> l, relaxed |-> FALSE])
    BY <1>5 DEF EmitBranch
  <2>2. [kind |-> f, label |-> l, relaxed |-> FALSE] \in Items
    BY DEF Items, BranchItems
  <2> QED
    BY <1>2, <2>1, <2>2
<1>6. CASE Clear
  BY <1>6 DEF Clear, WideInv
<1>7. CASE CheckItem
  <2>1. pos \in 1 .. Len(items) /\ items[pos] \in Items /\ items \in Seq(Items)
    BY <1>7, HereType DEF CheckItem, TypeOK
  <2> DEFINE widen == OutOfReach(items[pos], offset)
             item == IF widen THEN [items[pos] EXCEPT !.relaxed = TRUE] ELSE items[pos]
  <2>2. items' = [items EXCEPT ![pos] = item] /\ enc' = enc
    BY <1>7 DEF CheckItem
  <2>3. CASE widen
    <3>1. items[pos].kind \in enc.relaxes
      BY <2>3 DEF OutOfReach, MayWiden
    <3>2. items'[pos].kind \in enc.relaxes
      <4>1. items[pos] \in BranchItems
        BY <2>1, <3>1, EncodingFacts DEF TypeOK, Items, DataItems, LabelItems, Forms
      <4> QED
        BY <2>1, <2>2, <2>3, <3>1, <4>1 DEF BranchItems
    <3>3. \A k \in 1 .. Len(items') : k = pos \/ (k \in 1 .. Len(items) /\ items'[k] = items[k])
      BY <2>1, <2>2
    <3> QED
      BY <2>2, <3>2, <3>3 DEF WideInv, IsBranch
  <2>4. CASE ~widen
    BY <1>1, <2>1, <2>2, <2>4
  <2> QED
    BY <2>3, <2>4
<1>8. CASE Relax \/ LayoutItem \/ LayoutDone \/ CheckDone \/ EmitItem \/ EmitDone \/ UNCHANGED vars
  BY <1>1, <1>8 DEF Relax, LayoutItem, LayoutDone, CheckDone, EmitItem, EmitDone, vars
<1> QED
  BY <1>3, <1>4, <1>5, <1>6, <1>7, <1>8 DEF Next

\* One more item emitted.
LEMMA EmitItemOut ==
    TypeOK /\ TypeOK' /\ EmitInv /\ WideInv /\ OutInv /\ EmitItem => OutInv'
<1> SUFFICES ASSUME TypeOK, TypeOK', EmitInv, WideInv, OutInv, EmitItem PROVE OutInv'
  OBVIOUS
<1>1. pc = "emit" /\ pos \in 1 .. Len(items) /\ items[pos] \in Items
  BY HereType DEF EmitItem
<1>2. Len(items) \in Nat /\ start \in Seq(Nat) /\ offset \in Nat
      /\ out \in Seq([base : Int, disp : Int, skip : Int])
  BY LenType DEF TypeOK
<1> DEFINE new == IF IsBranch(items[pos]) THEN Encoded(items[pos], offset) ELSE NoBranch
<1>3. UNCHANGED <<enc, items, pc, start>> /\ pos' = pos + 1 /\ out' = Append(out, new)
  BY DEF EmitItem
<1>4. Len(out) = pos - 1
  BY <1>1 DEF OutInv
<1>5. new \in [base : Int, disp : Int, skip : Int]
  <2>1. IsBranch(items[pos]) => Encoded(items[pos], offset) \in [base : Int, disp : Int, skip : Int]
    BY <1>1, <1>2, EncodedType
  <2>2. NoBranch \in [base : Int, disp : Int, skip : Int]
    BY DEF NoBranch
  <2> QED
    BY <2>1, <2>2
<1>6. /\ Len(out') = pos
      /\ out'[pos] = new
      /\ \A k \in 1 .. pos - 1 : out'[k] = out[k]
  <2> HIDE DEF new
  <2> QED
    BY <1>1, <1>2, <1>3, <1>4, <1>5
<1>7. /\ Len(start) = Len(items)
      /\ Knows(items, start, labels, Len(items))
      /\ FitUpTo(enc, items, start, Len(items))
      /\ offset = start[pos]
  <2>1. LayoutUpTo(enc, items, start, Len(items)) /\ Here(enc, items, start, pos, offset)
    BY <1>1 DEF EmitInv
  <2>2. offset = start[pos]
    BY <1>1, <1>2, <2>1, HereIs
  <2> QED
    BY <1>1, <2>2 DEF EmitInv
<1>8. ASSUME NEW d \in 1 .. Len(items), IsBranch(items[pos]),
             LastUpTo(items, items[pos].label, d, Len(items))
      PROVE  new.base + new.disp = start[d] /\ new.skip \in {0, SizeIn(enc, items[pos])}
  <2>1. items[pos].label \in Labels
    BY <1>1, <1>8, ItemFacts DEF TypeOK
  <2>2. labels[items[pos].label] = start[d] /\ start[d] \in Nat
    BY <1>2, <1>7, <1>8, <2>1 DEF Knows
  <2>3. labels[items[pos].label] # Undefined
    BY <2>2 DEF Undefined
  <2>4. items[pos].relaxed => items[pos].kind \in enc.relaxes
    BY <1>1, <1>8 DEF WideInv
  <2>5. MayWiden(items[pos])
        => labels[items[pos].label] - (offset + enc.base) \in enc.low .. enc.high
    BY <1>1, <1>7, <1>8, <2>2 DEF MayWiden, FitUpTo
  <2>6. new = Encoded(items[pos], offset)
    BY <1>8
  <2> QED
    BY <1>1, <1>2, <1>8, <2>2, <2>3, <2>4, <2>5, <2>6, EncodedLands
<1> HIDE DEF new
<1>9. ASSUME NEW k \in 1 .. pos, NEW d \in 1 .. Len(items), IsBranch(items[k]),
             LastUpTo(items, items[k].label, d, Len(items))
      PROVE  out'[k].base + out'[k].disp = start[d] /\ out'[k].skip \in {0, SizeIn(enc, items[k])}
  <2>1. CASE k = pos
    BY <1>6, <1>8, <1>9, <2>1
  <2>2. CASE k < pos
    <3>1. k \in 1 .. pos - 1 /\ k \in 1 .. Len(out)
      BY <1>1, <1>4, <2>2
    <3>2. Lands(k, d)
      BY <1>1, <1>9, <3>1 DEF OutInv
    <3> QED
      BY <1>6, <3>1, <3>2 DEF Lands
  <2> QED
    BY <1>1, <2>1, <2>2
<1>10. pos' - 1 = pos
  BY <1>1, <1>3
<1> QED
  BY <1>1, <1>3, <1>6, <1>9, <1>10 DEF OutInv, Lands, IsBranch

LEMMA OutStep ==
    TypeOK /\ TypeOK' /\ EmitInv /\ WideInv /\ OutInv /\ [Next]_vars => OutInv'
<1> SUFFICES ASSUME TypeOK, TypeOK', EmitInv, WideInv, OutInv, [Next]_vars PROVE OutInv'
  OBVIOUS
<1>1. CASE EmitBytes \/ DefineLabel \/ EmitBranch \/ Clear
  <2>1. pc' = "idle"
    BY <1>1 DEF EmitBytes, DefineLabel, EmitBranch, Clear, Extend, Restart, BeginLayout
  <2> QED
    BY <2>1 DEF OutInv
<1>2. CASE Relax
  BY <1>2 DEF Relax, Restart, BeginLayout, OutInv
<1>3. CASE LayoutItem
  BY <1>3 DEF LayoutItem, OutInv
<1>4. ASSUME pc \in {"check", "final", "layout"}, out' = out,
             pc' \in {"layout", "check", "final"} \/ (pc' = "emit" /\ pos' = 1)
      PROVE  OutInv'
  <2>1. out' = <<>>
    BY <1>4 DEF OutInv
  <2>2. Len(out') = 0
    BY <2>1
  <2> QED
    BY <1>4, <2>1, <2>2 DEF OutInv
<1>5. CASE LayoutDone
  <2>1. pc \in {"layout", "final"} /\ out' = out /\ pos' = 1 /\ pc' \in {"check", "emit"}
    BY <1>5 DEF LayoutDone
  <2> QED
    BY <1>4, <2>1
<1>6. CASE CheckItem
  <2>1. pc = "check" /\ pc' = pc /\ out' = out
    BY <1>6 DEF CheckItem
  <2> QED
    BY <1>4, <2>1
<1>7. CASE CheckDone
  <2>1. pc = "check" /\ out' = out
        /\ (pc' \in {"layout", "final"} \/ (pc' = "emit" /\ pos' = 1))
    BY <1>7 DEF CheckDone, BeginLayout
  <2> QED
    BY <1>4, <2>1
<1>8. CASE EmitItem
  BY <1>8, EmitItemOut
<1>9. CASE EmitDone
  <2>1. pc = "emit" /\ pc' = "done" /\ UNCHANGED <<enc, items, start, out>> /\ pos > Len(items)
    BY <1>9 DEF EmitDone
  <2>2. Len(items) \in Nat /\ pos \in 1 .. Len(items) + 1
    BY <2>1, LenType DEF TypeOK
  <2>3. pos = Len(items) + 1
    BY <2>1, <2>2
  <2>4. Len(out) = Len(items)
    BY <2>1, <2>2, <2>3 DEF OutInv
  <2> QED
    BY <2>1, <2>4 DEF OutInv, Lands, IsBranch
<1>10. CASE UNCHANGED vars
  BY <1>10 DEF vars, OutInv, Lands, IsBranch
<1> QED
  BY <1>1, <1>2, <1>3, <1>5, <1>6, <1>7, <1>8, <1>9, <1>10 DEF Next

-----------------------------------------------------------------------------
(* The theorems.                                                           *)

\* The inductive invariant.
THEOREM Invariance == Spec => []IInv
<1>1. Init => IInv
  <2> SUFFICES ASSUME Init PROVE LayoutInv /\ CheckInv /\ FinalInv /\ EmitInv /\ WideInv /\ OutInv
    BY InitType DEF IInv, LoopInv
  <2>1. pc = "idle" /\ items = <<>>
    BY DEF Init
  <2> QED
    BY <2>1 DEF LayoutInv, CheckInv, FinalInv, EmitInv, WideInv, OutInv
<1>2. TypeOK' /\ IInv /\ [Next]_vars => IInv'
  <2> SUFFICES ASSUME TypeOK', IInv, [Next]_vars PROVE IInv'
    OBVIOUS
  <2>1. LoopInv'
    BY LoopStep DEF IInv
  <2>2. WideInv'
    BY WideStep DEF IInv, LoopInv
  <2>3. OutInv'
    BY OutStep DEF IInv, LoopInv
  <2> QED
    BY <2>1, <2>2, <2>3 DEF IInv
<1> QED
  BY <1>1, <1>2, TypeCorrect, PTL DEF Spec

\* When the loop has ended every branch left short has room for its
\* displacement, in the layout that is emitted.
THEOREM ShortBranchesFit == Spec => []ShortFormsFit
<1>1. IInv => ShortFormsFit
  <2> SUFFICES ASSUME IInv, pc \in {"emit", "done"}
               PROVE  IsLayout /\ \A k, d \in 1 .. Len(items) :
                         MayWiden(items[k]) /\ LastDefinition(items[k].label, d) =>
                             start[d] - (start[k] + enc.base) \in enc.low .. enc.high
    BY DEF ShortFormsFit
  <2>1. /\ Len(start) = Len(items)
        /\ LayoutUpTo(enc, items, start, Len(items))
        /\ FitUpTo(enc, items, start, Len(items))
    BY DEF IInv, LoopInv, EmitInv
  <2>2. items # <<>> => Len(items) >= 1
    BY DEF IInv, LoopInv, TypeOK
  <2> QED
    BY <2>1, <2>2 DEF IsLayout, LayoutUpTo, FitUpTo, MayWiden, LastDefinition, LastUpTo, Size
<1> QED
  BY <1>1, Invariance, PTL

\* Every emitted branch leads to the last definition of its label.
THEOREM BranchesLand == Spec => []LandsOnLabel
<1>1. IInv => LandsOnLabel
  <2> SUFFICES ASSUME IInv, pc = "done",
                      NEW k \in 1 .. Len(items), NEW d \in 1 .. Len(items),
                      IsBranch(items[k]), LastDefinition(items[k].label, d)
               PROVE  out[k].base + out[k].disp = start[d] /\ out[k].skip \in {0, Size(items[k])}
    BY DEF LandsOnLabel
  <2>1. LastUpTo(items, items[k].label, d, Len(items))
    BY DEF LastDefinition, LastUpTo
  <2>2. Lands(k, d)
    BY <2>1 DEF IInv, OutInv
  <2> QED
    BY <2>2 DEF Lands, Size
<1> QED
  BY <1>1, Invariance, PTL

\* The labels handed to the caller are the places of their definitions.
THEOREM LabelsResolved == Spec => []ResolvedWhereDefined
<1>1. IInv => ResolvedWhereDefined
  <2> SUFFICES ASSUME IInv, pc = "done", NEW d \in 1 .. Len(items),
                      LastDefinition(items[d].label, d)
               PROVE  labels[items[d].label] = start[d]
    BY DEF ResolvedWhereDefined
  <2>1. items[d] \in Items /\ items[d].kind = "label"
    BY DEF IInv, LoopInv, TypeOK, LastDefinition
  <2>2. items[d].label \in Labels
    BY <2>1, ItemFacts DEF IInv, LoopInv, TypeOK
  <2>3. LastUpTo(items, items[d].label, d, Len(items))
    BY DEF LastDefinition, LastUpTo
  <2> QED
    BY <2>2, <2>3 DEF IInv, LoopInv, EmitInv, Knows
<1> QED
  BY <1>1, Invariance, PTL

\* No item of the stream ever shrinks.
THEOREM Growth == Spec => OnlyGrows
<1> DEFINE Grows == items' = <<>> \/ (/\ Len(items') >= Len(items)
                                     /\ \A k \in 1 .. Len(items) : Size(items'[k]) >= Size(items[k]))
<1>1. TypeOK /\ [Next]_vars => Grows
  <2> SUFFICES ASSUME TypeOK, [Next]_vars PROVE Grows
    OBVIOUS
  <2>1. items \in Seq(Items) /\ Len(items) \in Nat
    BY LenType DEF TypeOK
  <2>2. \A k \in 1 .. Len(items) : items[k] \in Items /\ Size(items[k]) \in Nat
    BY <2>1, ItemFacts DEF TypeOK
  <2>3. ASSUME items' = items PROVE Grows
    BY <2>1, <2>2, <2>3
  <2>4. ASSUME NEW item, Extend(item) PROVE Grows
    <3>1. items' = Append(items, item)
      BY <2>4 DEF Extend
    <3> QED
      BY <2>1, <2>2, <3>1
  <2>5. CASE EmitBytes \/ DefineLabel \/ EmitBranch
    BY <2>4, <2>5 DEF EmitBytes, DefineLabel, EmitBranch
  <2>6. CASE Clear
    BY <2>6 DEF Clear
  <2>7. CASE CheckItem
    <3> DEFINE widen == OutOfReach(items[pos], offset)
               item == IF widen THEN [items[pos] EXCEPT !.relaxed = TRUE] ELSE items[pos]
    <3>1. pos \in 1 .. Len(items) /\ items[pos] \in Items
      BY <2>7, HereType DEF CheckItem
    <3>2. items' = [items EXCEPT ![pos] = item]
      BY <2>7 DEF CheckItem
    <3>3. Size(item) >= Size(items[pos])
      <4>1. CASE widen
        BY <3>1, <4>1, WidenedItem DEF TypeOK
      <4>2. CASE ~widen
        BY <2>2, <3>1, <4>2
      <4> QED
        BY <4>1, <4>2
    <3> HIDE DEF item
    <3>4. Len(items') = Len(items) /\ \A k \in 1 .. Len(items) :
             items'[k] = IF k = pos THEN item ELSE items[k]
      BY <2>1, <3>1, <3>2
    <3> QED
      BY <2>1, <2>2, <3>3, <3>4
  <2>8. CASE Relax \/ LayoutItem \/ LayoutDone \/ CheckDone \/ EmitItem \/ EmitDone \/ UNCHANGED vars
    BY <2>3, <2>8 DEF Relax, LayoutItem, LayoutDone, CheckDone, EmitItem, EmitDone, vars
  <2> QED
    BY <2>5, <2>6, <2>7, <2>8 DEF Next
<1>2. [](TypeOK) /\ [][Next]_vars => [][Grows]_vars
  BY <1>1, PTL
<1> QED
  BY <1>2, TypeCorrect, PTL DEF Spec, OnlyGrows

-----------------------------------------------------------------------------
(* The number of rounds.                                                   *)

\* The branches in their long form.
Widened == {k \in 1 .. Len(items) : IsBranch(items[k]) /\ items[k].relaxed}

\* A round that has widened nothing yet is at most one more than there are
\* branches widened by this call; one that has is paid for.
RoundsInv ==
    /\ pc \in {"layout", "check", "final", "emit"} =>
          rounds <= relaxedCount + 1 /\ relaxedCount <= Cardinality(Widened)
    /\ pc = "layout" => ~changed
    /\ pc = "check" /\ changed => rounds <= relaxedCount

\* There are finitely many of them, no more than items.
LEMMA WidenedFinite ==
    ASSUME TypeOK
    PROVE  /\ IsFiniteSet(Widened) /\ Cardinality(Widened) \in Nat
           /\ Cardinality(Widened) <= Len(items)
<1>1. Len(items) \in Nat
  BY LenType
<1>2. IsFiniteSet(1 .. Len(items)) /\ Cardinality(1 .. Len(items)) = Len(items)
  <2>1. 0 \in Int /\ 1 \in Int /\ Len(items) \in Int
    BY <1>1
  <2>2. IsFiniteSet(1 .. Len(items)) /\ Cardinality(1 .. Len(items)) = IF 1 > Len(items) THEN 0 ELSE Len(items) - 1 + 1
    BY ONLY <2>1, FS_Interval
  <2> QED
    BY <1>1, <2>2
<1>3. Widened \subseteq 1 .. Len(items)
  BY DEF Widened
<1> QED
  BY <1>2, <1>3, FS_Subset, FS_CardinalityType

\* CheckItem adds the branch it widens, which was not among them.
LEMMA WidenedByCheckItem ==
    ASSUME TypeOK, CheckItem
    PROVE  /\ Cardinality(Widened') \in Nat /\ Cardinality(Widened') >= Cardinality(Widened)
           /\ OutOfReach(items[pos], offset) => Cardinality(Widened') = Cardinality(Widened) + 1
<1>1. items[pos] \in Items /\ pos \in 1 .. Len(items) /\ items \in Seq(Items)
  BY HereType DEF CheckItem, TypeOK
<1>2. Cardinality(Widened) \in Nat
  BY WidenedFinite
<1>3. CASE OutOfReach(items[pos], offset)
  <2>1. items[pos].kind \in Forms /\ ~items[pos].relaxed
    BY <1>3, EncodingFacts DEF OutOfReach, MayWiden, TypeOK
  <2>2. items[pos] \in BranchItems
    BY <1>1, <2>1 DEF Items, DataItems, LabelItems, Forms
  <2> DEFINE wide == [items[pos] EXCEPT !.relaxed = TRUE]
  <2>3. wide.kind \in Forms /\ wide.relaxed
    BY <2>1, <2>2 DEF BranchItems
  <2>4. items' = [items EXCEPT ![pos] = wide]
    BY <1>3 DEF CheckItem
  <2> HIDE DEF wide
  <2>5. Len(items') = Len(items) /\ items'[pos] = wide
        /\ \A k \in 1 .. Len(items) : k # pos => items'[k] = items[k]
    BY <1>1, <2>4
  <2>6. Widened' = Widened \cup {pos} /\ pos \notin Widened
    BY <1>1, <2>1, <2>3, <2>5 DEF Widened, IsBranch
  <2> QED
    <3>1. IsFiniteSet(Widened)
      BY WidenedFinite
    <3>2. Cardinality(Widened \cup {pos}) = Cardinality(Widened) + 1
      BY ONLY <2>6, <3>1, FS_AddElement
    <3> QED
      BY <1>2, <2>6, <3>2
<1>4. CASE ~OutOfReach(items[pos], offset)
  <2>1. items' = [items EXCEPT ![pos] = items[pos]]
    BY <1>4 DEF CheckItem
  <2>2. items' = items
    BY <1>1, <2>1
  <2>3. Widened' = Widened
    BY <2>2 DEF Widened, IsBranch
  <2> QED
    BY <1>2, <1>4, <2>3
<1> QED
  BY <1>3, <1>4

\* The loop of relaxAndResolve has at most one round more than branches it
\* has widened, and it widens a branch once.
THEOREM RoundsInvariance == Spec => []RoundsInv
<1>1. Init => RoundsInv
  BY DEF Init, RoundsInv
<1>2. TypeOK /\ RoundsInv /\ [Next]_vars => RoundsInv'
  <2> SUFFICES ASSUME TypeOK, RoundsInv, [Next]_vars PROVE RoundsInv'
    OBVIOUS
  <2>1. rounds \in Nat /\ relaxedCount \in Nat /\ Cardinality(Widened) \in Nat
    BY WidenedFinite DEF TypeOK
  <2>2. CASE EmitBytes \/ DefineLabel \/ EmitBranch \/ Clear
    <3>1. Restart("idle", 0)
      BY <2>2 DEF EmitBytes, DefineLabel, EmitBranch, Extend, Clear
    <3> QED
      BY <3>1 DEF Restart, BeginLayout, RoundsInv
  <2>3. CASE Relax
    <3>1. Widened' = Widened
      BY <2>3 DEF Relax, Widened, IsBranch
    <3>2. pc' = "layout" /\ changed' = FALSE /\ relaxedCount' = 0 /\ rounds' = 1
      BY <2>3 DEF Relax, Restart, BeginLayout
    <3> QED
      BY <2>1, <3>1, <3>2 DEF RoundsInv
  <2>4. CASE LayoutItem \/ LayoutDone \/ EmitItem \/ EmitDone \/ UNCHANGED vars
    <3>1. UNCHANGED <<items, changed, relaxedCount, rounds>>
      BY <2>4 DEF LayoutItem, LayoutDone, EmitItem, EmitDone, vars
    <3>2. Widened' = Widened
      BY <3>1 DEF Widened, IsBranch
    <3>3. \/ pc' = pc
          \/ pc = "layout" /\ pc' = "check"
          \/ pc = "final" /\ pc' = "emit"
          \/ pc' = "done"
      BY <2>4 DEF LayoutItem, LayoutDone, EmitItem, EmitDone, vars
    <3> QED
      BY <3>1, <3>2, <3>3 DEF RoundsInv
  <2>5. CASE CheckItem
    <3>1. pc = "check" /\ pc' = pc /\ rounds' = rounds
      BY <2>5 DEF CheckItem
    <3>2. Cardinality(Widened') \in Nat
      BY <2>5, WidenedByCheckItem
    <3>3. CASE OutOfReach(items[pos], offset)
      <4>1. changed' = TRUE /\ relaxedCount' = relaxedCount + 1
        BY <2>5, <3>3, Zenon DEF CheckItem
      <4>2. Cardinality(Widened') = Cardinality(Widened) + 1
        BY <2>5, <3>3, WidenedByCheckItem
      <4> QED
        BY <2>1, <3>1, <4>1, <4>2 DEF RoundsInv
    <3>4. CASE ~OutOfReach(items[pos], offset)
      <4>1. changed' = changed /\ relaxedCount' = relaxedCount
        BY <2>5, <3>4, <2>1 DEF CheckItem, TypeOK
      <4>2. Cardinality(Widened') >= Cardinality(Widened)
        BY <2>5, WidenedByCheckItem
      <4> QED
        BY <2>1, <3>1, <3>2, <4>1, <4>2 DEF RoundsInv
    <3> QED
      BY <3>3, <3>4
  <2>6. CASE CheckDone
    <3>1. Widened' = Widened
      BY <2>6 DEF CheckDone, Widened, IsBranch
    <3>2. pc = "check" /\ relaxedCount' = relaxedCount
      BY <2>6 DEF CheckDone
    <3>3. CASE changed
      <4>1. pc' = "layout" /\ changed' = FALSE /\ rounds' = rounds + 1
        BY <2>6, <3>3 DEF CheckDone, NextRound, BeginLayout
      <4> QED
        BY <2>1, <3>1, <3>2, <3>3, <4>1 DEF RoundsInv
    <3>4. CASE ~changed
      <4>1. pc' \in {"final", "emit"} /\ changed' = changed /\ rounds' = rounds
        BY <2>6, <3>4 DEF CheckDone, NextRound, BeginLayout
      <4> QED
        BY <2>1, <3>1, <3>2, <3>4, <4>1 DEF RoundsInv
    <3> QED
      BY <3>3, <3>4
  <2> QED
    BY <2>2, <2>3, <2>4, <2>5, <2>6 DEF Next
<1> QED
  BY <1>1, <1>2, TypeCorrect, PTL DEF Spec

\* The loop of relaxAndResolve has at most one round more than branches it
\* has widened in this call.
THEOREM RoundsAlwaysBounded == Spec => []RoundsBounded
<1>1. RoundsInv => RoundsBounded
  BY DEF RoundsInv, RoundsBounded, Widened
<1> QED
  BY <1>1, RoundsInvariance, PTL

\* So the rounds of relaxAndResolve are bounded by the length of the stream.
THEOREM RoundsNeverExceedItems ==
    Spec => [](pc \in {"layout", "check", "final", "emit"} => rounds <= Len(items) + 1)
<1>1. TypeOK /\ RoundsInv =>
        (pc \in {"layout", "check", "final", "emit"} => rounds <= Len(items) + 1)
  <2> SUFFICES ASSUME TypeOK, RoundsInv, pc \in {"layout", "check", "final", "emit"}
               PROVE  rounds <= Len(items) + 1
    OBVIOUS
  <2>1. rounds \in Nat /\ relaxedCount \in Nat /\ Len(items) \in Nat
    BY LenType DEF TypeOK
  <2> QED
    BY <2>1, WidenedFinite DEF RoundsInv
<1> QED
  BY <1>1, RoundsInvariance, TypeCorrect, PTL
=============================================================================
