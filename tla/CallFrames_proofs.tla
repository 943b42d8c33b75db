--------------------------- MODULE CallFrames_proofs ---------------------------
(***************************************************************************)
(* calculateFrameLayout keeps the objects of a frame apart, however many   *)
(* there are, whatever their sizes and alignments, and in whatever order   *)
(* parameters, spill slots and variables come.                             *)
(***************************************************************************)
EXTENDS CallFrames, FiniteSetTheorems, TLAPS

StackObjects ==
    [source : {"Parameter", "Spill", "Variable"}, size : Nat, align : Nat, offset : Int]

\* The registers that a convention has a callee save.
CalleeSaved == {"rbp", "rbx", "r12", "r13", "rdi", "rsi", "s0", "s1", "s2", "s3"}

\* The values that are bound to a token are a finite list.
LegalInv == IsFiniteSet(DOMAIN legal.pushes) /\ IsFiniteSet(DOMAIN legal.pops)

ObjectInv ==
    /\ call \in Calls
    /\ function \in Functions
    /\ objects \in [Functions -> Seq(StackObjects)]
    /\ usedCalleeSavedRegs \in [Functions -> Seq(CalleeSaved)]
    /\ layout \in [laid : Nat, currentOffset : Nat, incoming : Nat]
    /\ stage = "Layout" => layout.laid <= Len(objects[function])

IInv == LegalInv /\ ObjectInv /\ ObjectsApart
-----------------------------------------------------------------------------
LEMMA AlignUpGrows ==
    ASSUME NEW offset \in Nat, NEW a \in Nat \ {0}
    PROVE  AlignUp(offset, a) \in Nat /\ AlignUp(offset, a) >= offset
<1>1. offset % a \in 0 .. a - 1
    OBVIOUS
<1>2. a - (offset % a) \in Nat
    BY <1>1
<1>3. (a - (offset % a)) % a \in 0 .. a - 1
    BY <1>2
<1> QED
    BY <1>3 DEF AlignUp

LEMMA CallShape ==
    ASSUME ObjectInv
    PROVE  /\ cc \in Conventions /\ cc.shadow \in Nat
           /\ call.args \in Seq({"Int", "Float", "Pointer"})
           /\ \A f \in Functions : /\ FrameOf(f).allocs \in Seq(Objects)
                                   /\ FrameOf(f).spills \in Nat
                                   /\ FrameOf(f).saves \in Seq(2 .. 4)
<1>1. call \in [cc : Conventions, args : Seq({"Int", "Float", "Pointer"}),
                result : {"Void", "Int", "Float", "Big"}, caller : Frames, callee : Frames]
    BY CallsAssumption DEF ObjectInv
<1>2. cc \in Conventions /\ cc.shadow \in Nat
  <2>1. cc \in {SysV, Win64, LP64D}
      BY <1>1 DEF cc, Conventions
  <2> QED
      BY <2>1 DEF SysV, Win64, LP64D, Conventions
<1>3. call.args \in Seq({"Int", "Float", "Pointer"}) /\ call.caller \in Frames /\ call.callee \in Frames
    BY <1>1
<1>4. ASSUME NEW f \in Functions
      PROVE  FrameOf(f).allocs \in Seq(Objects) /\ FrameOf(f).spills \in Nat
             /\ FrameOf(f).saves \in Seq(2 .. 4)
  <2>1. f = "caller" \/ f = "callee"
      BY DEF Functions
  <2>2. FrameOf(f) \in Frames
      BY <1>3, <2>1 DEF FrameOf
  <2> QED
      BY <2>2 DEF Frames
<1> QED
    BY <1>2, <1>3, <1>4

\* Stack parameters are objects like all others.
LEMMA StackParamsShape ==
    ASSUME NEW values, IsFiniteSet(DOMAIN values)
    PROVE  StackParams(values) \in Seq(StackObjects)
<1>1. IsFiniteSet(OnStack(values))
    BY FS_Subset DEF OnStack
<1>2. Cardinality(OnStack(values)) \in Nat
    BY <1>1, FS_CardinalityType
<1> DEFINE n == Cardinality(OnStack(values))
           o == [source |-> "Parameter", size |-> 8, align |-> 8, offset |-> 0]
<1>3. o \in StackObjects
    BY DEF StackObjects
<1>4. StackParams(values) = [j \in 1 .. n |-> o]
    BY DEF StackParams
<1> HIDE DEF n, o
<1>5. n \in Nat
    BY <1>2 DEF n
<1> QED
    BY <1>3, <1>4, <1>5

LEMMA AllocsShape ==
    ASSUME ObjectInv, NEW f \in Functions
    PROVE  Allocs(f) \in Seq(StackObjects)
<1>1. FrameOf(f).allocs \in Seq(Objects)
    BY CallShape
<1> DEFINE n == Len(FrameOf(f).allocs)
           made(k) == Object("Variable", FrameOf(f).allocs[k].size, FrameOf(f).allocs[k].align)
           own == [k \in DOMAIN FrameOf(f).allocs |-> made(k)]
<1>2. own \in Seq(StackObjects)
  <2>1. ASSUME NEW k \in 1 .. n PROVE made(k) \in StackObjects
    <3>1. FrameOf(f).allocs[k] \in Objects
        BY <1>1
    <3> QED
        BY <3>1 DEF Object, Objects, StackObjects
  <2>2. DOMAIN FrameOf(f).allocs = 1 .. n /\ n \in Nat
      BY <1>1
  <2>3. own = [k \in 1 .. n |-> made(k)]
      BY <2>2
  <2> HIDE DEF made, n
  <2> QED
      BY <2>1, <2>2, <2>3
<1>3. Object("Variable", 72, 8) \in StackObjects
    BY DEF Object, StackObjects
<1> HIDE DEF own
<1>4. own \o <<Object("Variable", 72, 8)>> \in Seq(StackObjects) /\ own \o <<>> \in Seq(StackObjects)
    BY <1>2, <1>3
<1> QED
    BY <1>4 DEF Allocs, own

\* More objects in the frame of the function that is compiled.
LEMMA MoreObjects ==
    ASSUME ObjectInv, NEW more \in Seq(StackObjects),
           objects' = [objects EXCEPT ![function] = @ \o more]
    PROVE  objects' \in [Functions -> Seq(StackObjects)]
<1>1. objects[function] \in Seq(StackObjects)
    BY DEF ObjectInv
<1>2. objects[function] \o more \in Seq(StackObjects)
    BY <1>1
<1> QED
    BY <1>2 DEF ObjectInv

\* The registers that the allocator records are a list of names.
LEMMA RecordShape ==
    ASSUME ObjectInv, Allocate
    PROVE  usedCalleeSavedRegs' \in [Functions -> Seq(CalleeSaved)]
<1>1. PICK saves \in Seq(2 .. 4) : saves = FrameOf(function).saves
    BY CallShape DEF ObjectInv
<1>2. \A j \in 1 .. 4 : cc.saved[j] \in CalleeSaved
  <2>1. cc \in {SysV, Win64, LP64D}
      BY CallShape DEF Conventions
  <2>2. CASE cc = SysV
    <3>1. cc.saved = <<"rbp", "rbx", "r12", "r13">>
        BY <2>2 DEF SysV
    <3> QED
        BY <3>1 DEF CalleeSaved
  <2>3. CASE cc = Win64
    <3>1. cc.saved = <<"rbp", "rbx", "rdi", "rsi">>
        BY <2>3 DEF Win64
    <3> QED
        BY <3>1 DEF CalleeSaved
  <2>4. CASE cc = LP64D
    <3>1. cc.saved = <<"s0", "s1", "s2", "s3">>
        BY <2>4 DEF LP64D
    <3> QED
        BY <3>1 DEF CalleeSaved
  <2> QED
      BY <2>1, <2>2, <2>3, <2>4
<1> DEFINE others == [k \in DOMAIN saves |-> cc.saved[saves[k]]]
<1>3. others \in Seq(CalleeSaved)
  <2>1. PICK n \in Nat : n = Len(saves) /\ DOMAIN saves = 1 .. n
      BY <1>1
  <2>2. \A k \in 1 .. n : saves[k] \in 1 .. 4
      BY <1>1, <2>1
  <2>3. others = [k \in 1 .. n |-> cc.saved[saves[k]]]
      BY <2>1
  <2>4. \A k \in 1 .. n : cc.saved[saves[k]] \in CalleeSaved
      BY <1>2, <2>2
  <2> HIDE DEF others
  <2> QED
      BY <2>3, <2>4
<1>4. \/ usedCalleeSavedRegs' = [usedCalleeSavedRegs EXCEPT ![function] = <<cc.fp>> \o others]
      \/ usedCalleeSavedRegs' = [usedCalleeSavedRegs EXCEPT ![function] = <<>> \o others]
    BY <1>1 DEF Allocate
<1> HIDE DEF others
<1>5. <<cc.fp>> \o others \in Seq(CalleeSaved) /\ <<>> \o others \in Seq(CalleeSaved)
  <2>1. cc.fp \in CalleeSaved
    <3>1. cc \in {SysV, Win64, LP64D}
        BY CallShape DEF Conventions
    <3>2. cc.fp = "rbp" \/ cc.fp = "s0"
        BY <3>1 DEF SysV, Win64, LP64D
    <3> QED
        BY <3>2 DEF CalleeSaved
  <2> QED
      BY <1>3, <2>1
<1> QED
    BY <1>4, <1>5 DEF ObjectInv

LEMMA InitEstablishesIInv == Init => IInv
<1> SUFFICES ASSUME Init PROVE IInv
    OBVIOUS
<1>1. IsFiniteSet(DOMAIN legal.pushes) /\ IsFiniteSet(DOMAIN legal.pops)
  <2>1. DOMAIN legal.pushes = {} /\ DOMAIN legal.pops = {}
      BY DEF Init
  <2> QED
      BY <2>1, FS_EmptySet
<1>2. ObjectInv /\ ObjectsApart
    BY DEF Init, ObjectInv, ObjectsApart, Functions, NoLayout
<1> QED
    BY <1>1, <1>2 DEF IInv, LegalInv

\* A list with one entry for each argument is finite, and so is a longer one.
LEMMA ListsAreFinite ==
    ASSUME ObjectInv, NEW args, args = [k \in DOMAIN call.args |-> args[k]], NEW v
    PROVE  IsFiniteSet(DOMAIN args) /\ IsFiniteSet(DOMAIN (<<v>> \o args))
<1>1. call.args \in Seq({"Int", "Float", "Pointer"})
    BY CallShape
<1> DEFINE n == Len(call.args)
<1>2. n \in Nat /\ DOMAIN args = 1 .. n
    BY <1>1
<1>3. args = [k \in 1 .. n |-> args[k]]
    BY <1>1
<1> HIDE DEF n
<1>4. args \in Seq({args[k] : k \in 1 .. n} \cup {v}) /\ Len(args) = n
    BY <1>2, <1>3
<1>5. <<v>> \in Seq({args[k] : k \in 1 .. n} \cup {v}) /\ Len(<<v>>) = 1
    OBVIOUS
<1>6. DOMAIN (<<v>> \o args) = 1 .. n + 1
    BY <1>2, <1>4, <1>5
<1> QED
    BY <1>2, <1>6, FS_Interval

LEMMA LegalizeKeeps ==
    ASSUME IInv, LegalizeCall \/ LegalizeCallee
    PROVE  LegalInv'
<1> USE DEF IInv
<1>1. CASE LegalizeCall
  <2> DEFINE args == [k \in DOMAIN call.args |-> Value("arg" \o Names[k], call.args[k])]
             v == Value("buffer", "Pointer")
  <2>1. args = [k \in DOMAIN call.args |-> args[k]]
      OBVIOUS
  <2>2. /\ legal'.pushes = args \/ legal'.pushes = <<v>> \o args
        /\ legal'.pops = legal.pops
      BY <1>1 DEF LegalizeCall
  <2> HIDE DEF args, v
  <2>3. IsFiniteSet(DOMAIN args) /\ IsFiniteSet(DOMAIN (<<v>> \o args))
      BY <2>1, ListsAreFinite
  <2> QED
      BY <2>2, <2>3 DEF LegalInv
<1>2. CASE LegalizeCallee
  <2> DEFINE args == [k \in DOMAIN call.args |-> Value("param" \o Names[k], call.args[k])]
             v == Value("sret", "Pointer")
  <2>1. args = [k \in DOMAIN call.args |-> args[k]]
      OBVIOUS
  <2>2. /\ legal'.pops = Parameters
        /\ legal'.pushes = legal.pushes
      BY <1>2 DEF LegalizeCallee
  <2>3. Parameters = args \/ Parameters = <<v>> \o args
      BY DEF Parameters
  <2> HIDE DEF args, v
  <2>4. IsFiniteSet(DOMAIN args) /\ IsFiniteSet(DOMAIN (<<v>> \o args))
      BY <2>1, ListsAreFinite
  <2> QED
      BY <2>2, <2>3, <2>4 DEF LegalInv
<1> QED
    BY <1>1, <1>2
-----------------------------------------------------------------------------
(* The layout of a frame.                                                  *)

\* How the two cases of LayObject change the frame.
LEMMA LayObjectStep ==
    ASSUME IInv, LayObject
    PROVE  /\ (LegalInv /\ ObjectInv)'
           /\ ObjectsApart'
<1> USE DEF IInv
<1> DEFINE k == layout.laid + 1
           frame == objects[function]
           object == frame[k]
           in == AlignUp(layout.incoming, AlignOf(object))
           up == objects' = [objects EXCEPT ![function][k].offset = in]
           down == objects' = [objects EXCEPT ![function][k].offset = -Below(object)]
<1>1. /\ function \in Functions /\ objects \in [Functions -> Seq(StackObjects)]
      /\ frame \in Seq(StackObjects)
      /\ layout \in [laid : Nat, currentOffset : Nat, incoming : Nat]
      /\ layout.laid \in Nat /\ layout.currentOffset \in Nat /\ layout.incoming \in Nat
    BY DEF ObjectInv
<1>2. stage = "Layout" /\ k \in 1 .. Len(frame) /\ k - 1 = layout.laid
    BY <1>1 DEF LayObject
<1>3. object \in StackObjects
    BY <1>1, <1>2
<1>4. object.size \in Nat /\ object.align \in Nat
    BY <1>3 DEF StackObjects
<1>5. AlignOf(object) \in Nat \ {0}
    BY <1>4 DEF AlignOf, Larger
<1>6. Below(object) \in Nat /\ Below(object) >= layout.currentOffset + object.size
  <2> DEFINE room == layout.currentOffset + object.size
             a == AlignOf(object)
  <2>1. room \in Nat /\ a \in Nat \ {0} /\ Below(object) = AlignUp(room, a)
      BY <1>1, <1>4, <1>5 DEF Below
  <2> HIDE DEF room, a
  <2>2. AlignUp(room, a) \in Nat /\ AlignUp(room, a) >= room
      BY <2>1, AlignUpGrows
  <2> QED
      BY <2>1, <2>2 DEF room
<1>7. in \in Nat
    BY <1>1, <1>5, AlignUpGrows
<1>8. /\ stage' = stage /\ function' = function /\ call' = call /\ legal' = legal
      /\ usedCalleeSavedRegs' = usedCalleeSavedRegs
      /\ \/ object.source = "Parameter" /\ up
            /\ layout' = [layout EXCEPT !.laid = k, !.incoming = in + Larger(object.size, 8)]
         \/ object.source # "Parameter" /\ down
            /\ layout' = [layout EXCEPT !.laid = k, !.currentOffset = Below(object)]
    BY DEF LayObject
<1>9. /\ layout' \in [laid : Nat, currentOffset : Nat, incoming : Nat]
      /\ layout'.laid = k
      /\ layout'.currentOffset = IF object.source = "Parameter" THEN layout.currentOffset
                                 ELSE Below(object)
  <2> HIDE DEF k, in, up, down, object
  <2>1. k \in Nat /\ in + Larger(object.size, 8) \in Nat
      BY <1>1, <1>2, <1>4, <1>7 DEF Larger
  <2>2. CASE object.source = "Parameter"
    <3>1. layout' = [layout EXCEPT !.laid = k, !.incoming = in + Larger(object.size, 8)]
        BY <1>8, <2>2
    <3> QED
        BY <1>1, <2>1, <2>2, <3>1
  <2>3. CASE object.source # "Parameter"
    <3>1. layout' = [layout EXCEPT !.laid = k, !.currentOffset = Below(object)]
        BY <1>8, <2>3
    <3> QED
        BY <1>1, <1>6, <2>1, <2>3, <3>1
  <2> QED
      BY <2>2, <2>3
<1> DEFINE offset == IF object.source = "Parameter" THEN in ELSE -Below(object)
<1>10. offset \in Int
    BY <1>6, <1>7
<1> DEFINE laid == [object EXCEPT !.offset = offset]
<1>11. objects' = [objects EXCEPT ![function] = [frame EXCEPT ![k] = laid]]
  <2>1. CASE object.source = "Parameter"
    <3>1. offset = in /\ up
        BY <1>8, <2>1
    <3> HIDE DEF in, offset, k
    <3> QED
        BY <3>1
  <2>2. CASE object.source # "Parameter"
    <3>1. offset = -Below(object) /\ down
        BY <1>8, <2>2
    <3> HIDE DEF offset, k
    <3> QED
        BY <3>1
  <2> QED
      BY <2>1, <2>2
<1>12. /\ laid \in StackObjects /\ laid.offset = offset /\ laid.size = object.size
       /\ laid.source = object.source
  <2> HIDE DEF object, offset
  <2>1. object \in [source : {"Parameter", "Spill", "Variable"}, size : Nat, align : Nat, offset : Int]
      BY <1>3 DEF StackObjects
  <2>2. laid.offset = offset /\ laid.size = object.size /\ laid.source = object.source
      BY <2>1
  <2>3. laid \in [source : {"Parameter", "Spill", "Variable"}, size : Nat, align : Nat, offset : Int]
      BY <1>10, <2>1
  <2> QED
      BY <2>2, <2>3 DEF StackObjects
<1>13. objects'[function] = [frame EXCEPT ![k] = laid]
  <2> DEFINE after == [frame EXCEPT ![k] = laid]
  <2>1. objects' = [objects EXCEPT ![function] = after]
      BY <1>11
  <2> HIDE DEF after
  <2>2. objects'[function] = after
      BY <1>1, <2>1
  <2> QED
      BY <2>2 DEF after
<1>14. /\ objects'[function][k] = laid
       /\ \A j \in 1 .. layout.laid : objects'[function][j] = frame[j]
       /\ objects'[function] \in Seq(StackObjects)
       /\ Len(objects'[function]) = Len(frame)
  <2> DEFINE after == objects'[function]
             done == layout.laid
  <2>1. after = [frame EXCEPT ![k] = laid] /\ frame \in Seq(StackObjects) /\ laid \in StackObjects
      BY <1>1, <1>12, <1>13
  <2>2. k \in 1 .. Len(frame) /\ done \in Nat /\ k = done + 1
      BY <1>1, <1>2
  <2> HIDE DEF frame, laid, k, after, done
  <2>3. after \in Seq(StackObjects) /\ Len(after) = Len(frame) /\ after[k] = laid
      BY <2>1, <2>2
  <2>4. ASSUME NEW j \in 1 .. done PROVE after[j] = frame[j]
    <3>1. j # k /\ j \in 1 .. Len(frame)
        BY <2>1, <2>2
    <3> QED
        BY <2>1, <3>1
  <2> QED
      BY <2>3, <2>4 DEF after, done
<1>15. objects' \in [Functions -> Seq(StackObjects)]
  <2>1. objects' = [objects EXCEPT ![function] = [frame EXCEPT ![k] = laid]]
      BY <1>11
  <2>2. [frame EXCEPT ![k] = laid] \in Seq(StackObjects)
      BY <1>13, <1>14
  <2> HIDE DEF frame, laid, k
  <2> QED
      BY <1>1, <2>1, <2>2
<1>16. (LegalInv /\ ObjectInv)'
    BY <1>2, <1>8, <1>9, <1>14, <1>15 DEF LegalInv, ObjectInv
<1>17. ObjectsApart'
  <2> SUFFICES ASSUME NEW m \in 1 .. k, objects'[function][m].source # "Parameter"
               PROVE  /\ objects'[function][m].offset + objects'[function][m].size <= 0
                      /\ -layout'.currentOffset <= objects'[function][m].offset
                      /\ \A j \in 1 .. m - 1 :
                             objects'[function][j].source # "Parameter" =>
                                 objects'[function][m].offset + objects'[function][m].size
                                     <= objects'[function][j].offset
      BY <1>8, <1>9 DEF ObjectsApart
  <2>1. \A j \in 1 .. layout.laid : frame[j] \in StackObjects
      BY <1>1, <1>2
  <2>2. \A j \in 1 .. layout.laid :
            frame[j].offset \in Int /\ frame[j].size \in Nat
      BY <2>1 DEF StackObjects
  <2>3. \A i \in 1 .. layout.laid : frame[i].source # "Parameter" =>
            /\ frame[i].offset + frame[i].size <= 0 /\ -layout.currentOffset <= frame[i].offset
            /\ \A j \in 1 .. i - 1 : frame[j].source # "Parameter" =>
                   frame[i].offset + frame[i].size <= frame[j].offset
      BY <1>2 DEF ObjectsApart
  <2>4. layout'.currentOffset >= layout.currentOffset /\ layout'.currentOffset \in Nat
      BY <1>1, <1>4, <1>6, <1>9
  <2> HIDE DEF frame, object, laid, offset, in, up, down
  <2>5. CASE m \in 1 .. layout.laid
    <3>1. objects'[function][m] = frame[m] /\ \A j \in 1 .. m - 1 : objects'[function][j] = frame[j]
      <4>1. \A j \in 1 .. m - 1 : j \in 1 .. layout.laid
          BY <1>1, <2>5
      <4> QED
          BY <1>14, <2>5, <4>1
    <3>2. -layout'.currentOffset <= -layout.currentOffset
        BY <1>1, <2>4
    <3> QED
      <4>1. frame[m].source # "Parameter" /\ frame[m].offset \in Int
          BY <2>2, <2>5, <3>1
      <4>2. -layout'.currentOffset <= frame[m].offset
          BY <1>1, <2>3, <2>4, <2>5, <3>2, <4>1
      <4>3. /\ frame[m].offset + frame[m].size <= 0
            /\ \A j \in 1 .. m - 1 : frame[j].source # "Parameter" =>
                   frame[m].offset + frame[m].size <= frame[j].offset
          BY <2>3, <2>5, <4>1
      <4> QED
          BY <3>1, <4>2, <4>3
  <2>6. CASE m = k
    <3>1. objects'[function][m] = laid
        BY <1>14, <2>6
    <3>2. object.source # "Parameter"
        BY <1>12, <3>1
    <3>3. laid.offset = -Below(object) /\ layout'.currentOffset = Below(object)
        BY <1>9, <1>12, <3>2 DEF offset
    <3>4. laid.offset + laid.size <= -layout.currentOffset
        BY <1>1, <1>4, <1>6, <1>12, <3>3
    <3>5. \A j \in 1 .. m - 1 : objects'[function][j] = frame[j] /\ j \in 1 .. layout.laid
        BY <1>1, <1>2, <1>14, <2>6
    <3>6. laid.offset \in Int /\ laid.size \in Nat
        BY <1>4, <1>6, <1>12, <3>3
    <3>7. \A j \in 1 .. m - 1 : frame[j].source # "Parameter" =>
              laid.offset + laid.size <= frame[j].offset
        BY <1>1, <2>2, <2>3, <3>4, <3>5, <3>6
    <3> QED
      <4>1. laid.offset + laid.size <= 0
          BY <1>1, <3>4, <3>6
      <4>2. -layout'.currentOffset <= laid.offset
          BY <1>6, <3>3
      <4> QED
          BY <3>1, <3>5, <3>7, <4>1, <4>2
  <2> QED
      BY <1>1, <1>2, <2>5, <2>6
<1> QED
    BY <1>16, <1>17
-----------------------------------------------------------------------------
(* The other steps.                                                        *)

LEMMA StepPreservesIInv == IInv /\ [Next]_vars => IInv'
<1> SUFFICES ASSUME IInv, [Next]_vars PROVE IInv'
    OBVIOUS
<1> USE DEF IInv
<1>1. CASE LegalizeCall \/ LegalizeCallee
  <2>1. LegalInv'
      BY <1>1, LegalizeKeeps
  <2>2. /\ stage' = "Abi" /\ call' = call /\ function' = function /\ objects' = objects
        /\ layout' = layout /\ usedCalleeSavedRegs' = usedCalleeSavedRegs
      BY <1>1 DEF LegalizeCall, LegalizeCallee
  <2> QED
      BY <2>1, <2>2 DEF ObjectInv, ObjectsApart
<1>2. CASE ProcessCall \/ ProcessCallee \/ Allocate \/ LowerAllocs
  <2>1. PICK more \in Seq(StackObjects) : objects' = [objects EXCEPT ![function] = @ \o more]
    <3>1. CASE ProcessCall
      <4>1. StackParams(legal.pushes) \in Seq(StackObjects)
          BY StackParamsShape DEF LegalInv
      <4>2. objects' = [objects EXCEPT ![function] = @ \o StackParams(legal.pushes)]
          BY <3>1 DEF ProcessCall, Compiling
      <4> QED
          BY <4>1, <4>2
    <3>2. CASE ProcessCallee
      <4>1. StackParams(legal.pops) \in Seq(StackObjects)
          BY StackParamsShape DEF LegalInv
      <4>2. objects' = [objects EXCEPT ![function] = @ \o StackParams(legal.pops)]
          BY <3>2 DEF ProcessCallee, Compiling
      <4> QED
          BY <4>1, <4>2
    <3>3. CASE Allocate
      <4> DEFINE o == [source |-> "Spill", size |-> 8, align |-> 8, offset |-> 0]
                 n == FrameOf(function).spills
                 slots == [k \in 1 .. n |-> o]
      <4>1. n \in Nat
          BY CallShape DEF ObjectInv
      <4>2. o \in StackObjects
          BY DEF StackObjects
      <4>3. objects' = [objects EXCEPT ![function] = @ \o slots]
          BY <3>3 DEF Allocate
      <4> HIDE DEF o, n
      <4>4. slots \in Seq(StackObjects)
          BY <4>1, <4>2
      <4> QED
          BY <4>3, <4>4
    <3>4. CASE LowerAllocs
      <4>1. Allocs(function) \in Seq(StackObjects)
          BY AllocsShape DEF ObjectInv
      <4>2. objects' = [objects EXCEPT ![function] = @ \o Allocs(function)]
          BY <3>4 DEF LowerAllocs
      <4> QED
          BY <4>1, <4>2
    <3> QED
        BY <1>2, <3>1, <3>2, <3>3, <3>4
  <2>2. objects' \in [Functions -> Seq(StackObjects)]
      BY <2>1, MoreObjects
  <2>3. call' = call /\ function' = function /\ legal' = legal
      BY <1>2 DEF ProcessCall, ProcessCallee, Allocate, LowerAllocs
  <2>7. usedCalleeSavedRegs' \in [Functions -> Seq(CalleeSaved)]
    <3>1. CASE Allocate
        BY <3>1, RecordShape
    <3>2. CASE ~Allocate
      <4>1. usedCalleeSavedRegs' = usedCalleeSavedRegs
          BY <1>2, <3>2 DEF ProcessCall, ProcessCallee, LowerAllocs
      <4> QED
          BY <4>1 DEF ObjectInv
    <3> QED
        BY <3>1, <3>2
  <2>4. CASE stage' # "Layout" /\ layout' = layout
      BY <2>2, <2>3, <2>4, <2>7 DEF LegalInv, ObjectInv, ObjectsApart
  <2>5. CASE LowerAllocs
    <3>1. layout' = [laid |-> 0, currentOffset |-> 8 * Len(usedCalleeSavedRegs[function]),
                     incoming |-> 16 + cc.shadow]
        BY <2>5 DEF LowerAllocs
    <3>2. Len(usedCalleeSavedRegs[function]) \in Nat /\ cc.shadow \in Nat
      <4>1. usedCalleeSavedRegs[function] \in Seq(CalleeSaved)
          BY DEF ObjectInv
      <4> QED
          BY <4>1, CallShape
    <3>3. layout' \in [laid : Nat, currentOffset : Nat, incoming : Nat] /\ layout'.laid = 0
        BY <3>1, <3>2
    <3>4. Len(objects'[function]) \in Nat
        BY <2>2 DEF ObjectInv
    <3>5. ObjectInv'
        BY <2>2, <2>3, <2>7, <3>3, <3>4 DEF ObjectInv
    <3>6. ObjectsApart'
        BY <3>3 DEF ObjectsApart
    <3> QED
        BY <2>3, <3>5, <3>6 DEF LegalInv
  <2>6. LowerAllocs \/ (stage' # "Layout" /\ layout' = layout)
      BY <1>2 DEF ProcessCall, ProcessCallee, Allocate
  <2> QED
      BY <2>4, <2>5, <2>6
<1>3. CASE LayObject
    BY <1>3, LayObjectStep
<1>4. CASE FinishFrame
  <2>1. /\ stage' # "Layout" /\ layout' = NoLayout /\ call' = call /\ legal' = legal
        /\ objects' = objects /\ usedCalleeSavedRegs' = usedCalleeSavedRegs /\ function' \in Functions
      BY <1>4 DEF FinishFrame, Functions, ObjectInv
  <2>2. NoLayout \in [laid : Nat, currentOffset : Nat, incoming : Nat]
      BY DEF NoLayout
  <2> QED
      BY <2>1, <2>2 DEF LegalInv, ObjectInv, ObjectsApart
<1>5. CASE \/ ExecuteAdd \/ ExecuteLoad \/ ExecuteStore \/ ExecutePush \/ ExecutePop
           \/ Fill \/ Use \/ ExecuteCall \/ ExecuteRet \/ UNCHANGED vars
  <2>1. call' = call /\ UNCHANGED lowering /\ (stage' = stage \/ stage' = "Left")
      BY <1>5 DEF ExecuteAdd, ExecuteLoad, ExecuteStore, ExecutePush, ExecutePop, Fill, Use,
                  ExecuteCall, ExecuteRet, vars
  <2> QED
      BY <2>1 DEF lowering, LegalInv, ObjectInv, ObjectsApart
<1> QED
    BY <1>1, <1>2, <1>3, <1>4, <1>5 DEF Next

\* calculateFrameLayout: no two objects of a frame share a byte, and all are
\* in the room that is taken, whatever has put them into the frame.
THEOREM ObjectsAlwaysApart == Spec => []ObjectsApart
<1>1. Init => IInv
    BY InitEstablishesIInv
<1>2. IInv /\ [Next]_vars => IInv'
    BY StepPreservesIInv
<1>3. IInv => ObjectsApart
    BY DEF IInv
<1> QED
    BY <1>1, <1>2, <1>3, PTL DEF Spec
=============================================================================
