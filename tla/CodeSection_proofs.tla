------------------------- MODULE CodeSection_proofs -------------------------
(***************************************************************************)
(* A section of the object file, for every number of nodes and labels and  *)
(* every way of writing: its links agree, the offset of its cursor is what *)
(* a replay of the stream gives, and its operations are those of a section *)
(* text.  The text of a stream, its replay and its flattened bytes are     *)
(* folds over the chain of the nodes; what they compute is shown by        *)
(* induction, one node after the other.                                    *)
(***************************************************************************)
EXTENDS CodeSection, SequenceTheorems, WellFoundedInduction, TLAPS

-----------------------------------------------------------------------------
(* Induction over the numbers, and what a fold computes.                   *)

\* A set of numbers that has 0, and with a number the next one, has them all.
LEMMA Induction ==
    ASSUME NEW T, 0 \in T, \A n \in Nat : n \in T => n + 1 \in T
    PROVE  Nat \subseteq T
<1> DEFINE R == {p \in Nat \X Nat : p[1] < p[2]}
           Missing == {n \in Nat : n \notin T}
<1>1. IsWellFoundedOn(R, Nat)
  BY NatLessThanWellFounded DEF OpToRel
<1> SUFFICES ASSUME Missing # {} PROVE FALSE
  OBVIOUS
<1>2. PICK n \in Missing : \A m \in Missing : ~ (<<m, n>> \in R)
  <2> HIDE DEF R, Missing
  <2>1. Missing \subseteq Nat
    BY DEF Missing
  <2> QED BY <1>1, <2>1, WFMin
<1> HIDE DEF R
<1>3. n \in Nat /\ n \notin T
  OBVIOUS
<1>4. n # 0 /\ n - 1 \in Nat
  BY <1>3
<1>5. n - 1 \in T
  <2>1. <<n - 1, n>> \in R
    BY <1>4 DEF R
  <2> QED BY <1>2, <1>4, <2>1
<1>6. n = (n - 1) + 1
  BY <1>3
<1> QED BY <1>3, <1>4, <1>5, <1>6

\* A set of the first numbers has its maximum in it.
LEMMA MaxOf ==
    ASSUME NEW n \in Nat, NEW s \in SUBSET (1 .. n), s # {}
    PROVE  Max(s) \in s /\ \A y \in s : Max(s) >= y
<1> DEFINE Bounded(k) == \A t \in SUBSET (1 .. k) : t # {} => \E x \in t : \A y \in t : x >= y
           T == {k \in Nat : Bounded(k)}
<1>1. 0 \in T
  <2>1. 1 .. 0 = {}
    OBVIOUS
  <2> QED BY <2>1
<1>2. ASSUME NEW k \in Nat, k \in T PROVE k + 1 \in T
  <2> SUFFICES ASSUME NEW t \in SUBSET (1 .. k + 1), t # {}
               PROVE  \E x \in t : \A y \in t : x >= y
    OBVIOUS
  <2>1. CASE k + 1 \in t
    BY <2>1
  <2>2. CASE k + 1 \notin t
    <3>1. t \in SUBSET (1 .. k)
      BY <2>2
    <3> QED BY <1>2, <3>1
  <2> QED BY <2>1, <2>2
<1>3. n \in T
  <2> HIDE DEF T
  <2> QED BY <1>1, <1>2, Induction
<1>4. \E x \in s : \A y \in s : x >= y
  BY <1>3
<1> QED BY <1>4 DEF Max

\* What a fold over the numbers 1 to n computes, for the sets of them.
IsFold(h, n, base, step) ==
    \A s \in SUBSET (1 .. n) :
        h[s] = IF s = {} THEN base ELSE step[Max(s)][h[s \ {Max(s)}]]

\* There is such a fold for every table of steps.
LEMMA FoldExists ==
    ASSUME NEW V, NEW base \in V, NEW n \in Nat, NEW step \in [1 .. n -> [V -> V]]
    PROVE  \E h \in [SUBSET (1 .. n) -> V] : IsFold(h, n, base, step)
<1> DEFINE Exists(k) == \E h \in [SUBSET (1 .. k) -> V] : IsFold(h, k, base, step)
           T == {k \in Nat : k <= n => Exists(k)}
<1>1. 0 \in T
  <2> DEFINE h == [s \in SUBSET (1 .. 0) |-> base]
  <2>1. h \in [SUBSET (1 .. 0) -> V] /\ IsFold(h, 0, base, step)
    BY DEF IsFold
  <2> QED BY <2>1
<1>2. ASSUME NEW k \in Nat, k \in T PROVE k + 1 \in T
  <2> SUFFICES ASSUME k + 1 <= n PROVE Exists(k + 1)
    <3> HIDE DEF Exists
    <3> QED OBVIOUS
  <2>0. Exists(k)
    <3> HIDE DEF Exists
    <3> QED BY <1>2
  <2>1. PICK h \in [SUBSET (1 .. k) -> V] : IsFold(h, k, base, step)
    BY <2>0
  <2> DEFINE g == [s \in SUBSET (1 .. k + 1) |->
                     IF k + 1 \in s THEN step[k + 1][h[s \ {k + 1}]] ELSE h[s]]
  <2>2. \A s \in SUBSET (1 .. k + 1) : s \ {k + 1} \in SUBSET (1 .. k)
    OBVIOUS
  <2>3. step[k + 1] \in [V -> V]
    OBVIOUS
  <2>4. g \in [SUBSET (1 .. k + 1) -> V]
    <3> SUFFICES ASSUME NEW s \in SUBSET (1 .. k + 1) PROVE g[s] \in V
      OBVIOUS
    <3>1. CASE k + 1 \in s
      BY <2>1, <2>2, <2>3, <3>1
    <3>2. CASE k + 1 \notin s
      BY <2>1, <2>2, <3>2
    <3> QED BY <3>1, <3>2
  <2>5. ASSUME NEW s \in SUBSET (1 .. k + 1)
        PROVE  g[s] = IF s = {} THEN base ELSE step[Max(s)][g[s \ {Max(s)}]]
    <3>1. CASE k + 1 \in s
      <4>1. Max(s) = k + 1
        <5>1. k + 1 \in Nat /\ s # {}
          BY <3>1
        <5>2. Max(s) \in s /\ \A y \in s : Max(s) >= y
          BY <5>1, MaxOf
        <5>3. Max(s) \in 1 .. k + 1 /\ Max(s) >= k + 1
          BY <3>1, <5>2
        <5> QED BY <5>3
      <4>2. g[s \ {k + 1}] = h[s \ {k + 1}]
        BY <2>2
      <4> QED BY <3>1, <4>1, <4>2
    <3>2. CASE k + 1 \notin s
      <4>1. s \in SUBSET (1 .. k)
        BY <3>2
      <4>2. g[s] = h[s] /\ g[s \ {Max(s)}] = h[s \ {Max(s)}]
        <5>1. \A t \in SUBSET (1 .. k) : t \in SUBSET (1 .. k + 1) /\ k + 1 \notin t
          OBVIOUS
        <5>2. \A t \in SUBSET (1 .. k) : g[t] = h[t]
          BY <5>1
        <5> QED BY <4>1, <5>2
      <4> QED BY <2>1, <4>1, <4>2 DEF IsFold
    <3> QED BY <3>1, <3>2
  <2> HIDE DEF g
  <2> QED BY <2>4, <2>5 DEF IsFold
<1>3. n \in T
  <2> HIDE DEF T
  <2> QED BY <1>1, <1>2, Induction
<1>4. Exists(n)
  <2> HIDE DEF Exists
  <2> QED BY <1>3
<1> QED BY <1>4

TextItems == {Text!Byte(b) : b \in Bytes} \cup {Text!Mark(l) : l \in Labels}
             \cup {Text!AlignMark(a) : a \in Alignments}

\* What a fold over the first numbers computes, one number after the other.
IsRun(p, n, V, base, step) ==
    /\ p \in [0 .. n -> V] /\ p[0] = base
    /\ \A k \in 1 .. n : p[k] = step[k][p[k - 1]]

\* The maximum of the first numbers is the last of them.
LEMMA MaxOfFirst == ASSUME NEW k \in Nat \ {0} PROVE Max(1 .. k) = k /\ (1 .. k) \ {k} = 1 .. (k - 1)
<1>1. k \in 1 .. k
  OBVIOUS
<1>2. Max(1 .. k) \in 1 .. k /\ \A y \in 1 .. k : Max(1 .. k) >= y
  BY <1>1, MaxOf
<1> QED BY <1>1, <1>2

\* Whatever takes the same steps over the first numbers computes a run.
TakesSteps(g, n, V, base, step) ==
    /\ n \in Nat /\ base \in V /\ step \in [1 .. n -> [V -> V]]
    /\ g[{}] = base
    /\ \A k \in 1 .. n, v \in V : g[1 .. (k - 1)] = v => g[1 .. k] = step[k][v]

\* It computes a run, whose last value is what it has for all of them.
LEMMA FoldRuns ==
    ASSUME NEW V, NEW base, NEW n, NEW step, NEW g, TakesSteps(g, n, V, base, step)
    PROVE  \E p : IsRun(p, n, V, base, step) /\ g[1 .. n] = p[n]
<1> USE DEF TakesSteps
<1>0. 1 .. 0 = {}
  OBVIOUS
<1> DEFINE p == [k \in 0 .. n |-> g[1 .. k]]
           T == {k \in Nat : k <= n => p[k] \in V}
<1>1. 0 \in T
  BY <1>0
<1>2. ASSUME NEW k \in Nat, k \in T PROVE k + 1 \in T
  <2> SUFFICES ASSUME k + 1 <= n PROVE g[1 .. k + 1] \in V
    OBVIOUS
  <2>1. k + 1 \in 1 .. n /\ (k + 1) - 1 = k /\ g[1 .. k] \in V
    BY <1>2
  <2>2. g[1 .. k + 1] = step[k + 1][g[1 .. k]] /\ step[k + 1] \in [V -> V]
    BY <2>1
  <2> QED BY <2>1, <2>2
<1>3. Nat \subseteq T
  <2> HIDE DEF T
  <2> QED BY <1>1, <1>2, Induction
<1>4. p \in [0 .. n -> V]
  <2>1. \A k \in 0 .. n : k \in T /\ k <= n
    <3> HIDE DEF T
    <3> QED BY <1>3
  <2> QED BY <2>1
<1>5. ASSUME NEW k \in 1 .. n PROVE p[k] = step[k][p[k - 1]]
  <2>1. k - 1 \in 0 .. n /\ k \in 0 .. n
    OBVIOUS
  <2>2. p[k - 1] \in V /\ p[k - 1] = g[1 .. (k - 1)] /\ p[k] = g[1 .. k]
    BY <2>1, <1>4
  <2> QED BY <2>2
<1>6. p[0] = base /\ p[n] = g[1 .. n]
  BY <1>0
<1> HIDE DEF p
<1> QED BY <1>4, <1>5, <1>6 DEF IsRun

\* One step more.
LEMMA RunAppend ==
    ASSUME NEW V, NEW base, NEW n \in Nat, NEW step, NEW more, NEW p, NEW q,
           IsRun(p, n, V, base, step), IsRun(q, n + 1, V, base, more),
           \A k \in 1 .. n : more[k] = step[k]
    PROVE  q[n + 1] = more[n + 1][p[n]]
<1> DEFINE T == {k \in Nat : k <= n => p[k] = q[k]}
<1>1. 0 \in T
  BY DEF IsRun
<1>2. ASSUME NEW k \in Nat, k \in T PROVE k + 1 \in T
  <2> SUFFICES ASSUME k + 1 <= n PROVE p[k + 1] = q[k + 1]
    OBVIOUS
  <2>1. k + 1 \in 1 .. n /\ k + 1 \in 1 .. n + 1 /\ (k + 1) - 1 = k /\ p[k] = q[k]
    BY <1>2
  <2>2. p[k + 1] = step[k + 1][p[k]] /\ q[k + 1] = more[k + 1][q[k]]
    BY <2>1 DEF IsRun
  <2> QED BY <2>1, <2>2
<1>3. Nat \subseteq T
  <2> HIDE DEF T
  <2> QED BY <1>1, <1>2, Induction
<1>4. p[n] = q[n]
  BY <1>3
<1>5. n + 1 \in 1 .. n + 1 /\ (n + 1) - 1 = n
  OBVIOUS
<1> QED BY <1>4, <1>5 DEF IsRun

\* The definition of the layout, with the library's folds opened.
LEMMA LayoutIs ==
    ASSUME NEW items
    PROVE  Text!Layout(items) =
             (CHOOSE g : g = [s \in SUBSET (DOMAIN items) |->
                 IF s = {} THEN <<>> ELSE Text!Place(g[s \ {Max(s)}], items[Max(s)])])[DOMAIN items]
BY DEF Text!Layout, Text!FoldLeft, Text!MapThenFoldSet, Text!Max, Max

LayoutStep(items) ==
    [k \in 1 .. Len(items) |-> [bytes \in Seq(Bytes) |-> Text!Place(bytes, items[k])]]

\* An item leaves bytes behind it.
LEMMA PlaceType ==
    ASSUME NEW bytes \in Seq(Bytes), NEW item \in TextItems
    PROVE  Text!Place(bytes, item) \in Seq(Bytes)
<1>1. CASE \E b \in Bytes : item = Text!Byte(b)
  BY <1>1 DEF Text!Place, Text!Byte
<1>2. CASE \E l \in Labels : item = Text!Mark(l)
  BY <1>2 DEF Text!Place, Text!Mark
<1>3. CASE \E a \in Alignments : item = Text!AlignMark(a)
  <2>1. PICK a \in Alignments : item = Text!AlignMark(a)
    BY <1>3
  <2>2. Text!Place(bytes, item) = bytes \o Text!Padding(Len(bytes), a)
    BY <2>1 DEF Text!Place, Text!AlignMark
  <2>3. a \in Nat \ {0} /\ Len(bytes) \in Nat
    BY AlignmentsAssumption
  <2>4. (a - (Len(bytes) % a)) % a \in Nat
    BY <2>3
  <2>5. Text!Padding(Len(bytes), a) \in Seq(Bytes)
    BY <2>4, BytesAssumption DEF Text!Padding
  <2> QED BY <2>2, <2>5
<1> QED BY <1>1, <1>2, <1>3 DEF TextItems

\* The layout of a text takes one step per item.
LEMMA LayoutRuns ==
    ASSUME NEW items \in Seq(TextItems)
    PROVE  \E p : /\ IsRun(p, Len(items), Seq(Bytes), <<>>, LayoutStep(items))
                  /\ Text!Layout(items) = p[Len(items)]
<1> DEFINE n == Len(items)
           V == Seq(Bytes)
           step == LayoutStep(items)
           Is(f) == f = [s \in SUBSET (1 .. n) |->
                 IF s = {} THEN <<>> ELSE Text!Place(f[s \ {Max(s)}], items[Max(s)])]
           g == CHOOSE f : Is(f)
<1>1. n \in Nat /\ DOMAIN items = 1 .. n /\ <<>> \in V
  OBVIOUS
<1>2. /\ step \in [1 .. n -> [V -> V]]
      /\ \A k \in 1 .. n, v \in V : step[k][v] = Text!Place(v, items[k])
  <2>1. \A k \in 1 .. n : items[k] \in TextItems
    OBVIOUS
  <2> QED BY <2>1, PlaceType DEF LayoutStep
<1>3. Text!Layout(items) = g[1 .. n]
  BY <1>1, LayoutIs
<1> HIDE DEF n, V, step
<1>4. PICK h \in [SUBSET (1 .. n) -> V] : IsFold(h, n, <<>>, step)
  BY <1>1, <1>2, FoldExists
<1>5. Is(h)
  <2> SUFFICES ASSUME NEW s \in SUBSET (1 .. n)
               PROVE  h[s] = IF s = {} THEN <<>> ELSE Text!Place(h[s \ {Max(s)}], items[Max(s)])
    OBVIOUS
  <2>1. s # {} => Max(s) \in 1 .. n /\ s \ {Max(s)} \in SUBSET (1 .. n)
    BY <1>1, MaxOf
  <2> QED BY <1>2, <1>4, <2>1 DEF IsFold
<1>6. Is(g)
  <2> HIDE DEF Is
  <2> QED BY <1>5
<1> HIDE DEF g
<1>7. \A s \in SUBSET (1 .. n) :
          g[s] = IF s = {} THEN <<>> ELSE Text!Place(g[s \ {Max(s)}], items[Max(s)])
  BY <1>6
<1>8. g[{}] = <<>>
  BY <1>7
<1>9. ASSUME NEW k \in 1 .. n, NEW v \in V, g[1 .. (k - 1)] = v PROVE g[1 .. k] = step[k][v]
  <2>1. k \in Nat \ {0} /\ 1 .. k \subseteq 1 .. n /\ k \in 1 .. k
    BY <1>1
  <2>2. g[1 .. k] = Text!Place(g[1 .. (k - 1)], items[k])
    BY <1>7, <2>1, MaxOfFirst
  <2> QED BY <1>2, <1>9, <2>2
<1>10. \E p : IsRun(p, n, V, <<>>, step) /\ g[1 .. n] = p[n]
  <2> HIDE DEF Is
  <2>1. \A k \in 1 .. n, v \in V : g[1 .. (k - 1)] = v => g[1 .. k] = step[k][v]
    BY <1>9
  <2>2. n \in Nat /\ <<>> \in V /\ step \in [1 .. n -> [V -> V]]
    BY <1>1, <1>2
  <2>3. TakesSteps(g, n, V, <<>>, step)
    BY <1>8, <2>1, <2>2 DEF TakesSteps
  <2> QED BY <2>3, FoldRuns
<1> QED BY <1>3, <1>10 DEF n, V, step

\* The empty text is laid out as no bytes.
LEMMA LayoutEmpty == Text!Layout(<<>>) = <<>>
<1>1. <<>> \in Seq(TextItems) /\ Len(<<>>) = 0
  OBVIOUS
<1> QED BY <1>1, LayoutRuns DEF IsRun

\* One more item is laid out behind the others.
LEMMA LayoutAppend ==
    ASSUME NEW items \in Seq(TextItems), NEW item \in TextItems
    PROVE  /\ Text!Layout(items) \in Seq(Bytes)
           /\ Text!Layout(Append(items, item)) = Text!Place(Text!Layout(items), item)
<1> DEFINE n == Len(items)
           longer == Append(items, item)
<1>1. /\ n \in Nat /\ longer \in Seq(TextItems) /\ Len(longer) = n + 1
      /\ longer[n + 1] = item /\ \A k \in 1 .. n : longer[k] = items[k]
  OBVIOUS
<1>2. PICK p : /\ IsRun(p, n, Seq(Bytes), <<>>, LayoutStep(items))
               /\ Text!Layout(items) = p[n]
  BY LayoutRuns
<1>3. PICK q : /\ IsRun(q, n + 1, Seq(Bytes), <<>>, LayoutStep(longer))
               /\ Text!Layout(longer) = q[n + 1]
  BY <1>1, LayoutRuns
<1>4. \A k \in 1 .. n : LayoutStep(longer)[k] = LayoutStep(items)[k]
  BY <1>1 DEF LayoutStep
<1>5. q[n + 1] = LayoutStep(longer)[n + 1][p[n]]
  <2> HIDE DEF n, longer
  <2> QED BY <1>1, <1>2, <1>3, <1>4, RunAppend
<1>6. p[n] \in Seq(Bytes)
  BY <1>1, <1>2 DEF IsRun
<1>7. LayoutStep(longer)[n + 1][p[n]] = Text!Place(p[n], item)
  BY <1>1, <1>6 DEF LayoutStep
<1> QED BY <1>2, <1>3, <1>5, <1>6, <1>7

-----------------------------------------------------------------------------
(* What bytes, labels and alignments are laid out as.                      *)

\* The bytes of a run, as items of the text.
ByteItems(run) == [k \in 1 .. Len(run) |-> Text!Byte(run[k])]

\* A run of bytes is as many items.
LEMMA ByteItemsType ==
    ASSUME NEW run \in Seq(Bytes)
    PROVE  ByteItems(run) \in Seq(TextItems) /\ Len(ByteItems(run)) = Len(run)
<1>1. \A k \in 1 .. Len(run) : Text!Byte(run[k]) \in TextItems
  BY DEF TextItems
<1> QED BY <1>1 DEF ByteItems

\* Appending to a concatenation appends to its second part.
LEMMA AppendOfConcat ==
    ASSUME NEW s \in Seq(Bytes), NEW t \in Seq(Bytes), NEW e \in Bytes
    PROVE  Append(s \o t, e) = s \o Append(t, e)
<1>1. Append(t, e) = t \o <<e>> /\ <<e>> \in Seq(Bytes)
  BY AppendIsConcat
<1>2. s \o t \in Seq(Bytes)
  OBVIOUS
<1>3. Append(s \o t, e) = (s \o t) \o <<e>>
  BY <1>2, AppendIsConcat
<1> QED BY <1>1, <1>3, ConcatAssociative

\* Bytes are laid out as they are.
LEMMA LayoutBytes ==
    ASSUME NEW items \in Seq(TextItems), NEW run \in Seq(Bytes)
    PROVE  Text!Layout(items \o ByteItems(run)) = Text!Layout(items) \o run
<1> DEFINE Good(k) == Text!Layout(items \o ByteItems(SubSeq(run, 1, k)))
                        = Text!Layout(items) \o SubSeq(run, 1, k)
           T == {k \in Nat : k <= Len(run) => Good(k)}
<1>1. 0 \in T
  <2>1. SubSeq(run, 1, 0) = <<>> /\ ByteItems(<<>>) = <<>>
    BY DEF ByteItems
  <2>2. items \o <<>> = items
    OBVIOUS
  <2>3. Text!Layout(items) \o <<>> = Text!Layout(items)
    <3>1. Text!Byte(PadByte) \in TextItems
      BY BytesAssumption DEF TextItems
    <3>2. Text!Layout(items) \in Seq(Bytes)
      BY <3>1, LayoutAppend
    <3> QED BY <3>2
  <2> QED BY <2>1, <2>2, <2>3
<1>2. ASSUME NEW k \in Nat, k \in T PROVE k + 1 \in T
  <2> SUFFICES ASSUME k + 1 <= Len(run) PROVE Good(k + 1)
    <3> HIDE DEF Good
    <3> QED OBVIOUS
  <2>0. Good(k)
    <3> HIDE DEF Good
    <3> QED BY <1>2
  <2> DEFINE some == SubSeq(run, 1, k)
             b == run[k + 1]
  <2>1. some \in Seq(Bytes) /\ b \in Bytes /\ SubSeq(run, 1, k + 1) = Append(some, b)
    OBVIOUS
  <2>2. Text!Byte(b) \in TextItems
    BY <2>1 DEF TextItems
  <2> HIDE DEF some, b
  <2>3. ByteItems(some) \in Seq(TextItems)
    BY <2>1, ByteItemsType
  <2>4. ByteItems(Append(some, b)) = Append(ByteItems(some), Text!Byte(b))
    BY <2>1 DEF ByteItems
  <2>5. items \o ByteItems(Append(some, b)) = Append(items \o ByteItems(some), Text!Byte(b))
    BY <2>2, <2>3, <2>4
  <2>6. items \o ByteItems(some) \in Seq(TextItems)
    BY <2>3
  <2>7. /\ Text!Layout(items) \in Seq(Bytes)
        /\ Text!Layout(Append(items \o ByteItems(some), Text!Byte(b)))
             = Text!Place(Text!Layout(items \o ByteItems(some)), Text!Byte(b))
    BY <2>2, <2>6, LayoutAppend
  <2>8. Text!Layout(items \o ByteItems(some)) = Text!Layout(items) \o some
    BY <2>0 DEF some
  <2>9. Text!Place(Text!Layout(items) \o some, Text!Byte(b)) = Append(Text!Layout(items) \o some, b)
    BY DEF Text!Place, Text!Byte
  <2>10. Append(Text!Layout(items) \o some, b) = Text!Layout(items) \o Append(some, b)
    <3> DEFINE laid == Text!Layout(items)
    <3>1. laid \in Seq(Bytes)
      BY <2>7
    <3> HIDE DEF laid
    <3>2. some \in Seq(Bytes) /\ b \in Bytes
      BY <2>1
    <3>3. Append(laid \o some, b) = laid \o Append(some, b)
      BY <3>1, <3>2, AppendOfConcat
    <3> QED BY <3>3 DEF laid
  <2> QED BY <2>1, <2>5, <2>7, <2>8, <2>9, <2>10
<1>3. Len(run) \in T
  <2> HIDE DEF T
  <2> QED BY <1>1, <1>2, Induction
<1>4. Good(Len(run))
  <2> HIDE DEF Good
  <2> QED BY <1>3
<1>5. SubSeq(run, 1, Len(run)) = run
  OBVIOUS
<1> QED BY <1>4, <1>5

\* The two ways of rounding up agree.
LEMMA PaddingAgrees ==
    ASSUME NEW size \in Nat, NEW a \in Nat \ {0}
    PROVE  /\ (a - (size % a)) % a \in Nat
           /\ AlignUp(size, a) = size + ((a - (size % a)) % a)
           /\ AlignUp(size, a) \in Nat
           /\ Padding(size, a) = Text!Padding(size, a)
<1>1. size % a \in 0 .. a - 1
  OBVIOUS
<1>2. \A x \in 1 .. a - 1 : x % a = x
  OBVIOUS
<1>3. a % a = 0
  OBVIOUS
<1>4. CASE size % a = 0
  <2>1. (a - (size % a)) % a = 0
    BY <1>3, <1>4
  <2>2. AlignUp(size, a) = size
    BY <1>4 DEF AlignUp
  <2> QED BY <2>1, <2>2 DEF Padding, Text!Padding
<1>5. CASE size % a # 0
  <2>1. a - (size % a) \in 1 .. a - 1
    BY <1>1, <1>5
  <2>2. (a - (size % a)) % a = a - (size % a)
    BY <1>2, <2>1
  <2>3. AlignUp(size, a) = size + (a - (size % a))
    BY <2>1, <1>5 DEF AlignUp
  <2>4. AlignUp(size, a) - size = a - (size % a)
    BY <2>1, <2>3
  <2> QED BY <2>1, <2>2, <2>3, <2>4 DEF Padding, Text!Padding
<1> QED BY <1>4, <1>5

\* A mark is laid out as nothing, an alignment as its padding.
LEMMA LayoutMark ==
    ASSUME NEW items \in Seq(TextItems), NEW l \in Labels
    PROVE  Text!Layout(items \o <<Text!Mark(l)>>) = Text!Layout(items)
<1>1. Text!Mark(l) \in TextItems /\ items \o <<Text!Mark(l)>> = Append(items, Text!Mark(l))
  BY DEF TextItems
<1> QED BY <1>1, LayoutAppend DEF Text!Place, Text!Mark

\* An alignment mark is laid out as its padding, and the running offset of
\* alignTo moves by as much.
LEMMA LayoutAlign ==
    ASSUME NEW items \in Seq(TextItems), NEW a \in Alignments
    PROVE  /\ Text!Layout(items \o <<Text!AlignMark(a)>>)
                = Text!Layout(items) \o Padding(Len(Text!Layout(items)), a)
           /\ Len(Text!Layout(items \o <<Text!AlignMark(a)>>)) = AlignUp(Len(Text!Layout(items)), a)
<1>1. /\ Text!AlignMark(a) \in TextItems
      /\ items \o <<Text!AlignMark(a)>> = Append(items, Text!AlignMark(a))
  BY DEF TextItems
<1> DEFINE size == Len(Text!Layout(items))
<1>2. Text!Layout(items) \in Seq(Bytes) /\ size \in Nat
  <2>1. Text!Layout(items) \in Seq(Bytes)
    BY <1>1, LayoutAppend
  <2> QED BY <2>1
<1>3. a \in Nat \ {0}
  BY AlignmentsAssumption
<1>4. Text!Layout(items \o <<Text!AlignMark(a)>>) = Text!Layout(items) \o Padding(size, a)
  <2>1. Text!Layout(items \o <<Text!AlignMark(a)>>) = Text!Layout(items) \o Text!Padding(size, a)
    BY <1>1, LayoutAppend DEF Text!Place, Text!AlignMark
  <2> QED BY <2>1, <1>2, <1>3, PaddingAgrees
<1>5. Padding(size, a) \in Seq(Bytes) /\ Len(Padding(size, a)) = AlignUp(size, a) - size
  <2> HIDE DEF size
  <2>1. AlignUp(size, a) - size \in Nat
    <3>1. (a - (size % a)) % a \in Nat /\ AlignUp(size, a) = size + ((a - (size % a)) % a)
      BY <1>2, <1>3, PaddingAgrees
    <3> DEFINE extra == (a - (size % a)) % a
    <3>2. extra \in Nat /\ AlignUp(size, a) = size + extra
      BY <3>1
    <3> HIDE DEF extra
    <3> QED BY <1>2, <3>2
  <2> QED BY <2>1, BytesAssumption DEF Padding
<1>6. AlignUp(size, a) \in Nat
  <2> HIDE DEF size
  <2> QED BY <1>2, <1>3, PaddingAgrees
<1> HIDE DEF size
<1>7. size = Len(Text!Layout(items))
  BY DEF size
<1>8. Len(Text!Layout(items) \o Padding(size, a)) = size + Len(Padding(size, a))
  BY <1>2, <1>5, <1>7
<1>9. Len(Text!Layout(items) \o Padding(size, a)) = AlignUp(size, a)
  BY <1>2, <1>5, <1>6, <1>8
<1> QED BY <1>4, <1>7, <1>9

-----------------------------------------------------------------------------
(* The text of a stream as a fold over its nodes.                          *)

\* What a fold over sequences computes, whatever the operator is that takes
\* the steps.
Steps(s, stepOf) == [k \in 1 .. Len(s) |-> stepOf[s[k]]]
IsFoldOver(F, N, V, base, stepOf) ==
    /\ base \in V /\ stepOf \in [N -> [V -> V]]
    /\ \A s \in Seq(N) : \E p : IsRun(p, Len(s), V, base, Steps(s, stepOf)) /\ F[s] = p[Len(s)]

\* A fold over a sequence is computed one element after the other.
LEMMA Folded ==
    ASSUME NEW F, NEW N, NEW V, NEW base, NEW stepOf, IsFoldOver(F, N, V, base, stepOf)
    PROVE  /\ F[<<>>] = base
           /\ \A s \in Seq(N) : F[s] \in V
           /\ \A s \in Seq(N), n \in N : F[Append(s, n)] = stepOf[n][F[s]]
<1> USE DEF IsFoldOver
<1>1. F[<<>>] = base
  <2>1. <<>> \in Seq(N) /\ Len(<<>>) = 0
    OBVIOUS
  <2>2. PICK p : IsRun(p, 0, V, base, Steps(<<>>, stepOf)) /\ F[<<>>] = p[0]
    BY <2>1
  <2> QED BY <2>2 DEF IsRun
<1>2. ASSUME NEW s \in Seq(N) PROVE F[s] \in V
  <2>1. PICK p : IsRun(p, Len(s), V, base, Steps(s, stepOf)) /\ F[s] = p[Len(s)]
    OBVIOUS
  <2>2. Len(s) \in 0 .. Len(s)
    OBVIOUS
  <2> QED BY <2>1, <2>2 DEF IsRun
<1>3. ASSUME NEW s \in Seq(N), NEW n \in N PROVE F[Append(s, n)] = stepOf[n][F[s]]
  <2> DEFINE longer == Append(s, n)
             size == Len(s)
             few == Steps(s, stepOf)
             more == Steps(longer, stepOf)
  <2>1. /\ size \in Nat /\ longer \in Seq(N) /\ Len(longer) = size + 1
        /\ longer[size + 1] = n /\ \A k \in 1 .. size : longer[k] = s[k]
    OBVIOUS
  <2>2. PICK p : IsRun(p, size, V, base, few) /\ F[s] = p[size]
    OBVIOUS
  <2>3. PICK q : IsRun(q, size + 1, V, base, more) /\ F[longer] = q[size + 1]
    BY <2>1
  <2>4. more[size + 1] = stepOf[n] /\ \A k \in 1 .. size : more[k] = few[k]
    BY <2>1 DEF Steps
  <2> HIDE DEF longer, size, few, more
  <2>5. q[size + 1] = more[size + 1][p[size]]
    BY <2>1, <2>2, <2>3, <2>4, RunAppend
  <2> QED BY <2>2, <2>3, <2>4, <2>5 DEF longer
<1> QED BY <1>1, <1>2, <1>3

\* Whatever takes these steps over the places of s computes that.
TakesStepsOver(g, s, N, V, base, stepOf) ==
    /\ base \in V /\ stepOf \in [N -> [V -> V]] /\ s \in Seq(N)
    /\ g[{}] = base
    /\ \A k \in 1 .. Len(s), v \in V : g[1 .. (k - 1)] = v => g[1 .. k] = stepOf[s[k]][v]

\* Whatever takes the steps of a sequence's elements computes such a run.
LEMMA FoldOverRuns ==
    ASSUME NEW g, NEW s, NEW N, NEW V, NEW base, NEW stepOf, TakesStepsOver(g, s, N, V, base, stepOf)
    PROVE  \E p : IsRun(p, Len(s), V, base, Steps(s, stepOf)) /\ g[1 .. Len(s)] = p[Len(s)]
<1> USE DEF TakesStepsOver
<1>1. Steps(s, stepOf) \in [1 .. Len(s) -> [V -> V]] /\ Len(s) \in Nat
  BY DEF Steps
<1>2. \A k \in 1 .. Len(s), v \in V : g[1 .. (k - 1)] = v => g[1 .. k] = Steps(s, stepOf)[k][v]
  BY DEF Steps
<1>3. TakesSteps(g, Len(s), V, base, Steps(s, stepOf))
  BY <1>1, <1>2 DEF TakesSteps
<1> QED BY <1>3, FoldRuns

\* The steps of a sequence's elements have a fold.
LEMMA StepsFold ==
    ASSUME NEW N, NEW V, NEW base \in V, NEW stepOf \in [N -> [V -> V]], NEW s \in Seq(N)
    PROVE  \E h \in [SUBSET (1 .. Len(s)) -> V] : IsFold(h, Len(s), base, Steps(s, stepOf))
<1>1. Steps(s, stepOf) \in [1 .. Len(s) -> [V -> V]] /\ Len(s) \in Nat
  BY DEF Steps
<1> HIDE DEF Steps
<1> QED BY <1>1, FoldExists

NodesInv ==
    /\ kind \in [Nodes -> Kinds] /\ data \in [Nodes -> Seq(Bytes)]
    /\ alignment \in [Nodes -> Alignments \cup {1}]
    /\ \A n \in Nodes :
           /\ kind[n] = "Align" => alignment[n] \in Alignments
           /\ kind[n] = "Label" => \E l \in Labels : labelNode[l] = n

LabelOf(n) == CHOOSE l \in Labels : labelNode[l] = n

\* What a node of each sort stands for in the text.
LEMMA ItemsAre ==
    ASSUME NodesInv, NEW n \in Nodes
    PROVE  /\ ItemsOf(n) \in Seq(TextItems)
           /\ kind[n] = "Data" => ItemsOf(n) = ByteItems(data[n]) /\ data[n] \in Seq(Bytes)
           /\ kind[n] = "Align" => ItemsOf(n) = <<Text!AlignMark(alignment[n])>> /\ alignment[n] \in Alignments
           /\ kind[n] = "Label" => ItemsOf(n) = <<Text!Mark(LabelOf(n))>> /\ LabelOf(n) \in Labels
<1>0. kind[n] \in Kinds
  BY DEF NodesInv
<1>1. CASE kind[n] = "Data"
  <2>1. data[n] \in Seq(Bytes)
    BY DEF NodesInv
  <2>2. ItemsOf(n) = ByteItems(data[n])
    BY <1>1, <2>1 DEF ItemsOf, ByteItems, Text!Byte
  <2> QED BY <1>1, <2>1, <2>2, ByteItemsType
<1>2. CASE kind[n] = "Align"
  <2>1. alignment[n] \in Alignments
    BY <1>2 DEF NodesInv
  <2>2. ItemsOf(n) = <<Text!AlignMark(alignment[n])>>
    BY <1>2 DEF ItemsOf, Text!AlignMark
  <2>3. Text!AlignMark(alignment[n]) \in TextItems
    BY <2>1 DEF TextItems
  <2> QED BY <1>2, <2>1, <2>2, <2>3
<1>3. CASE kind[n] = "Label"
  <2>1. LabelOf(n) \in Labels
    BY <1>3 DEF NodesInv, LabelOf
  <2>2. ItemsOf(n) = <<Text!Mark(LabelOf(n))>>
    BY <1>3 DEF ItemsOf, Text!Mark, LabelOf
  <2>3. Text!Mark(LabelOf(n)) \in TextItems
    BY <2>1 DEF TextItems
  <2> QED BY <1>3, <2>1, <2>2, <2>3
<1> QED BY <1>0, <1>1, <1>2, <1>3 DEF Kinds

\* The text of a sequence of nodes is a fold over it.
TextFn == [s \in Seq(Nodes) |-> TextOf(s)]
ItemsFn == [n \in Nodes |-> ItemsOf(n)]
TextStep == [n \in Nodes |-> [items \in Seq(TextItems) |-> items \o ItemsOf(n)]]

\* The definition of the text, with the library's folds opened.
LEMMA TextOfIs ==
    ASSUME NEW s
    PROVE  TextOf(s) =
             (CHOOSE g : g = [t \in SUBSET (DOMAIN s) |->
                 IF t = {} THEN <<>> ELSE Collect(g[t \ {Max(t)}], s[Max(t)])])[DOMAIN s]
BY DEF TextOf, FoldLeft, MapThenFoldSet, Max

\* The text of a stream is a fold over its nodes.
LEMMA TextFolds ==
    ASSUME NodesInv
    PROVE  IsFoldOver(TextFn, Nodes, Seq(TextItems), <<>>, TextStep)
<1> DEFINE V == Seq(TextItems)
<1>1. TextStep \in [Nodes -> [V -> V]] /\ <<>> \in V
  <2>1. \A n \in Nodes, v \in V : v \o ItemsOf(n) \in V
    BY ItemsAre
  <2> QED BY <2>1 DEF TextStep
<1>2. \A n \in Nodes, v \in V : TextStep[n][v] = Collect(v, n)
  BY DEF TextStep, Collect
<1>3. ASSUME NEW s \in Seq(Nodes)
      PROVE  \E p : IsRun(p, Len(s), V, <<>>, Steps(s, TextStep)) /\ TextFn[s] = p[Len(s)]
  <2> DEFINE size == Len(s)
             Is(f) == f = [t \in SUBSET (1 .. size) |->
                           IF t = {} THEN <<>> ELSE Collect(f[t \ {Max(t)}], s[Max(t)])]
             g == CHOOSE f : Is(f)
  <2>1. size \in Nat /\ DOMAIN s = 1 .. size /\ \A k \in 1 .. size : s[k] \in Nodes
    OBVIOUS
  <2>2. TextFn[s] = g[1 .. size]
    BY <2>1, TextOfIs DEF TextFn
  <2> HIDE DEF size, V
  <2>3. PICK h \in [SUBSET (1 .. size) -> V] : IsFold(h, size, <<>>, Steps(s, TextStep))
    BY <1>1, StepsFold DEF size
  <2>4. Is(h)
    <3> SUFFICES ASSUME NEW t \in SUBSET (1 .. size)
                 PROVE  h[t] = IF t = {} THEN <<>> ELSE Collect(h[t \ {Max(t)}], s[Max(t)])
      OBVIOUS
    <3>1. t # {} => Max(t) \in 1 .. size /\ t \ {Max(t)} \in SUBSET (1 .. size)
      BY <2>1, MaxOf
    <3>2. t # {} => Steps(s, TextStep)[Max(t)] = TextStep[s[Max(t)]]
      BY <3>1 DEF Steps, size
    <3> QED BY <1>2, <2>1, <2>3, <3>1, <3>2 DEF IsFold
  <2>5. Is(g)
    <3> HIDE DEF Is
    <3> QED BY <2>4
  <2> HIDE DEF g
  <2>6. \A t \in SUBSET (1 .. size) :
            g[t] = IF t = {} THEN <<>> ELSE Collect(g[t \ {Max(t)}], s[Max(t)])
    BY <2>5
  <2>7. g[{}] = <<>>
    BY <2>6
  <2>8. ASSUME NEW k \in 1 .. size, NEW v \in V, g[1 .. (k - 1)] = v
        PROVE  g[1 .. k] = TextStep[s[k]][v]
    <3>1. k \in Nat \ {0} /\ 1 .. k \subseteq 1 .. size /\ k \in 1 .. k
      BY <2>1
    <3>2. g[1 .. k] = Collect(g[1 .. (k - 1)], s[k])
      BY <2>6, <3>1, MaxOfFirst
    <3> QED BY <1>2, <2>1, <2>8, <3>2
  <2> HIDE DEF Is
  <2>9. \A k \in 1 .. size, v \in V : g[1 .. (k - 1)] = v => g[1 .. k] = TextStep[s[k]][v]
    BY <2>8
  <2>10. \E p : IsRun(p, size, V, <<>>, Steps(s, TextStep)) /\ g[1 .. size] = p[size]
    <3>1. TakesStepsOver(g, s, Nodes, V, <<>>, TextStep)
      BY <1>1, <2>7, <2>9 DEF size, TakesStepsOver
    <3> QED BY <3>1, FoldOverRuns DEF size
  <2> QED BY <2>2, <2>10 DEF size
<1> QED BY <1>1, <1>3 DEF IsFoldOver

-----------------------------------------------------------------------------
(* Streams and their texts, part by part.                                  *)

\* A set of node sequences that has the empty one, and with a sequence every
\* one that is a node longer, has them all.
LEMMA NodesInduction ==
    ASSUME NEW T, <<>> \in T, \A s \in Seq(Nodes), n \in Nodes : s \in T => Append(s, n) \in T
    PROVE  Seq(Nodes) \subseteq T
<1> DEFINE U == {k \in Nat : \A s \in Seq(Nodes) : Len(s) = k => s \in T}
<1>1. 0 \in U
  OBVIOUS
<1>2. ASSUME NEW k \in Nat, k \in U PROVE k + 1 \in U
  <2> SUFFICES ASSUME NEW s \in Seq(Nodes), Len(s) = k + 1 PROVE s \in T
    OBVIOUS
  <2>1. s # <<>>
    OBVIOUS
  <2>2. PICK t \in Seq(Nodes), n \in Nodes : s = Append(t, n)
    BY <2>1, SequenceEmptyOrAppend
  <2>3. Len(t) = k
    BY <2>2
  <2> QED BY <1>2, <2>2, <2>3
<1>3. Nat \subseteq U
  <2> HIDE DEF U
  <2> QED BY <1>1, <1>2, Induction
<1> QED BY <1>3

\* F puts the items that I has for each node after each other.
Flattens(F, I) ==
    /\ F \in [Seq(Nodes) -> Seq(TextItems)] /\ I \in [Nodes -> Seq(TextItems)]
    /\ F[<<>>] = <<>>
    /\ \A s \in Seq(Nodes), n \in Nodes : F[Append(s, n)] = F[s] \o I[n]

TextIsFlat == Flattens(TextFn, ItemsFn)

\* The text of a stream is its nodes' items, one node after the other.
LEMMA TextFlattens == NodesInv => TextIsFlat
<1> SUFFICES ASSUME NodesInv PROVE TextIsFlat
  OBVIOUS
<1>1. /\ TextFn[<<>>] = <<>>
      /\ \A s \in Seq(Nodes) : TextFn[s] \in Seq(TextItems)
      /\ \A s \in Seq(Nodes), n \in Nodes : TextFn[Append(s, n)] = TextStep[n][TextFn[s]]
  BY TextFolds, Folded
<1>2. TextFn \in [Seq(Nodes) -> Seq(TextItems)]
  <2>1. TextFn = [s \in Seq(Nodes) |-> TextFn[s]]
    BY DEF TextFn
  <2> QED BY <1>1, <2>1
<1>3. ItemsFn \in [Nodes -> Seq(TextItems)] /\ \A n \in Nodes : ItemsFn[n] = ItemsOf(n)
  BY ItemsAre DEF ItemsFn
<1>4. \A s \in Seq(Nodes), n \in Nodes : TextFn[Append(s, n)] = TextFn[s] \o ItemsFn[n]
  BY <1>1, <1>3 DEF TextStep
<1> QED BY <1>1, <1>2, <1>3, <1>4 DEF TextIsFlat, Flattens

\* The same for nodes.
LEMMA ConcatAppend ==
    ASSUME NEW s \in Seq(Nodes), NEW t \in Seq(Nodes), NEW n \in Nodes
    PROVE  s \o Append(t, n) = Append(s \o t, n)
<1>1. Append(t, n) = t \o <<n>> /\ <<n>> \in Seq(Nodes)
  BY AppendIsConcat
<1>2. s \o t \in Seq(Nodes)
  OBVIOUS
<1>3. Append(s \o t, n) = (s \o t) \o <<n>>
  BY <1>2, AppendIsConcat
<1> QED BY <1>1, <1>3, ConcatAssociative

\* Concatenation of texts is associative.
LEMMA ItemsAssociate ==
    ASSUME NEW a \in Seq(TextItems), NEW b \in Seq(TextItems), NEW c \in Seq(TextItems)
    PROVE  (a \o b) \o c = a \o (b \o c)
BY ConcatAssociative

\* The text of two streams in a row is their texts in a row.
LEMMA FlatConcat ==
    ASSUME NEW F, NEW I, Flattens(F, I), NEW s \in Seq(Nodes), NEW t \in Seq(Nodes)
    PROVE  F[s \o t] = F[s] \o F[t]
<1> DEFINE T == {u \in Seq(Nodes) : F[s \o u] = F[s] \o F[u]}
<1>0. F[s] \in Seq(TextItems)
  BY DEF Flattens
<1>1. <<>> \in T
  <2>1. s \o <<>> = s /\ F[s] \o <<>> = F[s]
    BY <1>0
  <2> QED BY <2>1 DEF Flattens
<1>2. ASSUME NEW u \in Seq(Nodes), NEW n \in Nodes, u \in T PROVE Append(u, n) \in T
  <2>1. s \o Append(u, n) = Append(s \o u, n) /\ s \o u \in Seq(Nodes) /\ Append(u, n) \in Seq(Nodes)
    BY ConcatAppend
  <2>2. F[u] \in Seq(TextItems) /\ I[n] \in Seq(TextItems)
    BY DEF Flattens
  <2>3. F[Append(s \o u, n)] = F[s \o u] \o I[n] /\ F[Append(u, n)] = F[u] \o I[n]
    BY <2>1 DEF Flattens
  <2>4. F[s \o u] = F[s] \o F[u]
    BY <1>2
  <2>5. (F[s] \o F[u]) \o I[n] = F[s] \o (F[u] \o I[n])
    BY <1>0, <2>2, ItemsAssociate
  <2> QED BY <2>1, <2>3, <2>4, <2>5
<1>3. Seq(Nodes) \subseteq T
  <2> HIDE DEF T
  <2> QED BY <1>1, <1>2, NodesInduction
<1> QED BY <1>3

\* One node.
LEMMA FlatOne ==
    ASSUME NEW F, NEW I, Flattens(F, I), NEW n \in Nodes
    PROVE  F[<<n>>] = I[n] /\ <<n>> \in Seq(Nodes)
<1>1. Append(<<>>, n) = <<n>> /\ <<>> \in Seq(Nodes)
  OBVIOUS
<1>2. F[Append(<<>>, n)] = <<>> \o I[n] /\ I[n] \in Seq(TextItems)
  BY <1>1 DEF Flattens
<1> QED BY <1>1, <1>2

\* Streams with the same items have the same text.
LEMMA FlatSame ==
    ASSUME NEW F, NEW I, Flattens(F, I), NEW G, NEW J, Flattens(G, J),
           NEW s \in Seq(Nodes), \A k \in 1 .. Len(s) : I[s[k]] = J[s[k]]
    PROVE  F[s] = G[s]
<1> DEFINE Same(u) == (\A k \in 1 .. Len(u) : I[u[k]] = J[u[k]]) => F[u] = G[u]
           T == {u \in Seq(Nodes) : Same(u)}
<1>1. <<>> \in T
  BY DEF Flattens
<1>2. ASSUME NEW u \in Seq(Nodes), NEW n \in Nodes, u \in T PROVE Append(u, n) \in T
  <2>w. Append(u, n) \in Seq(Nodes)
    OBVIOUS
  <2> SUFFICES ASSUME \A k \in 1 .. Len(Append(u, n)) : I[Append(u, n)[k]] = J[Append(u, n)[k]]
               PROVE  F[Append(u, n)] = G[Append(u, n)]
    BY <2>w
  <2>1. \A k \in 1 .. Len(u) : k \in 1 .. Len(Append(u, n)) /\ Append(u, n)[k] = u[k]
    OBVIOUS
  <2>2. Len(u) + 1 \in 1 .. Len(Append(u, n)) /\ Append(u, n)[Len(u) + 1] = n
    OBVIOUS
  <2>3. F[u] = G[u]
    BY <1>2, <2>1
  <2>4. I[n] = J[n]
    BY <2>2
  <2>5. F[Append(u, n)] = F[u] \o I[n]
    BY DEF Flattens
  <2>6. G[Append(u, n)] = G[u] \o J[n]
    BY DEF Flattens
  <2> QED BY <2>3, <2>4, <2>5, <2>6
<1>3. Seq(Nodes) \subseteq T
  <2> HIDE DEF T
  <2> QED BY <1>1, <1>2, NodesInduction
<1> QED BY <1>3

\* Every item comes from a node.
ComesFrom(F, I, s, j) ==
    \E k \in 1 .. Len(s) : \E m \in 1 .. Len(I[s[k]]) :
        F[s][j] = I[s[k]][m] /\ j = Len(F[SubSeq(s, 1, k - 1)]) + m

\* Every item of the text comes from one node.
LEMMA FlatFrom ==
    ASSUME NEW F, NEW I, Flattens(F, I), NEW s \in Seq(Nodes), NEW j \in 1 .. Len(F[s])
    PROVE  ComesFrom(F, I, s, j)
<1> USE DEF ComesFrom
<1> DEFINE From(u) == \A i \in 1 .. Len(F[u]) : \E k \in 1 .. Len(u) : \E m \in 1 .. Len(I[u[k]]) :
                          F[u][i] = I[u[k]][m] /\ i = Len(F[SubSeq(u, 1, k - 1)]) + m
           T == {u \in Seq(Nodes) : From(u)}
<1>1. <<>> \in T
  BY DEF Flattens
<1>2. ASSUME NEW u \in Seq(Nodes), NEW n \in Nodes, u \in T PROVE Append(u, n) \in T
  <2> PICK w : w = Append(u, n)
    OBVIOUS
  <2>w. w \in Seq(Nodes)
    OBVIOUS
  <2> SUFFICES From(w)
    <3> HIDE DEF From
    <3> QED BY <2>w
  <2> SUFFICES ASSUME NEW i \in 1 .. Len(F[w])
               PROVE  \E k \in 1 .. Len(w) : \E m \in 1 .. Len(I[w[k]]) :
                          F[w][i] = I[w[k]][m] /\ i = Len(F[SubSeq(w, 1, k - 1)]) + m
    OBVIOUS
  <2>0. From(u)
    <3> HIDE DEF From
    <3> QED BY <1>2
  <2>1. F[w] = F[u] \o I[n] /\ F[u] \in Seq(TextItems) /\ I[n] \in Seq(TextItems)
    BY DEF Flattens
  <2>a. PICK x, y \in Nat : x = Len(F[u]) /\ y = Len(I[n]) /\ Len(F[w]) = x + y
    <3>1. Len(F[w]) = Len(F[u]) + Len(I[n]) /\ Len(F[u]) \in Nat /\ Len(I[n]) \in Nat
      BY <2>1
    <3> QED BY <3>1
  <2>b. i \in 1 .. (x + y)
    BY <2>a
  <2>2. /\ Len(w) = Len(u) + 1 /\ w[Len(u) + 1] = n /\ Len(u) \in Nat
        /\ SubSeq(w, 1, Len(u)) = u
    OBVIOUS
  <2>3. \A k \in 1 .. Len(u) : w[k] = u[k] /\ SubSeq(w, 1, k - 1) = SubSeq(u, 1, k - 1)
    OBVIOUS
  <2>4. CASE i <= x
    <3>1. F[w][i] = F[u][i] /\ i \in 1 .. Len(F[u])
      BY <2>1, <2>4, <2>a
    <3>2. PICK k \in 1 .. Len(u) : \E m \in 1 .. Len(I[u[k]]) :
              F[u][i] = I[u[k]][m] /\ i = Len(F[SubSeq(u, 1, k - 1)]) + m
      BY <2>0, <3>1
    <3>3. k \in 1 .. Len(w)
      BY <2>2
    <3> QED BY <2>3, <3>1, <3>2, <3>3
  <2>5. CASE i > x
    <3> DEFINE m == i - x
    <3>2. m \in 1 .. y /\ i = x + m
      <4>1. x \in Nat /\ y \in Nat /\ i \in 1 .. (x + y) /\ i > x
        BY <2>5, <2>a, <2>b
      <4> QED BY <4>1
    <3>3. F[w][i] = I[n][m]
      BY <2>1, <2>5, <2>a, <3>2
    <3>4. Len(u) + 1 \in 1 .. Len(w) /\ (Len(u) + 1) - 1 = Len(u)
      BY <2>2
    <3> HIDE DEF m
    <3> QED BY <2>2, <2>a, <3>2, <3>3, <3>4
  <2>c. i <= x \/ i > x
    BY <2>a, <2>b
  <2> QED BY <2>c, <2>4, <2>5
<1>3. Seq(Nodes) \subseteq T
  <2> HIDE DEF T
  <2> QED BY <1>1, <1>2, NodesInduction
<1> QED BY <1>3

-----------------------------------------------------------------------------
(* The chain of the links.                                                 *)

\* The order that the links give to the nodes: every node once, from the head
\* to the tail.
IsChain(c) ==
    /\ count \in Nodes
    /\ c \in [1 .. count -> 1 .. count]
    /\ \A i, j \in 1 .. count : c[i] = c[j] => i = j
    /\ \A n \in 1 .. count : \E k \in 1 .. count : c[k] = n
    /\ c[1] = head /\ c[count] = tail
    /\ \A k \in 1 .. count - 1 : next[c[k]] = c[k + 1]
    /\ next[c[count]] = Null
    /\ \A n \in Nodes : n > count => next[n] = Null

\* A chain is a sequence of nodes.
LEMMA ChainType ==
    ASSUME NEW c, IsChain(c)
    PROVE  /\ c \in Seq(Nodes) /\ Len(c) = count /\ count \in Nat \ {0} /\ count <= MaxNodes
           /\ 1 .. count \subseteq Nodes
           /\ \A k \in 1 .. count : c[k] \in Nodes /\ c[k] # Null /\ c[k] \in 1 .. count
<1>1. count \in Nat \ {0} /\ count <= MaxNodes
  BY NodesAssumption DEF IsChain, Nodes
<1>2. 1 .. count \subseteq Nodes
  BY <1>1, NodesAssumption DEF Nodes
<1>3. c \in [1 .. count -> Nodes]
  BY <1>2 DEF IsChain
<1>4. c \in Seq(Nodes) /\ Len(c) = count
  BY <1>1, <1>3
<1>5. \A k \in 1 .. count : c[k] \in Nodes /\ c[k] # Null /\ c[k] \in 1 .. count
  <2>1. \A k \in 1 .. count : c[k] \in 1 .. count
    BY DEF IsChain
  <2>2. \A n \in 1 .. count : n # 0
    BY <1>1
  <2> QED BY <1>2, <2>1, <2>2 DEF Null
<1> QED BY <1>1, <1>2, <1>4, <1>5

\* The loops over m_next meet the nodes in that order.
LEMMA ChainFollowsLinks ==
    ASSUME NEW c, IsChain(c)
    PROVE  Chain = c
<1> DEFINE Is(f) == f = [n \in 0 .. MaxNodes |-> IF n = Null THEN <<>> ELSE <<n>> \o f[next[n]]]
           g == CHOOSE f : Is(f)
           rest(k) == SubSeq(c, k, count)
<1>1. Chain = g[head]
  BY DEF Chain
<1>2. /\ c \in Seq(Nodes) /\ Len(c) = count /\ count \in Nat \ {0} /\ count <= MaxNodes
      /\ \A k \in 1 .. count : c[k] \in 0 .. MaxNodes /\ c[k] # Null /\ c[k] \in 1 .. count
  <2>1. Nodes \subseteq 0 .. MaxNodes
    BY NodesAssumption DEF Nodes
  <2> QED BY <2>1, ChainType
<1>3. \A k \in 1 .. count : rest(k) = <<c[k]>> \o rest(k + 1)
  <2> SUFFICES ASSUME NEW k \in 1 .. count PROVE SubSeq(c, k, count) = <<c[k]>> \o SubSeq(c, k + 1, count)
    OBVIOUS
  <2>1. count \in k .. Len(c) /\ k \in 1 .. Len(c)
    BY <1>2
  <2> QED BY <1>2, <2>1, SubSeqRecursiveFirst
<1>4. rest(count + 1) = <<>>
  BY <1>2
<1> DEFINE place == [n \in 1 .. count |-> CHOOSE k \in 1 .. count : c[k] = n]
           h == [n \in 0 .. MaxNodes |-> IF n = Null THEN <<>>
                                         ELSE IF n <= count THEN rest(place[n]) ELSE <<n>>]
<1>5. \A k \in 1 .. count : place[c[k]] = k /\ h[c[k]] = rest(k)
  <2> HIDE DEF rest
  <2>1. \A k \in 1 .. count : place[c[k]] = k
    BY <1>2 DEF IsChain
  <2>2. \A k \in 1 .. count : c[k] \in 0 .. MaxNodes /\ c[k] <= count
    BY <1>2
  <2> HIDE DEF place
  <2> QED BY <1>2, <2>1, <2>2
<1>6. h[Null] = <<>>
  BY <1>2, NodesAssumption DEF Null
<1>7. Is(h)
  <2> SUFFICES ASSUME NEW n \in 0 .. MaxNodes
               PROVE  h[n] = IF n = Null THEN <<>> ELSE <<n>> \o h[next[n]]
    <3> HIDE DEF rest, place
    <3> QED OBVIOUS
  <2> HIDE DEF rest, place
  <2>1. CASE n = Null
    BY <2>1, <1>6
  <2>2. CASE n # Null /\ n > count
    <3>1. next[n] = Null
      BY <1>2, <2>2, NodesAssumption DEF IsChain, Nodes, Null
    <3>2. h[n] = <<n>> /\ <<n>> \o <<>> = <<n>>
      BY <1>2, <2>2
    <3> QED BY <3>1, <3>2, <1>6, <2>2
  <2>3. CASE n # Null /\ n <= count
    <3>1. PICK k \in 1 .. count : c[k] = n
      BY <1>2, <2>3, NodesAssumption DEF IsChain, Null
    <3>2. h[n] = <<n>> \o rest(k + 1)
      BY <1>3, <1>5, <3>1
    <3>3. CASE k = count
      <4>1. next[n] = Null /\ rest(k + 1) = <<>>
        BY <1>4, <3>1, <3>3 DEF IsChain
      <4> QED BY <1>6, <2>3, <3>2, <4>1
    <3>4. CASE k # count
      <4>1. k \in 1 .. count - 1 /\ k + 1 \in 1 .. count
        BY <1>2, <3>4
      <4>2. next[n] = c[k + 1]
        BY <3>1, <4>1 DEF IsChain
      <4>3. h[next[n]] = rest(k + 1)
        BY <1>5, <4>1, <4>2
      <4> QED BY <2>3, <3>2, <4>3
    <3> QED BY <3>3, <3>4
  <2> QED BY <2>1, <2>2, <2>3, <1>2
<1>8. Is(g)
  <2> HIDE DEF Is, h
  <2> QED BY <1>7
<1> HIDE DEF g, h
<1>9. \A n \in 0 .. MaxNodes : g[n] = IF n = Null THEN <<>> ELSE <<n>> \o g[next[n]]
  <2> HIDE DEF rest
  <2> QED BY <1>8
<1> DEFINE T == {d \in Nat : d < count => g[c[count - d]] = rest(count - d)}
<1> HIDE DEF rest
<1>10. 0 \in T
  <2>1. count \in 1 .. count /\ count - 0 = count
    BY <1>2
  <2>2. c[count] \in 0 .. MaxNodes /\ c[count] # Null /\ next[c[count]] = Null
    BY <1>2, <2>1 DEF IsChain
  <2>3. g[c[count]] = <<c[count]>> \o g[Null] /\ g[Null] = <<>>
    <3>1. Null \in 0 .. MaxNodes
      BY NodesAssumption DEF Null
    <3> QED BY <1>9, <2>2, <3>1
  <2>4. g[c[count]] = rest(count)
    BY <1>3, <1>4, <2>1, <2>3
  <2> QED BY <2>1, <2>4
<1>11. ASSUME NEW d \in Nat, d \in T PROVE d + 1 \in T
  <2> SUFFICES ASSUME d + 1 < count PROVE g[c[count - (d + 1)]] = rest(count - (d + 1))
    OBVIOUS
  <2> DEFINE k == count - (d + 1)
  <2>1. k \in 1 .. count - 1 /\ k \in 1 .. count /\ k + 1 = count - d /\ d < count
    BY <1>2
  <2>2. g[c[k + 1]] = rest(k + 1)
    BY <1>11, <2>1
  <2> HIDE DEF k
  <2>3. c[k] \in 0 .. MaxNodes /\ c[k] # Null /\ next[c[k]] = c[k + 1]
    BY <1>2, <2>1 DEF IsChain
  <2>4. g[c[k]] = <<c[k]>> \o g[c[k + 1]]
    BY <1>9, <2>3
  <2>5. g[c[k]] = rest(k)
    BY <1>3, <2>1, <2>2, <2>4
  <2> QED BY <2>5 DEF k
<1>12. count - 1 \in T
  <2> HIDE DEF T
  <2>1. count - 1 \in Nat
    BY <1>2
  <2> QED BY <1>10, <1>11, <2>1, Induction
<1>13. g[c[1]] = rest(1)
  <2>1. count - 1 \in Nat /\ count - 1 < count /\ count - (count - 1) = 1
    BY <1>2
  <2> QED BY <1>12, <2>1
<1>14. rest(1) = c
  BY <1>2 DEF rest
<1> QED BY <1>1, <1>13, <1>14 DEF IsChain

\* A prefix of it leads to each node.
LEMMA ChainPrefix ==
    ASSUME NEW c, IsChain(c), NEW k \in 1 .. count
    PROVE  ChainUpTo(c[k]) = SubSeq(c, 1, k)
<1> DEFINE places == {i \in 1 .. Len(c) : c[i] = c[k]}
<1>1. Chain = c /\ Len(c) = count /\ count \in Nat
  BY ChainFollowsLinks, ChainType
<1>2. places = {k}
  <2>1. \A i \in 1 .. count : c[i] = c[k] => i = k
    BY DEF IsChain
  <2> QED BY <1>1, <2>1
<1>3. Min(places) = k
  BY <1>1, <1>2 DEF Min
<1>4. SelectInSeq(c, LAMBDA n : n = c[k]) = k
  BY <1>2, <1>3 DEF SelectInSeq
<1> QED BY <1>1, <1>4 DEF ChainUpTo

-----------------------------------------------------------------------------
(* What is before the cursor and behind it.                                *)

\* The nodes up to the k-th, those before it and those behind it.
UpTo(c, k) == SubSeq(c, 1, k)
Before(c, k) == SubSeq(c, 1, k - 1)
After(c, k) == SubSeq(c, k + 1, Len(c))

TextNow == TextOf(Chain)
Written == TextOf(ChainUpTo(cursor))

ReadsText ==
    \A c : IsChain(c) =>
        /\ TextNow = TextFn[c]
        /\ \A k \in 1 .. count : cursor = c[k] => Written = TextFn[UpTo(c, k)]

\* The text and what is written of it, read along a chain.
LEMMA TextIsRead == ReadsText
<1> SUFFICES ASSUME NEW c, IsChain(c)
             PROVE  /\ TextNow = TextFn[c]
                    /\ \A k \in 1 .. count : cursor = c[k] => Written = TextFn[UpTo(c, k)]
  BY DEF ReadsText
<1>1. c \in Seq(Nodes) /\ Len(c) = count /\ Chain = c
  BY ChainType, ChainFollowsLinks
<1>2. TextNow = TextFn[c]
  BY <1>1 DEF TextNow, TextFn
<1>3. ASSUME NEW k \in 1 .. count, cursor = c[k] PROVE Written = TextFn[UpTo(c, k)]
  <2>1. ChainUpTo(cursor) = UpTo(c, k)
    BY <1>3, ChainPrefix DEF UpTo
  <2>2. UpTo(c, k) \in Seq(Nodes)
    BY <1>1 DEF UpTo
  <2> QED BY <2>1, <2>2 DEF Written, TextFn, UpTo
<1> QED BY <1>2, <1>3

\* A stream falls apart into what is up to a node and what is behind it.
LEMMA NodesSplit ==
    ASSUME NEW c \in Seq(Nodes), NEW k \in 1 .. Len(c)
    PROVE  /\ UpTo(c, k) \in Seq(Nodes) /\ After(c, k) \in Seq(Nodes)
           /\ c = UpTo(c, k) \o After(c, k)
           /\ Before(c, k) \in Seq(Nodes)
           /\ UpTo(c, k) = Before(c, k) \o <<c[k]>>
           /\ Len(UpTo(c, k)) = k /\ Len(After(c, k)) = Len(c) - k
           /\ Len(Before(c, k)) = k - 1
           /\ \A i \in 1 .. k : UpTo(c, k)[i] = c[i]
           /\ \A i \in 1 .. k - 1 : Before(c, k)[i] = c[i]
           /\ \A i \in 1 .. Len(c) - k : After(c, k)[i] = c[k + i]
<1> USE DEF UpTo, Before
<1>1. UpTo(c, k) \o SubSeq(c, k + 1, Len(c)) = SubSeq(c, 1, Len(c))
  BY ConcatAdjacentSubSeq
<1>2. SubSeq(c, 1, Len(c)) = c
  OBVIOUS
<1>3. UpTo(c, k) = Before(c, k) \o <<c[k]>>
  BY SubSeqRecursiveSecond
<1>4. /\ UpTo(c, k) \in Seq(Nodes) /\ Len(UpTo(c, k)) = k
      /\ \A i \in 1 .. k : UpTo(c, k)[i] = c[i]
  OBVIOUS
<1>5. /\ Before(c, k) \in Seq(Nodes) /\ Len(Before(c, k)) = k - 1
      /\ \A i \in 1 .. k - 1 : Before(c, k)[i] = c[i]
  OBVIOUS
<1>6. /\ After(c, k) \in Seq(Nodes) /\ Len(After(c, k)) = Len(c) - k
      /\ \A i \in 1 .. Len(c) - k : After(c, k)[i] = c[k + i]
  BY DEF After
<1>7. c = UpTo(c, k) \o After(c, k)
  BY <1>1, <1>2 DEF After
<1> QED BY <1>3, <1>4, <1>5, <1>6, <1>7

\* The two parts of a text are its first and its last items.
LEMMA ItemsSplit ==
    ASSUME NEW a \in Seq(TextItems), NEW b \in Seq(TextItems)
    PROVE  /\ a \o b \in Seq(TextItems)
           /\ SubSeq(a \o b, 1, Len(a)) = a
           /\ SubSeq(a \o b, Len(a) + 1, Len(a \o b)) = b
<1>1. /\ a \o b \in Seq(TextItems) /\ Len(a \o b) = Len(a) + Len(b)
      /\ Len(a) \in Nat /\ Len(b) \in Nat
      /\ \A i \in 1 .. Len(a) : (a \o b)[i] = a[i]
      /\ \A i \in 1 .. Len(b) : (a \o b)[Len(a) + i] = b[i]
  OBVIOUS
<1>2. SubSeq(a \o b, 1, Len(a)) = a
  OBVIOUS
<1>3. SubSeq(a \o b, Len(a) + 1, Len(a \o b)) = b
  OBVIOUS
<1> QED BY <1>1, <1>2, <1>3

\* A sequence of nodes is the text of its beginning before that of its end.
IsSplit(F, I, c, k) ==
    /\ F[c] = F[UpTo(c, k)] \o F[After(c, k)]
    /\ F[UpTo(c, k)] = F[Before(c, k)] \o I[c[k]]
    /\ F[UpTo(c, k)] \in Seq(TextItems) /\ F[After(c, k)] \in Seq(TextItems)
    /\ F[Before(c, k)] \in Seq(TextItems) /\ I[c[k]] \in Seq(TextItems)

\* The text falls apart where its stream does.
LEMMA FlatSplit ==
    ASSUME NEW F, NEW I, Flattens(F, I), NEW c \in Seq(Nodes), NEW k \in 1 .. Len(c)
    PROVE  IsSplit(F, I, c, k)
<1>1. /\ UpTo(c, k) \in Seq(Nodes) /\ After(c, k) \in Seq(Nodes)
      /\ c = UpTo(c, k) \o After(c, k)
      /\ Before(c, k) \in Seq(Nodes)
      /\ UpTo(c, k) = Before(c, k) \o <<c[k]>>
      /\ c[k] \in Nodes
  <2>1. c[k] \in Nodes
    OBVIOUS
  <2> QED BY <2>1, NodesSplit
<1>2. F[c] = F[UpTo(c, k)] \o F[After(c, k)]
  BY <1>1, FlatConcat
<1>3. F[<<c[k]>>] = I[c[k]] /\ <<c[k]>> \in Seq(Nodes)
  BY <1>1, FlatOne
<1>4. F[UpTo(c, k)] = F[Before(c, k)] \o I[c[k]]
  <2>1. F[Before(c, k) \o <<c[k]>>] = F[Before(c, k)] \o F[<<c[k]>>]
    BY <1>1, <1>3, FlatConcat
  <2> QED BY <1>1, <1>3, <2>1
<1> QED BY <1>1, <1>2, <1>4 DEF Flattens, IsSplit

\* What a new node behind the k-th of c adds.
Insertion(c, k, n) == (UpTo(c, k) \o <<n>>) \o After(c, k)

\* A stream with one more node in it.
LEMMA InsertedAre ==
    ASSUME NEW c \in Seq(Nodes), NEW k \in 1 .. Len(c), NEW n \in Nodes
    PROVE  /\ Insertion(c, k, n) \in Seq(Nodes) /\ Len(Insertion(c, k, n)) = Len(c) + 1
           /\ \A i \in 1 .. k : Insertion(c, k, n)[i] = c[i]
           /\ Insertion(c, k, n)[k + 1] = n
           /\ \A i \in k + 1 .. Len(c) : Insertion(c, k, n)[i + 1] = c[i]
           /\ UpTo(Insertion(c, k, n), k + 1) = UpTo(c, k) \o <<n>>
           /\ After(Insertion(c, k, n), k + 1) = After(c, k)
<1> DEFINE a == UpTo(c, k) \o <<n>>
           b == After(c, k)
           d == a \o b
<1>1. /\ a \in Seq(Nodes) /\ b \in Seq(Nodes) /\ Len(a) = k + 1 /\ Len(b) = Len(c) - k
      /\ \A i \in 1 .. k : a[i] = c[i]
      /\ a[k + 1] = n
      /\ \A i \in 1 .. Len(c) - k : b[i] = c[k + i]
  <2>1. /\ UpTo(c, k) \in Seq(Nodes) /\ Len(UpTo(c, k)) = k
        /\ \A i \in 1 .. k : UpTo(c, k)[i] = c[i]
    BY NodesSplit
  <2>2. b \in Seq(Nodes) /\ Len(b) = Len(c) - k /\ \A i \in 1 .. Len(c) - k : b[i] = c[k + i]
    BY NodesSplit
  <2> DEFINE e == UpTo(c, k)
  <2> HIDE DEF b, e
  <2>3. /\ e \o <<n>> \in Seq(Nodes) /\ Len(e \o <<n>>) = k + 1
        /\ \A i \in 1 .. k : (e \o <<n>>)[i] = c[i]
        /\ (e \o <<n>>)[k + 1] = n
    <3>1. e \in Seq(Nodes) /\ Len(e) = k /\ \A i \in 1 .. k : e[i] = c[i]
      BY <2>1 DEF e
    <3>2. <<n>> \in Seq(Nodes) /\ Len(<<n>>) = 1 /\ <<n>>[1] = n /\ k \in Nat
      OBVIOUS
    <3>3. /\ e \o <<n>> \in Seq(Nodes) /\ Len(e \o <<n>>) = Len(e) + Len(<<n>>)
          /\ \A i \in 1 .. Len(e) + Len(<<n>>) :
                 (e \o <<n>>)[i] = IF i <= Len(e) THEN e[i] ELSE <<n>>[i - Len(e)]
      BY <3>1, <3>2, ConcatProperties
    <3> QED BY <3>1, <3>2, <3>3
  <2> QED BY <2>2, <2>3 DEF e
<1> HIDE DEF a, b
<1>2. Len(c) \in Nat /\ k \in Nat /\ k <= Len(c) /\ Len(d) = Len(c) + 1 /\ d \in Seq(Nodes)
  <2>1. Len(c) \in Nat /\ k \in Nat /\ k <= Len(c)
    OBVIOUS
  <2>2. Len(d) = (k + 1) + (Len(c) - k) /\ d \in Seq(Nodes)
    <3>1. Len(a \o b) = Len(a) + Len(b) /\ a \o b \in Seq(Nodes)
      BY <1>1, ConcatProperties
    <3> QED BY <1>1, <3>1
  <2> QED BY <2>1, <2>2
<1>3. \A i \in 1 .. k : d[i] = c[i]
  BY <1>1, <1>2
<1>4. d[k + 1] = n
  BY <1>1, <1>2
<1>5. ASSUME NEW i \in k + 1 .. Len(c) PROVE d[i + 1] = c[i]
  <2>1. i - k \in 1 .. Len(c) - k /\ i + 1 = (k + 1) + (i - k) /\ k + (i - k) = i
    BY <1>2
  <2>2. d[(k + 1) + (i - k)] = b[i - k]
    BY <1>1, <1>2, <2>1
  <2> QED BY <1>1, <2>1, <2>2
<1>6. SubSeq(d, 1, k + 1) = a
  BY <1>1, <1>2
<1>7. SubSeq(d, (k + 1) + 1, Len(d)) = b
  BY <1>1, <1>2
<1> QED BY <1>2, <1>3, <1>4, <1>5, <1>6, <1>7 DEF a, b, Insertion, After, UpTo

-----------------------------------------------------------------------------
(* A node goes into the chain.                                             *)

\* A node behind the cursor is the next one of the chain.
LEMMA ChainInserted ==
    ASSUME NEW c, IsChain(c), NEW k \in 1 .. count, cursor = c[k], InsertNodeAfter(cursor),
           next \in [Nodes -> 0 .. MaxNodes],
           NEW d, d = Insertion(c, k, count')
    PROVE  /\ IsChain(d)'
           /\ count' = count + 1 /\ count' \in Nodes
           /\ k + 1 \in 1 .. count' /\ cursor' = d[k + 1]
<1>1. /\ c \in Seq(Nodes) /\ Len(c) = count /\ count \in Nat \ {0}
      /\ 1 .. count \subseteq Nodes
      /\ \A i \in 1 .. count : c[i] \in 1 .. count /\ c[i] # Null /\ c[i] \in Nodes
  BY ChainType
<1>2. count' = count + 1 /\ count' \in Nodes /\ count < MaxNodes
  BY <1>1, NodesAssumption DEF InsertNodeAfter, Nodes
<1>3. /\ d \in Seq(Nodes) /\ Len(d) = count + 1
      /\ \A i \in 1 .. k : d[i] = c[i]
      /\ d[k + 1] = count'
      /\ \A i \in k + 1 .. count : d[i + 1] = c[i]
  <2>1. k \in 1 .. Len(c) /\ count' \in Nodes /\ c \in Seq(Nodes)
    BY <1>1, <1>2
  <2>2. /\ d \in Seq(Nodes) /\ Len(d) = Len(c) + 1
        /\ \A i \in 1 .. k : d[i] = c[i]
        /\ d[k + 1] = count'
        /\ \A i \in k + 1 .. Len(c) : d[i + 1] = c[i]
    BY <2>1, InsertedAre
  <2> QED BY <1>1, <2>2
<1>4. \A i \in 1 .. count' : \/ i \in 1 .. k
                             \/ i = k + 1
                             \/ i - 1 \in k + 1 .. count /\ (i - 1) + 1 = i
  BY <1>1, <1>2
<1>5. \A i \in 1 .. k : i \in 1 .. count
  BY <1>1
<1>6. d \in [1 .. count' -> 1 .. count']
  <2>1. \A i \in 1 .. count' : d[i] \in 1 .. count'
    <3> SUFFICES ASSUME NEW i \in 1 .. count' PROVE d[i] \in 1 .. count'
      OBVIOUS
    <3>1. \A x \in 1 .. count : x \in 1 .. count'
      BY <1>1, <1>2
    <3>2. CASE i \in 1 .. k
      BY <1>1, <1>3, <1>5, <3>1, <3>2
    <3>3. CASE i = k + 1
      <4>1. d[i] = count'
        BY <1>3, <3>3
      <4>2. count' \in 1 .. count'
        BY <1>1, <1>2
      <4> QED BY <4>1, <4>2
    <3>4. CASE i - 1 \in k + 1 .. count /\ (i - 1) + 1 = i
      <4>1. d[(i - 1) + 1] = c[i - 1] /\ i - 1 \in 1 .. count
        BY <1>1, <1>3, <3>4
      <4> QED BY <1>1, <3>1, <3>4, <4>1
    <3> QED BY <1>4, <3>2, <3>3, <3>4
  <2>2. DOMAIN d = 1 .. count'
    BY <1>2, <1>3
  <2>3. d = [i \in 1 .. count' |-> d[i]]
    <3>1. d \in [1 .. Len(d) -> Nodes]
      BY <1>3, LenProperties
    <3> QED BY <2>2, <3>1, <1>2, <1>3
  <2> QED BY <2>1, <2>3
<1>7. ASSUME NEW i \in 1 .. count', NEW j \in 1 .. count', d[i] = d[j] PROVE i = j
  <2>1. \A x \in 1 .. count : x # count'
    BY <1>1, <1>2
  <2>2. \A x, y \in 1 .. count : c[x] = c[y] => x = y
    BY DEF IsChain
  <2>3. i \in Int /\ j \in Int /\ k \in Int
    BY <1>1, <1>2
  <2>4. CASE i <= k
    <3>0. i \in 1 .. k /\ i \in 1 .. count
      BY <1>1, <2>3, <2>4
    <3>1. d[i] = c[i] /\ i \in 1 .. count
      BY <1>3, <3>0
    <3>2. CASE j <= k
      <4>1. j \in 1 .. k /\ j \in 1 .. count
        BY <1>1, <2>3, <3>2
      <4> QED BY <1>3, <1>7, <2>2, <3>1, <4>1
    <3>3. CASE j = k + 1
      BY <1>1, <1>3, <1>7, <2>1, <3>1, <3>3
    <3>4. CASE j > k + 1
      <4>1. j - 1 \in k + 1 .. count /\ (j - 1) + 1 = j /\ j - 1 \in 1 .. count
        BY <1>1, <1>2, <2>3, <3>4
      <4>2. d[j] = c[j - 1]
        BY <1>3, <4>1
      <4>3. i = j - 1
        BY <1>7, <2>2, <3>1, <4>1, <4>2
      <4> QED BY <2>3, <2>4, <3>4, <4>3
    <3> QED BY <2>3, <3>2, <3>3, <3>4
  <2>5. CASE i = k + 1
    <3>1. d[i] = count'
      BY <1>3, <2>5
    <3>2. CASE j <= k
      <4>1. j \in 1 .. k /\ j \in 1 .. count
        BY <1>1, <2>3, <3>2
      <4> QED BY <1>1, <1>3, <1>7, <2>1, <3>1, <4>1
    <3>3. CASE j = k + 1
      BY <2>5, <3>3
    <3>4. CASE j > k + 1
      <4>1. j - 1 \in k + 1 .. count /\ (j - 1) + 1 = j /\ j - 1 \in 1 .. count
        BY <1>1, <1>2, <2>3, <3>4
      <4>2. d[j] = c[j - 1] /\ c[j - 1] \in 1 .. count
        BY <1>1, <1>3, <4>1
      <4> QED BY <1>7, <2>1, <3>1, <4>2
    <3> QED BY <2>3, <3>2, <3>3, <3>4
  <2>6. CASE i > k + 1
    <3>1. i - 1 \in k + 1 .. count /\ (i - 1) + 1 = i /\ i - 1 \in 1 .. count
      BY <1>1, <1>2, <2>3, <2>6
    <3>2. d[i] = c[i - 1] /\ c[i - 1] \in 1 .. count
      BY <1>1, <1>3, <3>1
    <3>3. CASE j <= k
      <4>0. j \in 1 .. k /\ j \in 1 .. count
        BY <1>1, <2>3, <3>3
      <4>1. d[j] = c[j] /\ j \in 1 .. count
        BY <1>3, <4>0
      <4>2. i - 1 = j
        BY <1>7, <2>2, <3>1, <3>2, <4>1
      <4> QED BY <2>3, <2>6, <3>3, <4>2
    <3>4. CASE j = k + 1
      BY <1>3, <1>7, <2>1, <3>2, <3>4
    <3>5. CASE j > k + 1
      <4>1. j - 1 \in k + 1 .. count /\ (j - 1) + 1 = j /\ j - 1 \in 1 .. count
        BY <1>1, <1>2, <2>3, <3>5
      <4>2. d[j] = c[j - 1]
        BY <1>3, <4>1
      <4>3. i - 1 = j - 1
        BY <1>7, <2>2, <3>1, <3>2, <4>1, <4>2
      <4> QED BY <2>3, <4>3
    <3> QED BY <2>3, <3>3, <3>4, <3>5
  <2> QED BY <2>3, <2>4, <2>5, <2>6
<1>8. ASSUME NEW n \in 1 .. count' PROVE \E i \in 1 .. count' : d[i] = n
  <2>1. CASE n = count'
    <3>1. k + 1 \in 1 .. count'
      BY <1>1, <1>2
    <3> QED BY <1>3, <2>1, <3>1
  <2>2. CASE n # count'
    <3>1. n \in 1 .. count
      BY <1>1, <1>2, <2>2
    <3>2. PICK i \in 1 .. count : c[i] = n
      BY <3>1 DEF IsChain
    <3>3. CASE i <= k
      <4>1. i \in 1 .. k /\ i \in 1 .. count'
        BY <1>1, <1>2, <3>3
      <4> QED BY <1>3, <3>2, <4>1
    <3>4. CASE i > k
      <4>1. i \in k + 1 .. count /\ i + 1 \in 1 .. count'
        BY <1>1, <1>2, <3>4
      <4> QED BY <1>3, <3>2, <4>1
    <3>5. i <= k \/ i > k
      BY <1>1
    <3> QED BY <3>3, <3>4, <3>5
  <2> QED BY <2>1, <2>2
<1>9. \A n \in Nodes : next'[n] = IF n = cursor THEN count' ELSE IF n = count' THEN next[cursor] ELSE next[n]
  <2>1. next' = [next EXCEPT ![count'] = next[cursor], ![cursor] = count']
    BY DEF InsertNodeAfter
  <2>2. cursor \in Nodes /\ cursor # count'
    BY <1>1, <1>2
  <2> QED BY <1>2, <2>1, <2>2
<1>10. ASSUME NEW i \in 1 .. count' - 1 PROVE next'[d[i]] = d[i + 1]
  <2>0. i \in Int /\ k \in Int /\ i \in 1 .. count
    BY <1>1, <1>2
  <2>1. \A x \in 1 .. count : c[x] = c[k] => x = k
    BY DEF IsChain
  <2>2. \A x \in 1 .. count : x # count'
    BY <1>1, <1>2
  <2>3. \A x \in 1 .. count - 1 : next[c[x]] = c[x + 1]
    BY DEF IsChain
  <2>4. CASE i < k
    <3>1. i \in 1 .. k /\ i + 1 \in 1 .. k /\ i \in 1 .. count - 1
      BY <1>1, <2>0, <2>4
    <3>2. d[i] = c[i] /\ d[i + 1] = c[i + 1] /\ c[i] # cursor /\ c[i] # count' /\ c[i] \in Nodes
      <4>1. i \in 1 .. count /\ i # k
        BY <1>1, <2>0, <2>4
      <4> QED BY <1>1, <1>3, <2>1, <2>2, <3>1, <4>1
    <3> QED BY <1>9, <2>3, <3>1, <3>2
  <2>5. CASE i = k
    <3>1. d[i] = cursor /\ cursor \in Nodes
      BY <1>1, <1>3, <2>5
    <3> QED BY <1>3, <1>9, <2>5, <3>1
  <2>6. CASE i = k + 1
    <3>1. d[i] = count' /\ count' # cursor
      BY <1>1, <1>3, <2>2, <2>6
    <3>2. next'[d[i]] = next[c[k]]
      BY <1>2, <1>9, <3>1
    <3>3. k \in 1 .. count - 1 /\ k + 1 \in k + 1 .. count
      BY <1>1, <1>2, <2>0, <2>6
    <3>4. d[i + 1] = c[k + 1]
      BY <1>3, <2>6, <3>3
    <3> QED BY <2>3, <3>2, <3>3, <3>4
  <2>7. CASE i > k + 1
    <3> DEFINE j == i - 1
    <3>1. /\ j \in k + 1 .. count /\ j + 1 = i /\ j \in 1 .. count - 1 /\ j # k
          /\ i \in k + 1 .. count /\ j \in 1 .. count
      BY <1>1, <1>2, <2>0, <2>7
    <3>2. d[i] = c[j] /\ d[i + 1] = c[i]
      <4> HIDE DEF j
      <4> QED BY <1>3, <3>1
    <3>3. c[j] # cursor /\ c[j] # count' /\ c[j] \in Nodes
      <4> HIDE DEF j
      <4> QED BY <1>1, <2>1, <2>2, <3>1
    <3>4. next[c[j]] = c[j + 1]
      <4> HIDE DEF j
      <4> QED BY <2>3, <3>1
    <3> HIDE DEF j
    <3> QED BY <1>9, <3>1, <3>2, <3>3, <3>4
  <2> QED BY <2>0, <2>4, <2>5, <2>6, <2>7
<1>11. d[1] = head'
  <2>1. 1 \in 1 .. k
    BY <1>1
  <2> QED BY <1>3, <2>1 DEF IsChain, InsertNodeAfter
<1>12. d[count'] = tail' /\ next'[d[count']] = Null
  <2>1. CASE k = count
    <3>1. d[count'] = count' /\ next[cursor] = Null /\ count' # cursor
      BY <1>1, <1>2, <1>3, <2>1 DEF IsChain
    <3>2. next'[count'] = Null
      BY <1>2, <1>9, <3>1
    <3>3. tail' = count'
      BY <3>1 DEF InsertNodeAfter
    <3> QED BY <3>1, <3>2, <3>3
  <2>2. CASE k # count
    <3>1. count \in k + 1 .. count /\ k \in 1 .. count - 1 /\ k + 1 \in 1 .. count /\ count \in 1 .. count
      BY <1>1, <2>2
    <3>2. d[count'] = c[count]
      BY <1>2, <1>3, <3>1
    <3>3. next[cursor] # Null
      <4>1. next[c[k]] = c[k + 1]
        BY <3>1 DEF IsChain
      <4> QED BY <1>1, <3>1, <4>1
    <3>4. tail' = tail /\ tail = c[count]
      BY <3>3 DEF InsertNodeAfter, IsChain
    <3>5. c[count] # cursor /\ c[count] # count' /\ c[count] \in Nodes
      BY <1>1, <1>2, <2>2, <3>1 DEF IsChain
    <3>6. next'[c[count]] = next[c[count]]
      BY <1>9, <3>5
    <3> QED BY <3>2, <3>4, <3>6 DEF IsChain
  <2> QED BY <2>1, <2>2
<1>13. ASSUME NEW n \in Nodes, n > count' PROVE next'[n] = Null
  <2>1. n \in Int /\ count \in Int /\ cursor \in 1 .. count
    BY <1>1, NodesAssumption DEF Nodes
  <2>2. n # cursor /\ n # count' /\ n > count
    BY <1>1, <1>2, <1>13, <2>1
  <2>3. next'[n] = next[n]
    BY <1>9, <2>2
  <2> QED BY <2>2, <2>3 DEF IsChain
<1>14. IsChain(d)'
  BY <1>2, <1>6, <1>7, <1>8, <1>10, <1>11, <1>12, <1>13 DEF IsChain
<1>15. cursor' = d[k + 1] /\ k + 1 \in 1 .. count'
  BY <1>1, <1>2, <1>3 DEF InsertNodeAfter
<1> QED BY <1>2, <1>14, <1>15

-----------------------------------------------------------------------------
(* A run goes into the text.                                               *)

\* The text gets a run at the position of the cursor.
Writes(run) ==
    /\ Written \in Seq(TextItems) /\ run \in Seq(TextItems)
    /\ Written' = Written \o run
    /\ \E rest \in Seq(TextItems) : TextNow = Written \o rest /\ TextNow' = Written' \o rest

\* The same after a step.
LEMMA TextIsReadNext == ReadsText'
BY TextIsRead, PTL

\* The same after a step.
LEMMA FlatNext == NodesInv' => TextIsFlat'
BY TextFlattens, PTL

\* Where the items agree the texts of the parts of a stream do.
LEMMA FlatAgrees ==
    ASSUME NEW F, NEW I, Flattens(F, I), NEW G, NEW J, Flattens(G, J),
           NEW c \in Seq(Nodes), NEW k \in 1 .. Len(c)
    PROVE  /\ (\A i \in 1 .. k : I[c[i]] = J[c[i]]) => F[UpTo(c, k)] = G[UpTo(c, k)]
           /\ (\A i \in 1 .. k - 1 : I[c[i]] = J[c[i]]) => F[Before(c, k)] = G[Before(c, k)]
           /\ (\A i \in k + 1 .. Len(c) : I[c[i]] = J[c[i]]) => F[After(c, k)] = G[After(c, k)]
<1>1. /\ UpTo(c, k) \in Seq(Nodes) /\ After(c, k) \in Seq(Nodes)
      /\ Len(UpTo(c, k)) = k /\ Len(After(c, k)) = Len(c) - k
      /\ Before(c, k) \in Seq(Nodes) /\ Len(Before(c, k)) = k - 1
      /\ \A i \in 1 .. k : UpTo(c, k)[i] = c[i]
      /\ \A i \in 1 .. k - 1 : Before(c, k)[i] = c[i]
      /\ \A i \in 1 .. Len(c) - k : After(c, k)[i] = c[k + i]
  BY NodesSplit
<1>2. ASSUME \A i \in 1 .. k : I[c[i]] = J[c[i]] PROVE F[UpTo(c, k)] = G[UpTo(c, k)]
  <2> PICK a : a = UpTo(c, k)
    OBVIOUS
  <2>1. a \in Seq(Nodes) /\ \A i \in 1 .. Len(a) : I[a[i]] = J[a[i]]
    BY <1>1, <1>2
  <2>2. F[a] = G[a]
    BY ONLY Flattens(F, I), Flattens(G, J), <2>1, FlatSame
  <2> QED BY <2>2
<1>3. ASSUME \A i \in 1 .. k - 1 : I[c[i]] = J[c[i]] PROVE F[Before(c, k)] = G[Before(c, k)]
  <2> PICK a : a = Before(c, k)
    OBVIOUS
  <2>1. a \in Seq(Nodes) /\ \A i \in 1 .. Len(a) : I[a[i]] = J[a[i]]
    BY <1>1, <1>3
  <2>2. F[a] = G[a]
    BY ONLY Flattens(F, I), Flattens(G, J), <2>1, FlatSame
  <2> QED BY <2>2
<1>4. ASSUME \A i \in k + 1 .. Len(c) : I[c[i]] = J[c[i]] PROVE F[After(c, k)] = G[After(c, k)]
  <2> PICK a : a = After(c, k)
    OBVIOUS
  <2>1. ASSUME NEW i \in 1 .. Len(a) PROVE I[a[i]] = J[a[i]]
    <3>0. Len(c) \in Nat /\ k \in 1 .. Len(c) /\ i \in 1 .. Len(c) - k
      BY <1>1
    <3>1. a[i] = c[k + i]
      BY <1>1, <3>0
    <3>2. k + i \in k + 1 .. Len(c)
      BY ONLY <3>0
    <3> QED BY <1>4, <3>1, <3>2
  <2>2. a \in Seq(Nodes)
    BY <1>1
  <2>3. F[a] = G[a]
    BY ONLY Flattens(F, I), Flattens(G, J), <2>1, <2>2, FlatSame
  <2> QED BY <2>3
<1> QED BY <1>2, <1>3, <1>4

\* What F and G have when a node goes in behind the k-th of c.
Inserts(F, I, G, J, c, k, new, d) ==
    /\ Flattens(F, I) /\ Flattens(G, J)
    /\ c \in Seq(Nodes) /\ k \in 1 .. Len(c) /\ new \in Nodes /\ d = Insertion(c, k, new)
    /\ \A i \in 1 .. Len(c) : I[c[i]] = J[c[i]]

\* The items of a new node go in behind what is up to the old one.
LEMMA FlatInserted ==
    ASSUME NEW F, NEW I, NEW G, NEW J, NEW c, NEW k, NEW new, NEW d,
           Inserts(F, I, G, J, c, k, new, d)
    PROVE  /\ G[UpTo(d, k + 1)] = F[UpTo(c, k)] \o J[new]
           /\ G[d] = G[UpTo(d, k + 1)] \o F[After(c, k)]
           /\ J[new] \in Seq(TextItems)
<1> USE DEF Inserts
<1> PICK a : a = UpTo(c, k)
  OBVIOUS
<1> PICK b : b = After(c, k)
  OBVIOUS
<1>0. Flattens(G, J)
  OBVIOUS
<1>1. a \in Seq(Nodes) /\ b \in Seq(Nodes)
  BY NodesSplit
<1>2. d = (a \o <<new>>) \o b /\ UpTo(d, k + 1) = a \o <<new>>
  BY InsertedAre DEF Insertion
<1>3. F[a] = G[a] /\ F[b] = G[b]
  BY FlatAgrees
<1>4. G[<<new>>] = J[new] /\ <<new>> \in Seq(Nodes) /\ J[new] \in Seq(TextItems)
  <2>1. Flattens(G, J) /\ new \in Nodes
    OBVIOUS
  <2>2. J[new] \in Seq(TextItems)
    BY <2>1 DEF Flattens
  <2> QED BY ONLY <2>1, <2>2, FlatOne
<1>5. G[a \o <<new>>] = G[a] \o G[<<new>>] /\ a \o <<new>> \in Seq(Nodes)
  <2>1. a \o <<new>> \in Seq(Nodes)
    BY <1>1, <1>4, ConcatProperties
  <2> QED BY ONLY <1>0, <1>1, <1>4, <2>1, FlatConcat
<1>6. G[(a \o <<new>>) \o b] = G[a \o <<new>>] \o G[b]
  BY ONLY <1>0, <1>1, <1>5, FlatConcat
<1> QED BY <1>2, <1>3, <1>4, <1>5, <1>6

\* What F and G have when the k-th node of c gets longer.
Extends(F, I, G, J, c, k, run) ==
    /\ Flattens(F, I) /\ Flattens(G, J)
    /\ c \in Seq(Nodes) /\ k \in 1 .. Len(c) /\ run \in Seq(TextItems)
    /\ J[c[k]] = I[c[k]] \o run
    /\ \A i \in 1 .. Len(c) : i # k => I[c[i]] = J[c[i]]
IsExtended(F, G, c, k, run) ==
    /\ G[UpTo(c, k)] = F[UpTo(c, k)] \o run
    /\ G[c] = G[UpTo(c, k)] \o F[After(c, k)]

\* More items at the end of a node go in behind what is up to it.
LEMMA FlatExtended ==
    ASSUME NEW F, NEW I, NEW G, NEW J, NEW c, NEW k, NEW run, Extends(F, I, G, J, c, k, run)
    PROVE  IsExtended(F, G, c, k, run)
<1> USE DEF Extends
<1>0. Flattens(F, I) /\ Flattens(G, J) /\ c \in Seq(Nodes) /\ k \in 1 .. Len(c)
  OBVIOUS
<1>1. /\ F[UpTo(c, k)] = F[Before(c, k)] \o I[c[k]]
      /\ F[Before(c, k)] \in Seq(TextItems) /\ I[c[k]] \in Seq(TextItems)
  <2>1. IsSplit(F, I, c, k)
    BY ONLY <1>0, FlatSplit
  <2> QED BY <2>1 DEF IsSplit
<1>2. /\ G[c] = G[UpTo(c, k)] \o G[After(c, k)]
      /\ G[UpTo(c, k)] = G[Before(c, k)] \o J[c[k]]
  <2>1. IsSplit(G, J, c, k)
    BY ONLY <1>0, FlatSplit
  <2> QED BY <2>1 DEF IsSplit
<1>3. \A i \in 1 .. k - 1 : I[c[i]] = J[c[i]]
  OBVIOUS
<1>4. \A i \in k + 1 .. Len(c) : I[c[i]] = J[c[i]]
  OBVIOUS
<1>5. G[Before(c, k)] = F[Before(c, k)] /\ G[After(c, k)] = F[After(c, k)]
  BY <1>3, <1>4, FlatAgrees
<1> PICK x, y : x = F[Before(c, k)] /\ y = I[c[k]]
  OBVIOUS
<1>6. (x \o y) \o run = x \o (y \o run)
  BY <1>1, ItemsAssociate
<1> QED BY <1>1, <1>2, <1>5, <1>6 DEF IsExtended

\* A new node writes the items it holds.
LEMMA NodeWrites ==
    ASSUME NodesInv, NodesInv', NEW c, IsChain(c), NEW k \in 1 .. count, cursor = c[k],
           next \in [Nodes -> 0 .. MaxNodes], InsertNodeAfter(cursor),
           \A n \in 1 .. count : ItemsFn'[n] = ItemsFn[n]
    PROVE  Writes(ItemsFn'[count'])
<1> PICK new : new = count'
  OBVIOUS
<1> PICK d : d = Insertion(c, k, new)
  OBVIOUS
<1>1. /\ IsChain(d)' /\ count' = count + 1 /\ new \in Nodes
      /\ k + 1 \in 1 .. count' /\ cursor' = d[k + 1]
  BY ChainInserted
<1>2. /\ c \in Seq(Nodes) /\ Len(c) = count /\ k \in 1 .. Len(c)
      /\ \A i \in 1 .. count : c[i] \in 1 .. count
  BY ChainType
<1>3. Flattens(TextFn, ItemsFn) /\ Flattens(TextFn', ItemsFn')
  BY TextFlattens, FlatNext DEF TextIsFlat
<1>5. TextNow = TextFn[c] /\ Written = TextFn[UpTo(c, k)]
  BY TextIsRead DEF ReadsText
<1>6. TextNow' = TextFn'[d] /\ Written' = TextFn'[UpTo(d, k + 1)]
  BY TextIsReadNext, <1>1 DEF ReadsText
<1>7. /\ TextFn[c] = TextFn[UpTo(c, k)] \o TextFn[After(c, k)]
      /\ TextFn[UpTo(c, k)] \in Seq(TextItems) /\ TextFn[After(c, k)] \in Seq(TextItems)
  <2>1. IsSplit(TextFn, ItemsFn, c, k)
    BY ONLY <1>2, <1>3, FlatSplit
  <2> QED BY <2>1 DEF IsSplit
<1>8. \A i \in 1 .. Len(c) : ItemsFn[c[i]] = ItemsFn'[c[i]]
  BY <1>2
<1>9. /\ TextFn'[UpTo(d, k + 1)] = TextFn[UpTo(c, k)] \o ItemsFn'[new]
      /\ TextFn'[d] = TextFn'[UpTo(d, k + 1)] \o TextFn[After(c, k)]
      /\ ItemsFn'[new] \in Seq(TextItems)
  <2>1. Inserts(TextFn, ItemsFn, TextFn', ItemsFn', c, k, new, d)
    BY <1>1, <1>2, <1>3, <1>8 DEF Inserts
  <2> QED BY ONLY <2>1, FlatInserted
<1>10. TextNow' = Written' \o TextFn[After(c, k)] /\ TextNow = Written \o TextFn[After(c, k)]
  BY <1>5, <1>6, <1>7, <1>9
<1> QED BY <1>5, <1>6, <1>7, <1>9, <1>10 DEF Writes

\* Bytes at the end of the node at the cursor are written there.
LEMMA NodeExtended ==
    ASSUME NodesInv, NodesInv', NEW c, IsChain(c), IsChain(c)', NEW k \in 1 .. count,
           cursor = c[k], cursor' = cursor, count' = count,
           NEW run \in Seq(TextItems), ItemsFn'[cursor] = ItemsFn[cursor] \o run,
           \A n \in 1 .. count : n # cursor => ItemsFn'[n] = ItemsFn[n]
    PROVE  Writes(run)
<1>2. /\ c \in Seq(Nodes) /\ Len(c) = count /\ k \in 1 .. Len(c)
      /\ \A i \in 1 .. count : c[i] \in 1 .. count
  BY ChainType
<1>3. Flattens(TextFn, ItemsFn) /\ Flattens(TextFn', ItemsFn')
  BY TextFlattens, FlatNext DEF TextIsFlat
<1>5. TextNow = TextFn[c] /\ Written = TextFn[UpTo(c, k)]
  BY TextIsRead DEF ReadsText
<1>6. TextNow' = TextFn'[c] /\ Written' = TextFn'[UpTo(c, k)]
  BY TextIsReadNext DEF ReadsText
<1>7. /\ TextFn[c] = TextFn[UpTo(c, k)] \o TextFn[After(c, k)]
      /\ TextFn[UpTo(c, k)] \in Seq(TextItems) /\ TextFn[After(c, k)] \in Seq(TextItems)
  <2>1. IsSplit(TextFn, ItemsFn, c, k)
    BY ONLY <1>2, <1>3, FlatSplit
  <2> QED BY <2>1 DEF IsSplit
<1>8. \A i \in 1 .. Len(c) : i # k => ItemsFn[c[i]] = ItemsFn'[c[i]]
  <2>1. \A i \in 1 .. count : c[i] = c[k] => i = k
    BY DEF IsChain
  <2> QED BY <1>2, <2>1
<1>9. ItemsFn'[c[k]] = ItemsFn[c[k]] \o run
  OBVIOUS
<1>10. /\ TextFn'[UpTo(c, k)] = TextFn[UpTo(c, k)] \o run
       /\ TextFn'[c] = TextFn'[UpTo(c, k)] \o TextFn[After(c, k)]
  <2>1. Extends(TextFn, ItemsFn, TextFn', ItemsFn', c, k, run)
    BY <1>2, <1>3, <1>8, <1>9 DEF Extends
  <2>2. IsExtended(TextFn, TextFn', c, k, run)
    BY ONLY <2>1, FlatExtended
  <2> QED BY <2>2 DEF IsExtended
<1>11. TextNow' = Written' \o TextFn[After(c, k)] /\ TextNow = Written \o TextFn[After(c, k)]
  BY <1>5, <1>6, <1>7, <1>10
<1> QED BY <1>5, <1>6, <1>7, <1>10, <1>11 DEF Writes

-----------------------------------------------------------------------------
(* A replay measures the text.                                             *)

\* What a node adds to the image.
LEMMA LaidNode ==
    ASSUME NodesInv, NEW items \in Seq(TextItems), NEW n \in Nodes
    PROVE  /\ Text!Layout(items) \in Seq(Bytes)
           /\ kind[n] = "Data" => Text!Layout(items \o ItemsOf(n)) = Text!Layout(items) \o data[n]
           /\ kind[n] = "Align" => Text!Layout(items \o ItemsOf(n))
                  = Text!Layout(items) \o Padding(Len(Text!Layout(items)), alignment[n])
           /\ kind[n] = "Label" => Text!Layout(items \o ItemsOf(n)) = Text!Layout(items)
           /\ Len(Text!Layout(items \o ItemsOf(n))) = Advance(Len(Text!Layout(items)), n)
<1>0. Text!Layout(items) \in Seq(Bytes)
  <2>1. Text!Byte(PadByte) \in TextItems
    BY BytesAssumption DEF TextItems
  <2> QED BY <2>1, LayoutAppend
<1>1. kind[n] \in Kinds
  BY DEF NodesInv
<1>2. CASE kind[n] = "Data"
  <2>1. ItemsOf(n) = ByteItems(data[n]) /\ data[n] \in Seq(Bytes)
    BY <1>2, ItemsAre
  <2>2. Text!Layout(items \o ItemsOf(n)) = Text!Layout(items) \o data[n]
    BY <2>1, LayoutBytes
  <2>3. Len(Text!Layout(items) \o data[n]) = Len(Text!Layout(items)) + Len(data[n])
    BY <1>0, <2>1
  <2> QED BY <1>0, <1>2, <2>2, <2>3 DEF Advance
<1>3. CASE kind[n] = "Align"
  <2>1. ItemsOf(n) = <<Text!AlignMark(alignment[n])>> /\ alignment[n] \in Alignments
    BY <1>3, ItemsAre
  <2> QED BY <1>0, <1>3, <2>1, LayoutAlign DEF Advance
<1>4. CASE kind[n] = "Label"
  <2>1. ItemsOf(n) = <<Text!Mark(LabelOf(n))>> /\ LabelOf(n) \in Labels
    BY <1>4, ItemsAre
  <2>2. Text!Layout(items \o ItemsOf(n)) = Text!Layout(items)
    BY <2>1, LayoutMark
  <2> QED BY <1>0, <1>4, <2>2 DEF Advance
<1> QED BY <1>1, <1>2, <1>3, <1>4 DEF Kinds

\* computeOffsetTo replays the layout.
ReplayFn == [s \in Seq(Nodes) |-> FoldLeft(Advance, 0, s)]
ReplayStep == [n \in Nodes |-> [offset \in Nat |-> Advance(offset, n)]]

\* The definition of the replay, with the library's folds opened.
LEMMA ReplayIs ==
    ASSUME NEW s
    PROVE  FoldLeft(Advance, 0, s) =
             (CHOOSE g : g = [t \in SUBSET (DOMAIN s) |->
                 IF t = {} THEN 0 ELSE Advance(g[t \ {Max(t)}], s[Max(t)])])[DOMAIN s]
BY DEF FoldLeft, MapThenFoldSet, Max

\* A replayed node leaves an offset.
LEMMA AdvanceType ==
    ASSUME NodesInv, NEW n \in Nodes, NEW offset \in Nat
    PROVE  Advance(offset, n) \in Nat
<1>1. kind[n] \in Kinds /\ data[n] \in Seq(Bytes)
  BY DEF NodesInv
<1>2. Len(data[n]) \in Nat
  BY <1>1
<1>3. CASE kind[n] = "Align"
  <2>1. alignment[n] \in Nat \ {0}
    BY <1>3, AlignmentsAssumption DEF NodesInv
  <2> QED BY <1>3, <2>1, PaddingAgrees DEF Advance
<1>4. CASE kind[n] = "Data"
  BY <1>2, <1>4 DEF Advance
<1>5. CASE kind[n] = "Label"
  BY <1>5 DEF Advance
<1> QED BY <1>1, <1>3, <1>4, <1>5 DEF Kinds

\* The replay is a fold over the nodes.
LEMMA ReplayFolds ==
    ASSUME NodesInv
    PROVE  IsFoldOver(ReplayFn, Nodes, Nat, 0, ReplayStep)
<1>1. ReplayStep \in [Nodes -> [Nat -> Nat]]
  BY AdvanceType DEF ReplayStep
<1>2. \A n \in Nodes, v \in Nat : ReplayStep[n][v] = Advance(v, n)
  BY DEF ReplayStep
<1>3. ASSUME NEW s \in Seq(Nodes)
      PROVE  \E p : IsRun(p, Len(s), Nat, 0, Steps(s, ReplayStep)) /\ ReplayFn[s] = p[Len(s)]
  <2> DEFINE size == Len(s)
             Is(f) == f = [t \in SUBSET (1 .. size) |->
                           IF t = {} THEN 0 ELSE Advance(f[t \ {Max(t)}], s[Max(t)])]
             g == CHOOSE f : Is(f)
  <2>1. size \in Nat /\ DOMAIN s = 1 .. size /\ \A k \in 1 .. size : s[k] \in Nodes
    OBVIOUS
  <2>2. ReplayFn[s] = g[1 .. size]
    BY <2>1, ReplayIs DEF ReplayFn
  <2> HIDE DEF size
  <2>3. PICK h \in [SUBSET (1 .. size) -> Nat] : IsFold(h, size, 0, Steps(s, ReplayStep))
    BY <1>1, StepsFold DEF size
  <2>4. Is(h)
    <3> SUFFICES ASSUME NEW t \in SUBSET (1 .. size)
                 PROVE  h[t] = IF t = {} THEN 0 ELSE Advance(h[t \ {Max(t)}], s[Max(t)])
      OBVIOUS
    <3>1. t # {} => Max(t) \in 1 .. size /\ t \ {Max(t)} \in SUBSET (1 .. size)
      BY <2>1, MaxOf
    <3>2. t # {} => Steps(s, ReplayStep)[Max(t)] = ReplayStep[s[Max(t)]]
      BY <3>1 DEF Steps, size
    <3> QED BY <1>2, <2>1, <2>3, <3>1, <3>2 DEF IsFold
  <2>5. Is(g)
    <3> HIDE DEF Is
    <3> QED BY <2>4
  <2> HIDE DEF g
  <2>6. \A t \in SUBSET (1 .. size) :
            g[t] = IF t = {} THEN 0 ELSE Advance(g[t \ {Max(t)}], s[Max(t)])
    BY <2>5
  <2>7. g[{}] = 0
    BY <2>6
  <2>8. ASSUME NEW k \in 1 .. size, NEW v \in Nat, g[1 .. (k - 1)] = v
        PROVE  g[1 .. k] = ReplayStep[s[k]][v]
    <3>1. k \in Nat \ {0} /\ 1 .. k \subseteq 1 .. size /\ k \in 1 .. k
      BY <2>1
    <3>2. g[1 .. k] = Advance(g[1 .. (k - 1)], s[k])
      BY <2>6, <3>1, MaxOfFirst
    <3> QED BY <1>2, <2>1, <2>8, <3>2
  <2> HIDE DEF Is
  <2>9. \A k \in 1 .. size, v \in Nat : g[1 .. (k - 1)] = v => g[1 .. k] = ReplayStep[s[k]][v]
    BY <2>8
  <2>10. \E p : IsRun(p, size, Nat, 0, Steps(s, ReplayStep)) /\ g[1 .. size] = p[size]
    <3>1. TakesStepsOver(g, s, Nodes, Nat, 0, ReplayStep)
      BY <1>1, <2>7, <2>9 DEF size, TakesStepsOver
    <3> QED BY <3>1, FoldOverRuns DEF size
  <2> QED BY <2>2, <2>10 DEF size
<1> QED BY <1>1, <1>3 DEF IsFoldOver

\* What computeOffsetTo replays is the size of what is laid out.
LEMMA ReplayIsSize ==
    ASSUME NodesInv, NEW s \in Seq(Nodes)
    PROVE  FoldLeft(Advance, 0, s) = Len(Text!Layout(TextFn[s]))
<1> DEFINE T == {t \in Seq(Nodes) : ReplayFn[t] = Len(Text!Layout(TextFn[t]))}
<1>0. /\ ReplayFn[<<>>] = 0
      /\ \A t \in Seq(Nodes), n \in Nodes : ReplayFn[Append(t, n)] = ReplayStep[n][ReplayFn[t]]
  BY ReplayFolds, Folded
<1>1. <<>> \in T
  <2>1. TextFn[<<>>] = <<>>
    BY TextFlattens DEF TextIsFlat, Flattens
  <2>2. Len(<<>>) = 0 /\ <<>> \in Seq(Nodes)
    OBVIOUS
  <2> QED BY <1>0, <2>1, <2>2, LayoutEmpty
<1>2. ASSUME NEW t \in Seq(Nodes), NEW n \in Nodes, t \in T PROVE Append(t, n) \in T
  <2>1. /\ TextFn[t] \in Seq(TextItems) /\ TextFn[Append(t, n)] = TextFn[t] \o ItemsFn[n]
        /\ ItemsFn[n] = ItemsOf(n)
    BY TextFlattens DEF TextIsFlat, Flattens, ItemsFn
  <2>2. ReplayFn[Append(t, n)] = ReplayStep[n][ReplayFn[t]]
    BY <1>0
  <2>3. ReplayFn[t] = Len(Text!Layout(TextFn[t])) /\ ReplayFn[t] \in Nat
    <3>1. ReplayFn[t] \in Nat
      BY ReplayFolds, Folded
    <3> QED BY <1>2, <3>1
  <2>4. ReplayStep[n][ReplayFn[t]] = Advance(ReplayFn[t], n)
    BY <2>3 DEF ReplayStep
  <2>5. Len(Text!Layout(TextFn[t] \o ItemsOf(n))) = Advance(Len(Text!Layout(TextFn[t])), n)
    BY <2>1, LaidNode
  <2>6. ReplayFn[Append(t, n)] = Len(Text!Layout(TextFn[Append(t, n)]))
    BY <2>1, <2>2, <2>3, <2>4, <2>5
  <2>7. Append(t, n) \in Seq(Nodes)
    OBVIOUS
  <2> QED BY <2>6, <2>7
<1>3. Seq(Nodes) \subseteq T
  <2> HIDE DEF T
  <2> QED BY <1>1, <1>2, NodesInduction
<1>4. s \in T
  <2> HIDE DEF T
  <2> QED BY <1>3
<1> QED BY <1>4 DEF ReplayFn

-----------------------------------------------------------------------------
(* finalize lays the text out.                                             *)

\* finalize lays the nodes out and notes the addresses of the labels.
Flats == [bytes : Seq(Bytes), offset : [Nodes -> Nat]]
FlatBase == [bytes |-> <<>>, offset |-> calculatedOffset]
LaidFn == [s \in Seq(Nodes) |-> FoldLeft(Flatten, FlatBase, s)]
FlattenStep == [n \in Nodes |-> [flat \in Flats |-> Flatten(flat, n)]]

\* The definition of the flattening, with the library's folds opened.
LEMMA FlattenIs ==
    ASSUME NEW s
    PROVE  FoldLeft(Flatten, FlatBase, s) =
             (CHOOSE g : g = [t \in SUBSET (DOMAIN s) |->
                 IF t = {} THEN FlatBase ELSE Flatten(g[t \ {Max(t)}], s[Max(t)])])[DOMAIN s]
BY DEF FoldLeft, MapThenFoldSet, Max

\* A flattened node leaves bytes and offsets.
LEMMA FlattenType ==
    ASSUME NodesInv, NEW n \in Nodes, NEW flat \in Flats
    PROVE  Flatten(flat, n) \in Flats
<1>1. kind[n] \in Kinds /\ data[n] \in Seq(Bytes)
  BY DEF NodesInv
<1>2. flat.bytes \in Seq(Bytes) /\ flat.offset \in [Nodes -> Nat] /\ Len(flat.bytes) \in Nat
  <2>1. flat.bytes \in Seq(Bytes) /\ flat.offset \in [Nodes -> Nat]
    BY DEF Flats
  <2> QED BY <2>1
<1>3. CASE kind[n] = "Align"
  <2> PICK size : size = Len(flat.bytes)
    OBVIOUS
  <2>1. alignment[n] \in Nat \ {0} /\ size \in Nat
    BY <1>2, <1>3, AlignmentsAssumption DEF NodesInv
  <2>2. Padding(size, alignment[n]) = Text!Padding(size, alignment[n])
        /\ (alignment[n] - (size % alignment[n])) % alignment[n] \in Nat
    BY <2>1, PaddingAgrees
  <2>3. Padding(size, alignment[n]) \in Seq(Bytes)
    BY <2>2, BytesAssumption DEF Text!Padding
  <2>4. flat.bytes \o Padding(size, alignment[n]) \in Seq(Bytes)
    BY <1>2, <2>3
  <2>5. Flatten(flat, n) = [flat EXCEPT !.bytes = @ \o Padding(size, alignment[n])]
    BY <1>3 DEF Flatten
  <2> QED BY <2>4, <2>5 DEF Flats
<1>4. CASE kind[n] = "Data"
  <2>1. Flatten(flat, n) = [flat EXCEPT !.bytes = @ \o data[n]]
    BY <1>4 DEF Flatten
  <2>2. flat.bytes \o data[n] \in Seq(Bytes)
    BY <1>1, <1>2
  <2> QED BY <2>1, <2>2 DEF Flats
<1>5. CASE kind[n] = "Label"
  <2>1. Flatten(flat, n) = [flat EXCEPT !.offset[n] = Len(flat.bytes)]
    BY <1>5 DEF Flatten
  <2>2. [flat.offset EXCEPT ![n] = Len(flat.bytes)] \in [Nodes -> Nat]
    BY <1>2
  <2> QED BY <2>1, <2>2 DEF Flats
<1> QED BY <1>1, <1>3, <1>4, <1>5 DEF Kinds

\* The flattening is a fold over the nodes.
LEMMA FlattenFolds ==
    ASSUME NodesInv, calculatedOffset \in [Nodes -> Nat]
    PROVE  IsFoldOver(LaidFn, Nodes, Flats, FlatBase, FlattenStep)
<1>0. FlatBase \in Flats
  BY DEF FlatBase, Flats
<1>1. FlattenStep \in [Nodes -> [Flats -> Flats]]
  BY FlattenType DEF FlattenStep
<1>2. \A n \in Nodes, v \in Flats : FlattenStep[n][v] = Flatten(v, n)
  BY DEF FlattenStep
<1>3. ASSUME NEW s \in Seq(Nodes)
      PROVE  \E p : IsRun(p, Len(s), Flats, FlatBase, Steps(s, FlattenStep)) /\ LaidFn[s] = p[Len(s)]
  <2> DEFINE size == Len(s)
             Is(f) == f = [t \in SUBSET (1 .. size) |->
                           IF t = {} THEN FlatBase ELSE Flatten(f[t \ {Max(t)}], s[Max(t)])]
             g == CHOOSE f : Is(f)
  <2>1. size \in Nat /\ DOMAIN s = 1 .. size /\ \A k \in 1 .. size : s[k] \in Nodes
    OBVIOUS
  <2>2. LaidFn[s] = g[1 .. size]
    BY <2>1, FlattenIs DEF LaidFn
  <2> HIDE DEF size
  <2>3. PICK h \in [SUBSET (1 .. size) -> Flats] : IsFold(h, size, FlatBase, Steps(s, FlattenStep))
    BY <1>0, <1>1, StepsFold DEF size
  <2>4. Is(h)
    <3> SUFFICES ASSUME NEW t \in SUBSET (1 .. size)
                 PROVE  h[t] = IF t = {} THEN FlatBase ELSE Flatten(h[t \ {Max(t)}], s[Max(t)])
      OBVIOUS
    <3>1. t # {} => Max(t) \in 1 .. size /\ t \ {Max(t)} \in SUBSET (1 .. size)
      BY <2>1, MaxOf
    <3>2. t # {} => Steps(s, FlattenStep)[Max(t)] = FlattenStep[s[Max(t)]]
      BY <3>1 DEF Steps, size
    <3> QED BY <1>2, <2>1, <2>3, <3>1, <3>2 DEF IsFold
  <2>5. Is(g)
    <3> HIDE DEF Is
    <3> QED BY <2>4
  <2> HIDE DEF g
  <2>6. \A t \in SUBSET (1 .. size) :
            g[t] = IF t = {} THEN FlatBase ELSE Flatten(g[t \ {Max(t)}], s[Max(t)])
    BY <2>5
  <2>7. g[{}] = FlatBase
    BY <2>6
  <2>8. ASSUME NEW k \in 1 .. size, NEW v \in Flats, g[1 .. (k - 1)] = v
        PROVE  g[1 .. k] = FlattenStep[s[k]][v]
    <3>1. k \in Nat \ {0} /\ 1 .. k \subseteq 1 .. size /\ k \in 1 .. k
      BY <2>1
    <3>2. g[1 .. k] = Flatten(g[1 .. (k - 1)], s[k])
      BY <2>6, <3>1, MaxOfFirst
    <3> QED BY <1>2, <2>1, <2>8, <3>2
  <2> HIDE DEF Is
  <2>9. \A k \in 1 .. size, v \in Flats : g[1 .. (k - 1)] = v => g[1 .. k] = FlattenStep[s[k]][v]
    BY <2>8
  <2>10. \E p : IsRun(p, size, Flats, FlatBase, Steps(s, FlattenStep)) /\ g[1 .. size] = p[size]
    <3>1. TakesStepsOver(g, s, Nodes, Flats, FlatBase, FlattenStep)
      BY <1>0, <1>1, <2>7, <2>9 DEF size, TakesStepsOver
    <3> QED BY <3>1, FoldOverRuns DEF size
  <2> QED BY <2>2, <2>10 DEF size
<1> QED BY <1>0, <1>1, <1>3 DEF IsFoldOver

\* The bytes are the layout of the text, and a label that occurs once has the
\* size of what is before it.
Lays(s) ==
    /\ LaidFn[s].bytes = Text!Layout(TextFn[s])
    /\ \A n \in Nodes : kind[n] # "Label" \/ (\A k \in 1 .. Len(s) : s[k] # n)
           => LaidFn[s].offset[n] = calculatedOffset[n]
    /\ (\A i, j \in 1 .. Len(s) : s[i] = s[j] => i = j) =>
           \A k \in 1 .. Len(s) :
               kind[s[k]] = "Label" => LaidFn[s].offset[s[k]] = Len(Text!Layout(TextFn[UpTo(s, k)]))

\* The loop of finalize lays the text of the stream out.
LEMMA FinalizeLays ==
    ASSUME NodesInv, calculatedOffset \in [Nodes -> Nat], NEW s \in Seq(Nodes)
    PROVE  Lays(s) /\ LaidFn[s] \in Flats
<1> DEFINE T == {t \in Seq(Nodes) : Lays(t)}
<1>0. /\ LaidFn[<<>>] = FlatBase
      /\ \A t \in Seq(Nodes) : LaidFn[t] \in Flats
      /\ \A t \in Seq(Nodes), n \in Nodes : LaidFn[Append(t, n)] = FlattenStep[n][LaidFn[t]]
  BY FlattenFolds, Folded
<1>1. <<>> \in T
  <2>1. TextFn[<<>>] = <<>> /\ <<>> \in Seq(Nodes)
    BY TextFlattens DEF TextIsFlat, Flattens
  <2>2. Len(<<>>) = 0
    OBVIOUS
  <2> QED BY <1>0, <2>1, <2>2, LayoutEmpty DEF Lays, FlatBase
<1>2. ASSUME NEW t \in Seq(Nodes), NEW n \in Nodes, t \in T PROVE Append(t, n) \in T
  <2> PICK w : w = Append(t, n)
    OBVIOUS
  <2> PICK old, new : old = LaidFn[t] /\ new = LaidFn[w]
    OBVIOUS
  <2>1. /\ TextFn[t] \in Seq(TextItems) /\ TextFn[w] = TextFn[t] \o ItemsOf(n)
    BY TextFlattens DEF TextIsFlat, Flattens, ItemsFn
  <2>2. old \in Flats /\ new = Flatten(old, n)
    BY <1>0 DEF FlattenStep
  <2>3. Lays(t)
    BY <1>2
  <2>4. kind[n] \in Kinds
    BY DEF NodesInv
  <2>5. old.bytes = Text!Layout(TextFn[t])
    BY <2>3 DEF Lays
  <2>6. new.bytes = Text!Layout(TextFn[w])
    <3>1. /\ kind[n] = "Data" => Text!Layout(TextFn[w]) = Text!Layout(TextFn[t]) \o data[n]
          /\ kind[n] = "Align" => Text!Layout(TextFn[w])
                = Text!Layout(TextFn[t]) \o Padding(Len(Text!Layout(TextFn[t])), alignment[n])
          /\ kind[n] = "Label" => Text!Layout(TextFn[w]) = Text!Layout(TextFn[t])
      BY <2>1, LaidNode
    <3>2. CASE kind[n] = "Data"
      BY <2>2, <2>5, <3>1, <3>2 DEF Flatten, Flats
    <3>3. CASE kind[n] = "Align"
      BY <2>2, <2>5, <3>1, <3>3 DEF Flatten, Flats
    <3>4. CASE kind[n] = "Label"
      BY <2>2, <2>5, <3>1, <3>4 DEF Flatten, Flats
    <3> QED BY <2>4, <3>2, <3>3, <3>4 DEF Kinds
  <2>7. new.offset = IF kind[n] = "Label" THEN [old.offset EXCEPT ![n] = Len(old.bytes)] ELSE old.offset
    <3>2. CASE kind[n] = "Data"
      BY <2>2, <3>2 DEF Flatten, Flats
    <3>3. CASE kind[n] = "Align"
      BY <2>2, <3>3 DEF Flatten, Flats
    <3>4. CASE kind[n] = "Label"
      BY <2>2, <3>4 DEF Flatten, Flats
    <3> QED BY <2>4, <3>2, <3>3, <3>4 DEF Kinds
  <2>8. old.offset \in [Nodes -> Nat]
    BY <2>2 DEF Flats
  <2>9. /\ w \in Seq(Nodes) /\ Len(t) \in Nat /\ Len(w) = Len(t) + 1 /\ w[Len(t) + 1] = n
        /\ \A k \in 1 .. Len(t) : w[k] = t[k] /\ k \in 1 .. Len(w) /\ UpTo(w, k) = UpTo(t, k)
        /\ UpTo(w, Len(t) + 1) = w
    BY DEF UpTo
  <2>10. ASSUME NEW m \in Nodes, kind[m] # "Label" \/ (\A k \in 1 .. Len(w) : w[k] # m)
         PROVE  new.offset[m] = calculatedOffset[m]
    <3>1. kind[m] # "Label" \/ (\A k \in 1 .. Len(t) : t[k] # m)
      BY <2>9, <2>10
    <3>2. old.offset[m] = calculatedOffset[m]
      BY <2>3, <3>1 DEF Lays
    <3>3. kind[n] = "Label" => m # n
      <4>1. Len(t) + 1 \in 1 .. Len(w)
        BY <2>9
      <4> QED BY <2>9, <2>10, <4>1
    <3> QED BY <2>7, <2>8, <3>2, <3>3
  <2>11. ASSUME \A i, j \in 1 .. Len(w) : w[i] = w[j] => i = j,
                NEW k \in 1 .. Len(w), kind[w[k]] = "Label"
         PROVE  new.offset[w[k]] = Len(Text!Layout(TextFn[UpTo(w, k)]))
    <3>0. \A i \in 1 .. Len(t) : i # Len(t) + 1
      BY <2>9
    <3>1. CASE k = Len(t) + 1
      <4>1. w[k] = n /\ UpTo(w, k) = w /\ kind[n] = "Label"
        BY <2>9, <2>11, <3>1
      <4>2. new.bytes = old.bytes
        BY <2>2, <4>1 DEF Flatten, Flats
      <4> QED BY <2>6, <2>7, <2>8, <4>1, <4>2
    <3>2. CASE k # Len(t) + 1
      <4>1. k \in 1 .. Len(t)
        BY <2>9, <3>2
      <4>2. w[k] = t[k] /\ UpTo(w, k) = UpTo(t, k)
        BY <2>9, <4>1
      <4>3. \A i, j \in 1 .. Len(t) : t[i] = t[j] => i = j
        BY <2>9, <2>11
      <4>4. old.offset[t[k]] = Len(Text!Layout(TextFn[UpTo(t, k)]))
        BY <2>3, <2>11, <4>1, <4>2, <4>3 DEF Lays
      <4>5. t[k] # n
        <5>1. Len(t) + 1 \in 1 .. Len(w) /\ w[Len(t) + 1] = n
          BY <2>9
        <5> QED BY <2>11, <3>2, <4>2, <5>1
      <4>6. t[k] \in Nodes
        BY <4>1
      <4>7. new.offset[t[k]] = old.offset[t[k]]
        BY <2>7, <2>8, <4>5, <4>6
      <4> QED BY <4>2, <4>4, <4>7
    <3> QED BY <3>1, <3>2
  <2>12. Lays(w)
    BY <2>6, <2>10, <2>11 DEF Lays
  <2> QED BY <2>9, <2>12
<1>3. Seq(Nodes) \subseteq T
  <2> HIDE DEF T
  <2> QED BY <1>1, <1>2, NodesInduction
<1>4. s \in T
  <2> HIDE DEF T
  <2> QED BY <1>3
<1> QED BY <1>0, <1>4

-----------------------------------------------------------------------------
(* Labels.                                                                 *)

\* A label has one node, and a label node is named by one label.
LabelsInv ==
    /\ labelNode \in [Labels -> 0 .. count]
    /\ \A l, m \in Labels : labelNode[l] = labelNode[m] /\ labelNode[l] # Null => l = m
    /\ \A l \in Labels : labelNode[l] # Null => kind[labelNode[l]] = "Label"

ItemsAreSo ==
    \A n \in Nodes :
        /\ kind[n] = "Data" => ItemsFn[n] = ByteItems(data[n])
        /\ kind[n] = "Align" => ItemsFn[n] = <<Text!AlignMark(alignment[n])>>
        /\ \A l \in Labels : kind[n] = "Label" /\ labelNode[l] = n => ItemsFn[n] = <<Text!Mark(l)>>

\* Once labels have one node each, every sort of node has its items.
LEMMA ItemsBySort == NodesInv /\ LabelsInv => ItemsAreSo
<1> SUFFICES ASSUME NodesInv, LabelsInv, NEW n \in Nodes
             PROVE  /\ kind[n] = "Data" => ItemsFn[n] = ByteItems(data[n])
                    /\ kind[n] = "Align" => ItemsFn[n] = <<Text!AlignMark(alignment[n])>>
                    /\ \A l \in Labels : kind[n] = "Label" /\ labelNode[l] = n => ItemsFn[n] = <<Text!Mark(l)>>
  BY DEF ItemsAreSo
<1>1. ItemsFn[n] = ItemsOf(n)
  BY DEF ItemsFn
<1>2. ASSUME NEW l \in Labels, kind[n] = "Label", labelNode[l] = n PROVE LabelOf(n) = l
  <2>1. n # Null
    BY NodesAssumption DEF Nodes, Null
  <2>2. \A m \in Labels : labelNode[m] = n => m = l
    BY <1>2, <2>1 DEF LabelsInv
  <2> QED BY <1>2, <2>2 DEF LabelOf
<1> QED BY <1>1, <1>2, ItemsAre

\* The same after a step.
LEMMA ItemsBySortNext == NodesInv' /\ LabelsInv' => ItemsAreSo'
BY ItemsBySort, PTL

\* Nodes that keep their items keep their text.
LEMMA TextKept ==
    ASSUME NodesInv, NodesInv', \A n \in Nodes : ItemsFn'[n] = ItemsFn[n], NEW s \in Seq(Nodes)
    PROVE  TextFn'[s] = TextFn[s]
<1>1. Flattens(TextFn, ItemsFn) /\ Flattens(TextFn', ItemsFn')
  BY TextFlattens, FlatNext DEF TextIsFlat
<1>2. \A k \in 1 .. Len(s) : ItemsFn'[s[k]] = ItemsFn[s[k]]
  OBVIOUS
<1> QED BY <1>1, <1>2, FlatSame

\* Where the text has a label.
LEMMA LabelPlaces ==
    ASSUME NodesInv, LabelsInv, NEW c, IsChain(c), NEW l \in Labels
    PROVE  /\ labelNode[l] = Null => Text!Places(TextNow, l) = {}
           /\ \A k \in 1 .. count : labelNode[l] = c[k] =>
                 /\ Text!Places(TextNow, l) # {}
                 /\ \A j \in Text!Places(TextNow, l) :
                        SubSeq(TextNow, 1, j) = TextFn[UpTo(c, k)]
<1>1. /\ c \in Seq(Nodes) /\ Len(c) = count
      /\ \A i \in 1 .. count : c[i] \in Nodes /\ c[i] # Null /\ c[i] \in 1 .. count
  BY ChainType
<1>2. Flattens(TextFn, ItemsFn)
  BY TextFlattens DEF TextIsFlat
<1>3. TextNow = TextFn[c]
  BY TextIsRead DEF ReadsText
<1>4. ASSUME NEW k \in 1 .. count, labelNode[l] = c[k]
      PROVE  /\ TextNow = TextFn[UpTo(c, k)] \o TextFn[After(c, k)]
             /\ TextFn[UpTo(c, k)] = TextFn[Before(c, k)] \o <<Text!Mark(l)>>
             /\ TextFn[UpTo(c, k)] \in Seq(TextItems) /\ TextFn[After(c, k)] \in Seq(TextItems)
             /\ TextFn[Before(c, k)] \in Seq(TextItems)
  <2>1. k \in 1 .. Len(c)
    BY <1>1
  <2>2. IsSplit(TextFn, ItemsFn, c, k)
    BY ONLY <1>1, <1>2, <2>1, FlatSplit
  <2>3. kind[c[k]] = "Label"
    BY <1>1, <1>4 DEF LabelsInv
  <2>4. ItemsFn[c[k]] = <<Text!Mark(l)>>
    BY <1>1, <1>4, <2>3, ItemsBySort DEF ItemsAreSo
  <2> QED BY <1>3, <2>2, <2>4 DEF IsSplit
<1>5. ASSUME NEW j \in Text!Places(TextNow, l)
      PROVE  \E k \in 1 .. count : labelNode[l] = c[k] /\ j = Len(TextFn[Before(c, k)]) + 1
  <2>1. j \in 1 .. Len(TextFn[c]) /\ TextFn[c][j] = Text!Mark(l)
    BY <1>3 DEF Text!Places
  <2>2. PICK k \in 1 .. Len(c) : \E m \in 1 .. Len(ItemsFn[c[k]]) :
            TextFn[c][j] = ItemsFn[c[k]][m] /\ j = Len(TextFn[SubSeq(c, 1, k - 1)]) + m
    <3>1. ComesFrom(TextFn, ItemsFn, c, j)
      BY ONLY <1>1, <1>2, <2>1, FlatFrom
    <3> QED BY <2>1, <3>1 DEF ComesFrom
  <2>3. PICK m \in 1 .. Len(ItemsFn[c[k]]) :
            ItemsFn[c[k]][m] = Text!Mark(l) /\ j = Len(TextFn[Before(c, k)]) + m
    BY <2>1, <2>2 DEF Before
  <2>4. PICK n : n = c[k]
    OBVIOUS
  <2>5. n \in Nodes /\ kind[n] \in Kinds
    BY <1>1, <2>4 DEF NodesInv
  <2>6. kind[n] # "Data"
    <3> SUFFICES ASSUME kind[n] = "Data" PROVE FALSE
      OBVIOUS
    <3>1. ItemsFn[n] = ByteItems(data[n]) /\ data[n] \in Seq(Bytes)
      BY <2>5, ItemsBySort DEF ItemsAreSo, NodesInv
    <3>2. m \in 1 .. Len(data[n]) /\ ByteItems(data[n])[m] = Text!Byte(data[n][m])
      <4>1. Len(ByteItems(data[n])) = Len(data[n])
        BY <3>1, ByteItemsType
      <4>2. m \in 1 .. Len(data[n])
        BY <2>3, <2>4, <3>1, <4>1
      <4> QED BY <4>2 DEF ByteItems
    <3>3. Text!Byte(data[n][m]) = Text!Mark(l)
      BY <2>3, <2>4, <3>1, <3>2
    <3>4. Text!Byte(data[n][m]).kind = "byte" /\ Text!Mark(l).kind = "label"
      BY DEF Text!Byte, Text!Mark
    <3> QED BY <3>3, <3>4
  <2>7. kind[n] # "Align"
    <3> SUFFICES ASSUME kind[n] = "Align" PROVE FALSE
      OBVIOUS
    <3>1. ItemsFn[n] = <<Text!AlignMark(alignment[n])>>
      BY <2>5, ItemsBySort DEF ItemsAreSo
    <3>2. m = 1 /\ ItemsFn[n][m] = Text!AlignMark(alignment[n])
      BY <2>3, <2>4, <3>1
    <3>3. Text!AlignMark(alignment[n]).kind = "align" /\ Text!Mark(l).kind = "label"
      BY DEF Text!AlignMark, Text!Mark
    <3> QED BY <2>3, <2>4, <3>2, <3>3
  <2>8. kind[n] = "Label"
    BY <2>5, <2>6, <2>7 DEF Kinds
  <2>9. PICK h \in Labels : labelNode[h] = n
    BY <2>5, <2>8 DEF NodesInv
  <2>10. ItemsFn[n] = <<Text!Mark(h)>>
    BY <2>5, <2>8, <2>9, ItemsBySort DEF ItemsAreSo
  <2>11. m = 1 /\ Text!Mark(h) = Text!Mark(l)
    BY <2>3, <2>4, <2>10
  <2>12. h = l
    <3>1. Text!Mark(h).value = h /\ Text!Mark(l).value = l
      BY DEF Text!Mark
    <3> QED BY <2>11, <3>1
  <2> QED BY <1>1, <2>3, <2>4, <2>9, <2>11, <2>12
<1>6. ASSUME labelNode[l] = Null PROVE Text!Places(TextNow, l) = {}
  BY <1>1, <1>5, <1>6
<1>7. ASSUME NEW k \in 1 .. count, labelNode[l] = c[k]
      PROVE  Text!Places(TextNow, l) # {}
  <2> PICK a, b, d : a = TextFn[Before(c, k)] /\ b = TextFn[After(c, k)] /\ d = TextFn[UpTo(c, k)]
    OBVIOUS
  <2>1. TextNow = d \o b /\ d = a \o <<Text!Mark(l)>> /\ a \in Seq(TextItems) /\ b \in Seq(TextItems)
        /\ d \in Seq(TextItems)
    BY <1>4, <1>7
  <2>2. Len(a) \in Nat /\ Len(d) = Len(a) + 1 /\ d[Len(a) + 1] = Text!Mark(l)
    <3>1. <<Text!Mark(l)>> \in Seq(TextItems)
      BY DEF TextItems
    <3> QED BY <2>1, <3>1
  <2>3. Len(d) \in 1 .. Len(d \o b) /\ (d \o b)[Len(d)] = Text!Mark(l)
    <3>1. PICK x, y \in Nat : x = Len(a) /\ y = Len(b) /\ Len(d) = x + 1 /\ Len(d \o b) = (x + 1) + y
      <4>1. Len(a) \in Nat /\ Len(b) \in Nat /\ Len(d \o b) = Len(d) + Len(b)
        BY <2>1
      <4> QED BY <2>2, <4>1
    <3>2. (d \o b)[x + 1] = d[x + 1]
      BY <2>1, <3>1
    <3>3. d[x + 1] = Text!Mark(l)
      BY <2>2, <3>1
    <3>4. x + 1 \in 1 .. ((x + 1) + y)
      <4>1. x \in Nat /\ y \in Nat
        BY <3>1
      <4> QED BY ONLY <4>1
    <3> QED BY <3>1, <3>2, <3>3, <3>4
  <2> QED BY <2>1, <2>3 DEF Text!Places
<1>8. ASSUME NEW k \in 1 .. count, labelNode[l] = c[k], NEW j \in Text!Places(TextNow, l)
      PROVE  SubSeq(TextNow, 1, j) = TextFn[UpTo(c, k)]
  <2>1. PICK i \in 1 .. count : labelNode[l] = c[i] /\ j = Len(TextFn[Before(c, i)]) + 1
    BY <1>5
  <2>2. i = k
    <3>1. \A m, n \in 1 .. count : c[m] = c[n] => m = n
      BY DEF IsChain
    <3>2. c[i] = c[k]
      BY <1>8, <2>1
    <3> QED BY <3>1, <3>2
  <2> PICK a, b, d : a = TextFn[Before(c, k)] /\ b = TextFn[After(c, k)] /\ d = TextFn[UpTo(c, k)]
    OBVIOUS
  <2>3. TextNow = d \o b /\ d = a \o <<Text!Mark(l)>> /\ a \in Seq(TextItems) /\ b \in Seq(TextItems)
        /\ d \in Seq(TextItems)
    BY <1>4, <1>8
  <2>4. j = Len(d)
    <3>1. <<Text!Mark(l)>> \in Seq(TextItems)
      BY DEF TextItems
    <3>2. Len(d) = Len(a) + 1
      BY <2>3, <3>1
    <3> QED BY <2>1, <2>2, <3>2
  <2>5. SubSeq(d \o b, 1, Len(d)) = d
    BY <2>3, ItemsSplit
  <2> QED BY <2>3, <2>4, <2>5
<1> QED BY <1>6, <1>7, <1>8

-----------------------------------------------------------------------------
(* The steps of the text.                                                  *)

AddressNow == [l \in Labels |-> IF labelNode[l] = Null THEN 0 ELSE calculatedOffset[labelNode[l]]]

AddressInv ==
    /\ calculatedOffset \in [Nodes -> Nat]
    /\ \A n \in Nodes : n > count => calculatedOffset[n] = 0

OffsetInv ==
    /\ isFinalized \in BOOLEAN /\ buffer \in Seq(Bytes) /\ cursorOffset \in Nat
    /\ ~isFinalized => cursorOffset = Len(Text!Layout(Written))

\* An image is never mistaken for none.
LEMMA ImageKnown == ASSUME NEW image \in Seq(Bytes) PROVE image # Text!NotLaidOut
<1> SUFFICES ASSUME image = <<-1>> PROVE FALSE
  BY DEF Text!NotLaidOut
<1>1. Len(image) = 1 /\ image[1] = -1
  OBVIOUS
<1>2. image[1] \in Bytes
  BY <1>1
<1>3. -1 \in Nat
  BY <1>1, <1>2, BytesAssumption
<1> QED BY <1>3

\* A text is laid out as bytes.
LEMMA LayoutType == ASSUME NEW items \in Seq(TextItems) PROVE Text!Layout(items) \in Seq(Bytes)
<1>1. Text!Byte(PadByte) \in TextItems
  BY BytesAssumption DEF TextItems
<1> QED BY <1>1, LayoutAppend

\* The step of the text when a run is written.
LEMMA WriteStep ==
    ASSUME OffsetInv, NEW run, Writes(run),
           isFinalized' = isFinalized, buffer' = buffer, AddressNow' = AddressNow,
           ~isFinalized => cursorOffset' = Len(Text!Layout(Written'))
    PROVE  Text!Write(run)
<1> PICK rest \in Seq(TextItems) : TextNow = Written \o rest /\ TextNow' = Written' \o rest
  BY DEF Writes
<1> PICK a, b : a = Written /\ b = Written'
  OBVIOUS
<1>1. a \in Seq(TextItems) /\ run \in Seq(TextItems) /\ b = a \o run
  BY DEF Writes
<1>2. /\ SubSeq(a \o rest, 1, Len(a)) = a
      /\ SubSeq(a \o rest, Len(a) + 1, Len(a \o rest)) = rest
  BY <1>1, ItemsSplit
<1>3. b \in Seq(TextItems) /\ Len(b) = Len(a) + Len(run)
  BY <1>1
<1>4. SubSeq(b \o rest, 1, Len(b)) = b
  BY <1>3, ItemsSplit
<1>5. Len(Written)' = Len(Written) + Len(run)
  BY <1>3
<1>6. TextNow' = SubSeq(TextNow, 1, Len(Written)) \o run
                   \o SubSeq(TextNow, Len(Written) + 1, Len(TextNow))
  BY <1>1, <1>2
<1>7. Text!Offset(TextNow', Len(Written)') = Len(Text!Layout(Written'))
  BY <1>4 DEF Text!Offset
<1>8. GetCurrentOffset' = Text!Reported(TextNow', Len(Written)', IF isFinalized THEN buffer ELSE <<-1>>)
  <2>1. CASE isFinalized
    <3>1. buffer # Text!NotLaidOut
      BY ImageKnown DEF OffsetInv
    <3> QED BY <2>1, <3>1 DEF GetCurrentOffset, Text!Reported
  <2>2. CASE ~isFinalized
    BY <2>2, <1>7 DEF GetCurrentOffset, Text!Reported, Text!NotLaidOut
  <2> QED BY <2>1, <2>2
<1> QED BY <1>5, <1>6, <1>8 DEF Text!Write, TextNow, Written, AddressNow

\* What a state has written before and behind its cursor.
LEMMA WrittenSplit ==
    ASSUME NodesInv, NEW c, IsChain(c), NEW k \in 1 .. count, cursor = c[k]
    PROVE  /\ TextNow = Written \o TextFn[After(c, k)]
           /\ Written \in Seq(TextItems) /\ TextFn[After(c, k)] \in Seq(TextItems)
           /\ Written = TextFn[UpTo(c, k)] /\ TextNow = TextFn[c]
<1>1. c \in Seq(Nodes) /\ k \in 1 .. Len(c)
  BY ChainType
<1>2. Flattens(TextFn, ItemsFn)
  BY TextFlattens DEF TextIsFlat
<1>3. TextNow = TextFn[c] /\ Written = TextFn[UpTo(c, k)]
  BY TextIsRead DEF ReadsText, UpTo
<1>4. IsSplit(TextFn, ItemsFn, c, k)
  BY ONLY <1>1, <1>2, FlatSplit
<1> QED BY <1>3, <1>4 DEF IsSplit

WrittenFits ==
    /\ Written \in Seq(TextItems) /\ Len(Written) \in 0 .. Len(TextNow)
    /\ SubSeq(TextNow, 1, Len(Written)) = Written

\* What is written is the beginning of the text.
LEMMA WrittenBegins ==
    NodesInv /\ (\E c : IsChain(c)) /\ cursor \in 1 .. count => WrittenFits
<1> SUFFICES ASSUME NodesInv, NEW c, IsChain(c), cursor \in 1 .. count PROVE WrittenFits
  OBVIOUS
<1>1. PICK k \in 1 .. count : cursor = c[k]
  BY DEF IsChain
<1> PICK a, b : a = Written /\ b = TextFn[After(c, k)]
  OBVIOUS
<1>2. TextNow = a \o b /\ a \in Seq(TextItems) /\ b \in Seq(TextItems)
  BY <1>1, WrittenSplit
<1>3. SubSeq(a \o b, 1, Len(a)) = a
  BY <1>2, ItemsSplit
<1>4. Len(a) \in 0 .. Len(a \o b)
  BY <1>2
<1> QED BY <1>2, <1>3, <1>4 DEF WrittenFits

HasChain == \E c : IsChain(c)
CursorInv == cursor \in 1 .. count
\* The same after a step.
LEMMA WrittenBeginsNext == NodesInv' /\ HasChain' /\ CursorInv' => WrittenFits'
BY WrittenBegins, PTL DEF HasChain, CursorInv

\* The step of the text when the cursor goes elsewhere.
LEMMA MoveStep ==
    ASSUME OffsetInv, WrittenFits', TextNow' = TextNow,
           isFinalized' = isFinalized, buffer' = buffer, AddressNow' = AddressNow,
           ~isFinalized => cursorOffset' = Len(Text!Layout(Written'))
    PROVE  Text!Move
<1>1. Len(Written)' \in 0 .. Len(TextNow) /\ SubSeq(TextNow, 1, Len(Written)') = Written'
  BY DEF WrittenFits
<1>2. Text!Offset(TextNow, Len(Written)') = Len(Text!Layout(Written'))
  BY <1>1 DEF Text!Offset
<1>3. GetCurrentOffset' = Text!Reported(TextNow, Len(Written)', IF isFinalized THEN buffer ELSE <<-1>>)
  <2>1. CASE isFinalized
    <3>1. buffer # Text!NotLaidOut
      BY ImageKnown DEF OffsetInv
    <3> QED BY <2>1, <3>1 DEF GetCurrentOffset, Text!Reported
  <2>2. CASE ~isFinalized
    BY <2>2, <1>2 DEF GetCurrentOffset, Text!Reported, Text!NotLaidOut
  <2> QED BY <2>1, <2>2
<1> QED BY <1>1, <1>3 DEF Text!Move, TextNow, Written, AddressNow

-----------------------------------------------------------------------------
(* The links of the stream.                                                *)

\* What the links rest on: the cursor and the label nodes are nodes of the
\* stream, and so are the ends of every link.
Allocated ==
    /\ count \in Nodes
    /\ head \in 1 .. count /\ tail \in 1 .. count /\ cursor \in 1 .. count
    /\ labelNode \in [Labels -> 0 .. count]
    /\ prev \in [Nodes -> 0 .. MaxNodes]
    /\ next \in [Nodes -> 0 .. MaxNodes]

LinksInv == Allocated /\ LinksAgree

\* The constructor's node is the head, the tail and the cursor.
LEMMA InitEstablishesLinks == Init => LinksInv
BY NodesAssumption DEF Init, LinksInv, Allocated, LinksAgree, Nodes, Null

\* A new node takes its place between the cursor and what followed it.
LEMMA InsertKeepsLinks ==
    ASSUME LinksInv, InsertNodeAfter(cursor),
           labelNode' \in [Labels -> 0 .. count']
    PROVE  LinksInv'
<1>1. /\ count \in Nat /\ count' = count + 1 /\ count' \in Nodes
      /\ cursor' = count' /\ cursor \in 1 .. count /\ cursor # count'
      /\ count' \in 0 .. MaxNodes /\ cursor \in 0 .. MaxNodes
  BY NodesAssumption DEF LinksInv, Allocated, InsertNodeAfter, Nodes
<1>2. next[cursor] \in 0 .. count /\ next[cursor] # count'
  BY <1>1 DEF LinksInv, LinksAgree
<1>a. \A n \in 1 .. count : n \in Nodes /\ n # count'
  BY <1>1, NodesAssumption DEF Nodes
<1>b. next \in [Nodes -> 0 .. MaxNodes] /\ prev \in [Nodes -> 0 .. MaxNodes] /\ cursor \in Nodes
  BY <1>1, <1>a DEF LinksInv, Allocated
<1>3. /\ next' \in [Nodes -> 0 .. MaxNodes]
      /\ next'[count'] = next[cursor]
      /\ next'[cursor] = count'
      /\ \A n \in 1 .. count : n # cursor => next'[n] = next[n]
  <2>1. next' = [next EXCEPT ![count'] = next[cursor], ![cursor] = count']
    BY DEF InsertNodeAfter
  <2>2. next[cursor] \in 0 .. MaxNodes
    BY <1>b
  <2>3. next' \in [Nodes -> 0 .. MaxNodes]
    BY <1>1, <1>b, <2>1, <2>2
  <2>4. next'[count'] = next[cursor] /\ next'[cursor] = count'
    BY <1>1, <1>b, <2>1
  <2>5. \A n \in 1 .. count : n # cursor => next'[n] = next[n]
    BY <1>a, <1>b, <2>1
  <2> QED BY <2>3, <2>4, <2>5
<1>4. /\ prev' \in [Nodes -> 0 .. MaxNodes]
      /\ prev'[count'] = cursor
      /\ next[cursor] # Null => prev'[next[cursor]] = count'
      /\ \A n \in 1 .. count : n # next[cursor] => prev'[n] = prev[n]
  <2>1. prev' = [n \in Nodes |-> IF n = count' THEN cursor
                                  ELSE IF n = next[cursor] THEN count' ELSE prev[n]]
    BY DEF InsertNodeAfter
  <2>2. next[cursor] # Null => next[cursor] \in 1 .. count
    BY <1>1, <1>2 DEF Null
  <2>3. prev' \in [Nodes -> 0 .. MaxNodes]
    BY <1>1, <1>b, <2>1
  <2>4. prev'[count'] = cursor
    BY <1>1, <2>1
  <2>5. next[cursor] # Null => prev'[next[cursor]] = count'
    BY <1>2, <1>a, <2>1, <2>2
  <2>6. \A n \in 1 .. count : n # next[cursor] => prev'[n] = prev[n]
    BY <1>a, <2>1
  <2> QED BY <2>3, <2>4, <2>5, <2>6
<1>5. /\ head' = head
      /\ tail' = IF next[cursor] = Null THEN count' ELSE tail
  BY DEF InsertNodeAfter
<1>6. Allocated'
  BY <1>1, <1>3, <1>4, <1>5 DEF LinksInv, Allocated
<1>7. LinksAgree'
  <2> SUFFICES ASSUME NEW n \in 1 .. count'
               PROVE  /\ next'[n] \in 0 .. count' /\ prev'[n] \in 0 .. count'
                      /\ next'[n] # Null => prev'[next'[n]] = n
                      /\ prev'[n] # Null => next'[prev'[n]] = n
                      /\ next'[n] = Null <=> n = tail'
                      /\ prev'[n] = Null <=> n = head'
    BY DEF LinksAgree
  <2> USE DEF Null
  <2> DEFINE Linked(m) == /\ next[m] \in 0 .. count /\ prev[m] \in 0 .. count
                          /\ next[m] # Null => prev[next[m]] = m
                          /\ prev[m] # Null => next[prev[m]] = m
                          /\ next[m] = Null <=> m = tail
                          /\ prev[m] = Null <=> m = head
  <2>0. /\ \A m \in 1 .. count : Linked(m)
        /\ head \in 1 .. count /\ tail \in 1 .. count
    BY DEF LinksInv, Allocated, LinksAgree
  <2>1. CASE n = count'
    BY <2>0, <2>1, <1>1, <1>2, <1>3, <1>4, <1>5
  <2>2. CASE n = cursor
    BY <2>0, <2>2, <1>1, <1>2, <1>3, <1>4, <1>5
  <2>3. CASE n # count' /\ n # cursor
    <3>1. n \in 1 .. count /\ next'[n] = next[n] /\ Linked(n)
      BY <2>0, <2>3, <1>1, <1>3
    <3>2. CASE n = next[cursor]
      BY <2>0, <3>1, <3>2, <1>1, <1>2, <1>3, <1>4, <1>5
    <3>3. CASE n # next[cursor]
      <4>1. prev'[n] = prev[n]
        BY <3>1, <3>3, <1>4
      <4>2. prev[n] # Null => prev[n] # cursor /\ next'[prev[n]] = n
        BY <2>0, <3>1, <3>3, <1>1, <1>3
      <4>3. next[n] # Null => next[n] # next[cursor] /\ prev'[next[n]] = n
        BY <2>0, <2>3, <3>1, <1>1, <1>4
      <4>4. n = tail' <=> n = tail
        BY <2>0, <2>3, <3>1, <1>1, <1>5
      <4> QED BY <3>1, <4>1, <4>2, <4>3, <4>4, <1>1, <1>5
    <3> QED BY <3>2, <3>3
  <2> QED BY <2>1, <2>2, <2>3
<1> QED BY <1>6, <1>7 DEF LinksInv

\* A jump of the cursor leaves the stream as it is.
LEMMA JumpKeepsLinks ==
    ASSUME LinksInv, NEW node \in 1 .. count, SetCursor(node)
    PROVE  LinksInv'
BY DEF LinksInv, Allocated, LinksAgree, SetCursor, stream, Null

\* Every operation keeps the links.
LEMMA StepKeepsLinks == LinksInv /\ [Next]_vars => LinksInv'
<1> SUFFICES ASSUME LinksInv, [Next]_vars PROVE LinksInv'
  OBVIOUS
<1>1. ASSUME NEW bytes \in Runs, NEW e \in Endiannesses, EmitBytesWithEndian(bytes, e)
      PROVE  LinksInv'
  <2>1. CASE kind[cursor] = "Data"
    BY <1>1, <2>1 DEF EmitBytesWithEndian, EmitBytes, LinksInv, Allocated, LinksAgree, Null
  <2>2. CASE kind[cursor] # "Data"
    <3>1. InsertNodeAfter(cursor) /\ labelNode' = labelNode
      BY <1>1, <2>2 DEF EmitBytesWithEndian, EmitBytes
    <3>2. labelNode' \in [Labels -> 0 .. count']
      BY <3>1, NodesAssumption DEF LinksInv, Allocated, InsertNodeAfter, Nodes
    <3> QED BY <3>1, <3>2, InsertKeepsLinks
  <2> QED BY <2>1, <2>2
<1>2. ASSUME NEW a \in Alignments, AlignTo(a) PROVE LinksInv'
  <2>1. InsertNodeAfter(cursor) /\ labelNode' = labelNode
    BY <1>2 DEF AlignTo
  <2>2. labelNode' \in [Labels -> 0 .. count']
    BY <2>1, NodesAssumption DEF LinksInv, Allocated, InsertNodeAfter, Nodes
  <2> QED BY <2>1, <2>2, InsertKeepsLinks
<1>3. ASSUME NEW l \in Labels, BindLabel(l) PROVE LinksInv'
  <2>1. CASE labelNode[l] = Null
    <3>1. InsertNodeAfter(cursor) /\ labelNode' = [labelNode EXCEPT ![l] = count']
      BY <1>3, <2>1 DEF BindLabel
    <3>2. labelNode' \in [Labels -> 0 .. count']
      BY <3>1, NodesAssumption DEF LinksInv, Allocated, InsertNodeAfter, Nodes
    <3> QED BY <3>1, <3>2, InsertKeepsLinks
  <2>2. CASE labelNode[l] # Null
    <3>1. labelNode[l] \in 1 .. count /\ SetCursor(labelNode[l])
      BY <1>3, <2>2 DEF BindLabel, LinksInv, Allocated, Null, Nodes
    <3> QED BY <3>1, JumpKeepsLinks
  <2> QED BY <2>1, <2>2
<1>4. CASE ResetCursorToEnd
  <2>1. tail \in 1 .. count /\ SetCursor(tail)
    BY <1>4 DEF ResetCursorToEnd, LinksInv, Allocated
  <2> QED BY <2>1, JumpKeepsLinks
<1>5. CASE Finalize
  BY <1>5 DEF Finalize, stream, LinksInv, Allocated, LinksAgree, Null
<1>6. ASSUME NEW at \in 0 .. Len(buffer), NEW bytes \in Fixups, NEW e \in Endiannesses,
             Patch(at, bytes, e)
      PROVE  LinksInv'
  BY <1>6 DEF Patch, stream, LinksInv, Allocated, LinksAgree, Null
<1>7. CASE UNCHANGED vars
  BY <1>7 DEF vars, stream, LinksInv, Allocated, LinksAgree, Null
<1> QED BY <1>1, <1>2, <1>3, <1>4, <1>5, <1>6, <1>7 DEF Next

\* Whatever is emitted, aligned, labelled, patched and laid out, and wherever
\* the cursor goes in between, the links of a section's nodes agree in both
\* directions and end at its head and tail.
THEOREM LinksAlwaysAgree == Spec => []LinksAgree
<1>1. LinksInv => LinksAgree
  BY DEF LinksInv
<1> QED BY <1>1, InitEstablishesLinks, StepKeepsLinks, PTL DEF Spec

-----------------------------------------------------------------------------
(* The invariant of a section, kept by each of its operations.             *)

SectionInv == LinksInv /\ NodesInv /\ LabelsInv /\ AddressInv /\ OffsetInv /\ HasChain

\* The stream of the constructor, one empty data node, is the empty text.
LEMMA InitEstablishesSection == Init => SectionInv /\ Text!Init
<1> SUFFICES ASSUME Init PROVE SectionInv /\ Text!Init
  OBVIOUS
<1> USE DEF Null
<1>1. LinksInv
  BY InitEstablishesLinks
<1>2. NodesInv
  <2>1. <<>> \in Seq(Bytes)
    OBVIOUS
  <2> QED BY <2>1 DEF Init, NodesInv, Kinds
<1>3. LabelsInv
  BY DEF Init, LabelsInv
<1>4. AddressInv
  BY DEF Init, AddressInv
<1> DEFINE c == [k \in 1 .. 1 |-> 1]
<1>5. IsChain(c)
  BY NodesAssumption DEF Init, IsChain, Nodes
<1>6. c[1] = 1 /\ 1 \in 1 .. count /\ cursor = c[1]
  BY DEF Init
<1> HIDE DEF c
<1>7. TextNow = <<>> /\ Written = <<>>
  <2>1. TextNow = TextFn[c] /\ Written = TextFn[UpTo(c, 1)]
    BY <1>5, <1>6, WrittenSplit, <1>2
  <2>2. c \in Seq(Nodes) /\ Len(c) = 1
    BY <1>5, ChainType DEF Init
  <2>3. UpTo(c, 1) = c
    BY <2>2 DEF UpTo
  <2>4. Flattens(TextFn, ItemsFn)
    BY <1>2, TextFlattens DEF TextIsFlat
  <2>5. c = <<1>> /\ 1 \in Nodes
    BY <2>2, <1>6, NodesAssumption DEF Nodes
  <2>6. TextFn[<<1>>] = ItemsFn[1]
    BY ONLY <2>4, <2>5, FlatOne
  <2>7. ItemsFn[1] = ByteItems(<<>>)
    <3>1. ItemsAreSo
      BY <1>2, <1>3, ItemsBySort
    <3> QED BY <2>5, <3>1 DEF ItemsAreSo, Init
  <2>8. ByteItems(<<>>) = <<>>
    BY DEF ByteItems
  <2> QED BY <2>1, <2>3, <2>5, <2>6, <2>7, <2>8
<1>8. OffsetInv
  <2>1. <<>> \in Seq(Bytes) /\ Len(<<>>) = 0
    OBVIOUS
  <2> QED BY <1>7, <2>1, LayoutEmpty DEF OffsetInv, Init
<1>9. Text!Init
  <2>1. AddressNow = [l \in Labels |-> 0]
    BY DEF AddressNow, Init
  <2>2. Len(<<>>) = 0
    OBVIOUS
  <2> QED BY <1>7, <2>1, <2>2 DEF Init, Text!Init, Text!NotLaidOut, Text!NoAddress,
             TextNow, Written, AddressNow, GetCurrentOffset
<1> QED BY <1>1, <1>2, <1>3, <1>4, <1>5, <1>8, <1>9 DEF SectionInv, HasChain

\* What stays when the stream and the labels do.
LEMMA StreamKept ==
    ASSUME SectionInv, UNCHANGED stream, labelNode' = labelNode
    PROVE  /\ NodesInv' /\ LabelsInv' /\ HasChain'
           /\ \A c : IsChain(c) => IsChain(c)'
           /\ \A s \in Seq(Nodes) : TextFn'[s] = TextFn[s]
           /\ TextNow' = TextNow
<1>1. NodesInv' /\ LabelsInv'
  BY DEF SectionInv, NodesInv, LabelsInv, stream
<1>2. \A c : IsChain(c) => IsChain(c)'
  BY DEF IsChain, stream
<1>3. HasChain'
  BY <1>2 DEF SectionInv, HasChain
<1>4. ASSUME NEW n \in Nodes PROVE ItemsFn'[n] = ItemsFn[n]
  BY DEF ItemsFn, ItemsOf, stream
<1>5. \A s \in Seq(Nodes) : TextFn'[s] = TextFn[s]
  BY <1>1, <1>4, TextKept DEF SectionInv
<1>6. TextNow' = TextNow
  <2>1. PICK c : IsChain(c)
    BY DEF SectionInv, HasChain
  <2>2. IsChain(c)' /\ c \in Seq(Nodes)
    BY <1>2, <2>1, ChainType
  <2>3. TextNow = TextFn[c] /\ TextNow' = TextFn'[c]
    BY <2>1, <2>2, TextIsRead, TextIsReadNext DEF ReadsText
  <2> QED BY <1>5, <2>2, <2>3
<1> QED BY <1>1, <1>2, <1>3, <1>5, <1>6

\* A replay up to a node is the size of the text up to it.
LEMMA ReplayUpTo ==
    ASSUME NodesInv, NEW c, IsChain(c), NEW k \in 1 .. count
    PROVE  ComputeOffsetTo(c[k]) = Len(Text!Layout(TextFn[UpTo(c, k)]))
<1>1. ChainUpTo(c[k]) = UpTo(c, k)
  BY ChainPrefix DEF UpTo
<1>2. UpTo(c, k) \in Seq(Nodes)
  <2>1. c \in Seq(Nodes) /\ k \in 1 .. Len(c)
    BY ChainType
  <2> QED BY <2>1, NodesSplit
<1> QED BY <1>1, <1>2, ReplayIsSize DEF ComputeOffsetTo

\* setCursor: the replay puts the running offset right for the new place.
LEMMA JumpKeepsSection ==
    ASSUME SectionInv, NEW node \in 1 .. count, SetCursor(node)
    PROVE  SectionInv' /\ Text!Move
<1>1. UNCHANGED stream /\ labelNode' = labelNode /\ cursor' = node /\ UNCHANGED calculatedOffset
  BY DEF SetCursor
<1>2. /\ NodesInv' /\ LabelsInv' /\ HasChain' /\ TextNow' = TextNow
      /\ \A c : IsChain(c) => IsChain(c)'
      /\ \A s \in Seq(Nodes) : TextFn'[s] = TextFn[s]
  BY <1>1, StreamKept
<1>3. LinksInv'
  BY JumpKeepsLinks DEF SectionInv
<1>4. PICK c : IsChain(c)
  BY DEF SectionInv, HasChain
<1>5. PICK k \in 1 .. count : node = c[k]
  BY <1>4 DEF IsChain
<1>6. Written' = TextFn'[UpTo(c, k)]
  <2>1. IsChain(c)' /\ cursor' = c[k] /\ k \in 1 .. count'
    BY <1>1, <1>2, <1>4, <1>5 DEF stream
  <2> QED BY <2>1, TextIsReadNext DEF ReadsText
<1>7. UpTo(c, k) \in Seq(Nodes)
  <2>1. c \in Seq(Nodes) /\ k \in 1 .. Len(c)
    BY <1>4, ChainType
  <2> QED BY <2>1, NodesSplit
<1>8. cursorOffset' = Len(Text!Layout(Written'))
  <2>1. cursorOffset' = Len(Text!Layout(TextFn[UpTo(c, k)]))
    BY <1>4, <1>5, ReplayUpTo DEF SetCursor, SectionInv
  <2> QED BY <1>2, <1>6, <1>7, <2>1
<1>9. WrittenFits'
  <2>1. CursorInv'
    BY <1>1 DEF CursorInv, stream
  <2> QED BY <1>2, <2>1, WrittenBeginsNext
<1>10. OffsetInv'
  <2>1. cursorOffset' \in Nat
    <3>1. Written' \in Seq(TextItems)
      BY <1>9 DEF WrittenFits
    <3>2. Text!Layout(Written') \in Seq(Bytes)
      BY <3>1, LayoutType
    <3> QED BY <1>8, <3>2
  <2> QED BY <1>8, <2>1 DEF SetCursor, SectionInv, OffsetInv
<1>11. AddressInv'
  BY <1>1 DEF SectionInv, AddressInv, stream
<1>12. AddressNow' = AddressNow
  BY <1>1 DEF AddressNow
<1>13. Text!Move
  <2>1. isFinalized' = isFinalized /\ buffer' = buffer /\ OffsetInv
    BY DEF SetCursor, SectionInv
  <2> QED BY <1>2, <1>8, <1>9, <1>12, <2>1, MoveStep
<1> QED BY <1>2, <1>3, <1>10, <1>11, <1>13 DEF SectionInv

\* A node keeps its items with its fields.
LEMMA ItemsKept ==
    ASSUME NodesInv, NodesInv', LabelsInv, LabelsInv', NEW n \in Nodes, kind'[n] = kind[n],
           kind[n] = "Data" => data'[n] = data[n],
           kind[n] = "Align" => alignment'[n] = alignment[n],
           \A l \in Labels : labelNode[l] = n => labelNode'[l] = n
    PROVE  ItemsFn'[n] = ItemsFn[n]
<1>1. ItemsAreSo /\ ItemsAreSo'
  BY ItemsBySort, ItemsBySortNext
<1>2. kind[n] \in Kinds
  BY DEF NodesInv
<1>3. CASE kind[n] = "Data"
  BY <1>1, <1>3 DEF ItemsAreSo
<1>4. CASE kind[n] = "Align"
  BY <1>1, <1>4 DEF ItemsAreSo
<1>5. CASE kind[n] = "Label"
  <2>1. PICK l \in Labels : labelNode[l] = n
    BY <1>5 DEF NodesInv
  <2> QED BY <1>1, <1>5, <2>1 DEF ItemsAreSo
<1> QED BY <1>2, <1>3, <1>4, <1>5 DEF Kinds

\* A new node behind the cursor, whose items are a run that is laid out in
\* as many bytes as the running offset grows by.
LEMMA InsertKeepsSection ==
    ASSUME SectionInv, InsertNodeAfter(cursor), NodesInv', LabelsInv',
           \A n \in 1 .. count : ItemsFn'[n] = ItemsFn[n],
           calculatedOffset' = calculatedOffset, isFinalized' = isFinalized, buffer' = buffer,
           AddressNow' = AddressNow,
           NEW run, run = ItemsFn'[count'],
           ~isFinalized => cursorOffset' = Len(Text!Layout(Written \o run)),
           cursorOffset' \in Nat
    PROVE  SectionInv' /\ Text!Write(run)
<1>1. LinksInv'
  <2>1. labelNode' \in [Labels -> 0 .. count']
    BY DEF LabelsInv
  <2> QED BY <2>1, InsertKeepsLinks DEF SectionInv
<1>2. PICK c : IsChain(c)
  BY DEF SectionInv, HasChain
<1>3. PICK k \in 1 .. count : cursor = c[k]
  BY <1>2 DEF IsChain, SectionInv, LinksInv, Allocated
<1>4. next \in [Nodes -> 0 .. MaxNodes] /\ NodesInv
  BY DEF SectionInv, LinksInv, Allocated
<1>5. Writes(run)
  BY <1>2, <1>3, <1>4, NodeWrites
<1>6. HasChain' /\ count' = count + 1
  <2>1. PICK d : d = Insertion(c, k, count')
    OBVIOUS
  <2>2. IsChain(d)' /\ count' = count + 1
    BY <1>2, <1>3, <1>4, <2>1, ChainInserted
  <2> QED BY <2>2 DEF HasChain
<1>7. ~isFinalized => cursorOffset' = Len(Text!Layout(Written'))
  BY <1>5 DEF Writes
<1>8. OffsetInv'
  BY <1>7 DEF SectionInv, OffsetInv
<1>9. AddressInv'
  <2>1. count \in Nat
    BY NodesAssumption DEF SectionInv, LinksInv, Allocated, Nodes
  <2>2. \A n \in Nodes : n > count' => n > count
    BY <1>6, <2>1, NodesAssumption DEF Nodes
  <2> QED BY <2>2 DEF SectionInv, AddressInv
<1>10. Text!Write(run)
  BY <1>5, <1>7, WriteStep DEF SectionInv
<1> QED BY <1>1, <1>6, <1>8, <1>9, <1>10 DEF SectionInv

\* The facts on the new node that every insertion uses.
LEMMA NewNode ==
    ASSUME SectionInv, InsertNodeAfter(cursor)
    PROVE  /\ count \in Nat /\ count' = count + 1 /\ count' \in Nodes
           /\ \A n \in 1 .. count : n \in Nodes /\ n # count'
           /\ \A n \in Nodes : n # count' => n \in 1 .. count \/ n > count'
           /\ \A l \in Labels : labelNode[l] \in 0 .. count /\ labelNode[l] # count'
           /\ labelNode \in [Labels -> 0 .. count']
BY NodesAssumption DEF SectionInv, LabelsInv, LinksInv, Allocated, InsertNodeAfter, Nodes

\* alignTo writes an alignment mark.
LEMMA AlignKeepsSection ==
    ASSUME SectionInv, NEW a \in Alignments, AlignTo(a)
    PROVE  SectionInv' /\ Text!Write(<<Text!AlignMark(a)>>)
<1>1. /\ InsertNodeAfter(cursor)
      /\ kind' = [kind EXCEPT ![count'] = "Align"]
      /\ alignment' = [alignment EXCEPT ![count'] = a]
      /\ cursorOffset' = AlignUp(cursorOffset, a)
      /\ data' = data /\ calculatedOffset' = calculatedOffset /\ isFinalized' = isFinalized
      /\ buffer' = buffer /\ labelNode' = labelNode
  BY DEF AlignTo
<1>2. /\ count \in Nat /\ count' = count + 1 /\ count' \in Nodes
      /\ \A n \in 1 .. count : n \in Nodes /\ n # count'
      /\ \A l \in Labels : labelNode[l] \in 0 .. count /\ labelNode[l] # count'
      /\ labelNode \in [Labels -> 0 .. count']
  BY <1>1, NewNode
<1>3. NodesInv'
  BY <1>1, <1>2 DEF SectionInv, NodesInv, Kinds
<1>4. LabelsInv'
  <2>1. \A l \in Labels : labelNode[l] # Null => kind'[labelNode[l]] = "Label"
    <3> SUFFICES ASSUME NEW l \in Labels, labelNode[l] # Null
                 PROVE  kind'[labelNode[l]] = "Label"
      OBVIOUS
    <3>1. labelNode[l] \in Nodes /\ labelNode[l] # count'
      BY <1>2 DEF Null
    <3> QED BY <1>1, <3>1 DEF SectionInv, LabelsInv, NodesInv
  <2> QED BY <1>1, <1>2, <2>1 DEF SectionInv, LabelsInv
<1>5. ASSUME NEW n \in 1 .. count PROVE ItemsFn'[n] = ItemsFn[n]
  <2>1. n \in Nodes /\ kind'[n] = kind[n] /\ alignment'[n] = alignment[n]
    BY <1>1, <1>2 DEF SectionInv, NodesInv
  <2> QED BY <1>1, <1>3, <1>4, <2>1, ItemsKept DEF SectionInv
<1>6. ItemsFn'[count'] = <<Text!AlignMark(a)>>
  <2>1. ItemsAreSo'
    BY <1>3, <1>4, ItemsBySortNext
  <2>2. kind'[count'] = "Align" /\ alignment'[count'] = a
    BY <1>1, <1>2 DEF SectionInv, NodesInv
  <2> QED BY <1>2, <2>1, <2>2 DEF ItemsAreSo
<1>7. AddressNow' = AddressNow
  BY <1>1 DEF AddressNow
<1>8. ~isFinalized => cursorOffset' = Len(Text!Layout(Written \o <<Text!AlignMark(a)>>))
  <2>1. Written \in Seq(TextItems)
    BY WrittenBegins DEF SectionInv, LinksInv, Allocated, HasChain, WrittenFits
  <2>2. Len(Text!Layout(Written \o <<Text!AlignMark(a)>>)) = AlignUp(Len(Text!Layout(Written)), a)
    BY <2>1, LayoutAlign
  <2> QED BY <1>1, <2>2 DEF SectionInv, OffsetInv
<1>9. cursorOffset' \in Nat
  <2>1. a \in Nat \ {0} /\ cursorOffset \in Nat
    BY AlignmentsAssumption DEF SectionInv, OffsetInv
  <2> QED BY <1>1, <2>1, PaddingAgrees
<1> QED BY <1>1, <1>3, <1>4, <1>5, <1>6, <1>7, <1>8, <1>9, InsertKeepsSection

\* bindLabel writes the label's mark the first time and goes back to it later.
LEMMA BindKeepsSection ==
    ASSUME SectionInv, NEW l \in Labels, BindLabel(l)
    PROVE  /\ SectionInv'
           /\ \/ Text!Move
              \/ Text!Places(TextNow, l) = {} /\ Text!Write(<<Text!Mark(l)>>)
<1>a. CASE labelNode[l] # Null
  <2>1. labelNode[l] \in 1 .. count /\ SetCursor(labelNode[l])
    BY <1>a, NodesAssumption DEF BindLabel, SectionInv, LinksInv, Allocated, Null, Nodes
  <2> QED BY <2>1, JumpKeepsSection
<1>b. CASE labelNode[l] = Null
  <2>1. /\ InsertNodeAfter(cursor)
        /\ kind' = [kind EXCEPT ![count'] = "Label"]
        /\ labelNode' = [labelNode EXCEPT ![l] = count']
        /\ data' = data /\ alignment' = alignment /\ calculatedOffset' = calculatedOffset
        /\ isFinalized' = isFinalized /\ buffer' = buffer /\ cursorOffset' = cursorOffset
    BY <1>b DEF BindLabel
  <2>2. /\ count \in Nat /\ count' = count + 1 /\ count' \in Nodes
        /\ \A n \in 1 .. count : n \in Nodes /\ n # count'
        /\ \A m \in Labels : labelNode[m] \in 0 .. count /\ labelNode[m] # count'
        /\ labelNode \in [Labels -> 0 .. count']
    BY <2>1, NewNode
  <2>3. /\ labelNode'[l] = count'
        /\ \A m \in Labels : m # l => labelNode'[m] = labelNode[m]
        /\ labelNode' \in [Labels -> 0 .. count']
    BY <2>1, <2>2
  <2>4. /\ kind' \in [Nodes -> Kinds] /\ kind'[count'] = "Label"
        /\ \A n \in Nodes : n # count' => kind'[n] = kind[n]
    BY <2>1, <2>2 DEF SectionInv, NodesInv, Kinds
  <2>5. NodesInv'
    <3>1. ASSUME NEW n \in Nodes, kind'[n] = "Label" PROVE \E m \in Labels : labelNode'[m] = n
      <4>1. CASE n = count'
        BY <2>3, <4>1
      <4>2. CASE n # count'
        <5>1. kind[n] = "Label"
          BY <2>4, <3>1, <4>2
        <5>2. PICK m \in Labels : labelNode[m] = n
          BY <5>1 DEF SectionInv, NodesInv
        <5>3. m # l
          BY <1>b, <5>2, NodesAssumption DEF Nodes, Null
        <5> QED BY <2>3, <5>2, <5>3
      <4> QED BY <4>1, <4>2
    <3>2. ASSUME NEW n \in Nodes, kind'[n] = "Align" PROVE alignment[n] \in Alignments
      BY <2>4, <3>2 DEF SectionInv, NodesInv
    <3> QED BY <2>1, <2>4, <3>1, <3>2 DEF SectionInv, NodesInv
  <2>6. LabelsInv'
    <3>1. ASSUME NEW m \in Labels, labelNode'[m] # Null PROVE kind'[labelNode'[m]] = "Label"
      <4>1. CASE m = l
        BY <2>3, <2>4, <4>1
      <4>2. CASE m # l
        <5>1. labelNode'[m] = labelNode[m] /\ labelNode[m] \in Nodes /\ labelNode[m] # count'
          BY <2>2, <2>3, <3>1, <4>2 DEF Null
        <5> QED BY <2>4, <3>1, <5>1 DEF SectionInv, LabelsInv
      <4> QED BY <4>1, <4>2
    <3>2. ASSUME NEW m \in Labels, NEW h \in Labels, labelNode'[m] = labelNode'[h], labelNode'[m] # Null
          PROVE  m = h
      BY <2>2, <2>3, <3>2 DEF SectionInv, LabelsInv
    <3> QED BY <2>3, <3>1, <3>2 DEF LabelsInv
  <2>7. ASSUME NEW n \in 1 .. count PROVE ItemsFn'[n] = ItemsFn[n]
    <3>1. n \in Nodes /\ kind'[n] = kind[n]
      BY <2>2, <2>4
    <3>2. \A m \in Labels : labelNode[m] = n => labelNode'[m] = n
      BY <1>b, <2>3 DEF Null
    <3> QED BY <2>1, <2>5, <2>6, <3>1, <3>2, ItemsKept DEF SectionInv
  <2>8. ItemsFn'[count'] = <<Text!Mark(l)>>
    <3>1. ItemsAreSo'
      BY <2>5, <2>6, ItemsBySortNext
    <3> QED BY <2>2, <2>3, <2>4, <3>1 DEF ItemsAreSo
  <2>9. AddressNow' = AddressNow
    <3> SUFFICES ASSUME NEW m \in Labels PROVE AddressNow'[m] = AddressNow[m]
      BY DEF AddressNow
    <3>1. CASE m = l
      <4>1. count' > count /\ count' # Null
        BY <2>2, NodesAssumption DEF Nodes, Null
      <4>2. calculatedOffset[count'] = 0
        BY <2>2, <4>1 DEF SectionInv, AddressInv
      <4> QED BY <1>b, <2>1, <2>3, <3>1, <4>1, <4>2 DEF AddressNow
    <3>2. CASE m # l
      BY <2>1, <2>3, <3>2 DEF AddressNow
    <3> QED BY <3>1, <3>2
  <2>10. ~isFinalized => cursorOffset' = Len(Text!Layout(Written \o <<Text!Mark(l)>>))
    <3>1. Written \in Seq(TextItems)
      BY WrittenBegins DEF SectionInv, LinksInv, Allocated, HasChain, WrittenFits
    <3>2. Text!Layout(Written \o <<Text!Mark(l)>>) = Text!Layout(Written)
      BY <3>1, LayoutMark
    <3> QED BY <2>1, <3>2 DEF SectionInv, OffsetInv
  <2>11. cursorOffset' \in Nat
    BY <2>1 DEF SectionInv, OffsetInv
  <2>12. SectionInv' /\ Text!Write(<<Text!Mark(l)>>)
    BY <2>1, <2>5, <2>6, <2>7, <2>8, <2>9, <2>10, <2>11, InsertKeepsSection
  <2>13. Text!Places(TextNow, l) = {}
    <3>1. PICK c : IsChain(c)
      BY DEF SectionInv, HasChain
    <3> QED BY <1>b, <3>1, LabelPlaces DEF SectionInv
  <2> QED BY <2>12, <2>13
<1> QED BY <1>a, <1>b

\* Bytes in the order of the section are a run of the text.
LEMMA OrderedRuns ==
    ASSUME NEW bytes \in Runs, NEW e
    PROVE  InOrder(bytes, e) \in Runs /\ InOrder(bytes, e) \in Seq(Bytes)
BY RunsAssumption DEF InOrder

\* The same for what is patched in, whose length stays.
LEMMA OrderedFixups ==
    ASSUME NEW bytes \in Fixups, NEW e
    PROVE  /\ InOrder(bytes, e) \in Fixups /\ InOrder(bytes, e) \in Seq(Bytes)
           /\ Len(InOrder(bytes, e)) = Len(bytes)
<1>1. bytes \in Seq(Bytes) /\ Reverse(bytes) \in Fixups /\ Fixups \subseteq Seq(Bytes)
  BY RunsAssumption
<1>2. Len(Reverse(bytes)) = Len(bytes)
  BY <1>1 DEF Reverse
<1> QED BY <1>1, <1>2 DEF InOrder

\* The running offset after a run of bytes is the size of what is written then.
LEMMA BytesLand ==
    ASSUME SectionInv, NEW b \in Seq(Bytes), cursorOffset' = cursorOffset + Len(b)
    PROVE  /\ ~isFinalized => cursorOffset' = Len(Text!Layout(Written \o ByteItems(b)))
           /\ cursorOffset' \in Nat
<1>1. Written \in Seq(TextItems)
  BY WrittenBegins DEF SectionInv, LinksInv, Allocated, HasChain, WrittenFits
<1>2. Text!Layout(Written \o ByteItems(b)) = Text!Layout(Written) \o b
  BY <1>1, LayoutBytes
<1>3. Text!Layout(Written) \in Seq(Bytes)
  BY <1>1, LayoutType
<1>4. Len(Text!Layout(Written) \o b) = Len(Text!Layout(Written)) + Len(b)
  BY <1>3
<1>5. Len(b) \in Nat
  OBVIOUS
<1> QED BY <1>2, <1>4, <1>5 DEF SectionInv, OffsetInv

\* The emit functions write bytes, into the node at the cursor or a new one.
LEMMA EmitKeepsSection ==
    ASSUME SectionInv, NEW b \in Seq(Bytes), EmitBytes(b)
    PROVE  SectionInv' /\ Text!Write(ByteItems(b))
<1>0. /\ cursorOffset' = cursorOffset + Len(b)
      /\ alignment' = alignment /\ calculatedOffset' = calculatedOffset /\ isFinalized' = isFinalized
      /\ buffer' = buffer /\ labelNode' = labelNode
  BY DEF EmitBytes
<1>l. /\ ~isFinalized => cursorOffset' = Len(Text!Layout(Written \o ByteItems(b)))
      /\ cursorOffset' \in Nat
  BY <1>0, BytesLand
<1>t. AddressNow' = AddressNow
  BY <1>0 DEF AddressNow
<1>a. CASE kind[cursor] = "Data"
  <2>1. /\ data' = [data EXCEPT ![cursor] = @ \o b]
        /\ kind' = kind /\ prev' = prev /\ next' = next /\ count' = count
        /\ head' = head /\ tail' = tail /\ cursor' = cursor
    BY <1>a DEF EmitBytes
  <2>2. cursor \in Nodes /\ data \in [Nodes -> Seq(Bytes)] /\ data[cursor] \in Seq(Bytes)
    BY NodesAssumption DEF SectionInv, LinksInv, Allocated, NodesInv, Nodes
  <2>3. data' \in [Nodes -> Seq(Bytes)]
    <3>1. data[cursor] \o b \in Seq(Bytes)
      BY <2>2
    <3> QED BY <2>1, <2>2, <3>1
  <2>4. NodesInv'
    BY <1>0, <2>1, <2>3 DEF SectionInv, NodesInv
  <2>5. LabelsInv'
    BY <1>0, <2>1 DEF SectionInv, LabelsInv
  <2>6. PICK c : IsChain(c)
    BY DEF SectionInv, HasChain
  <2>7. IsChain(c)'
    BY <2>1, <2>6 DEF IsChain
  <2>8. PICK k \in 1 .. count : cursor = c[k]
    BY <2>6 DEF IsChain, SectionInv, LinksInv, Allocated
  <2>9. ASSUME NEW n \in 1 .. count, n # cursor PROVE ItemsFn'[n] = ItemsFn[n]
    <3>1. n \in Nodes
      BY NodesAssumption DEF SectionInv, LinksInv, Allocated, Nodes
    <3>2. data'[n] = data[n]
      BY <2>1, <2>2, <2>9, <3>1
    <3> QED BY <1>0, <2>1, <2>4, <2>5, <3>1, <3>2, ItemsKept DEF SectionInv
  <2>10. ItemsFn'[cursor] = ItemsFn[cursor] \o ByteItems(b)
    <3>1. ItemsAreSo /\ ItemsAreSo'
      BY <2>4, <2>5, ItemsBySort, ItemsBySortNext DEF SectionInv
    <3>2. ItemsFn[cursor] = ByteItems(data[cursor]) /\ ItemsFn'[cursor] = ByteItems(data'[cursor])
      BY <1>a, <2>1, <2>2, <3>1 DEF ItemsAreSo
    <3>3. data'[cursor] = data[cursor] \o b
      BY <2>1, <2>2
    <3>4. ByteItems(data[cursor] \o b) = ByteItems(data[cursor]) \o ByteItems(b)
      BY <2>2 DEF ByteItems
    <3> QED BY <3>2, <3>3, <3>4
  <2>11. ByteItems(b) \in Seq(TextItems)
    BY ByteItemsType
  <2>12. Writes(ByteItems(b))
    BY <2>1, <2>4, <2>6, <2>7, <2>8, <2>9, <2>10, <2>11, NodeExtended DEF SectionInv
  <2>13. ~isFinalized => cursorOffset' = Len(Text!Layout(Written'))
    BY <1>l, <2>12 DEF Writes
  <2>14. OffsetInv'
    BY <1>0, <1>l, <2>13 DEF SectionInv, OffsetInv
  <2>15. AddressInv'
    BY <1>0, <2>1 DEF SectionInv, AddressInv
  <2>16. LinksInv'
    BY <1>0, <2>1 DEF SectionInv, LinksInv, Allocated, LinksAgree, Null
  <2>17. HasChain'
    BY <2>7 DEF HasChain
  <2>18. Text!Write(ByteItems(b))
    BY <1>0, <1>t, <2>12, <2>13, WriteStep DEF SectionInv
  <2> QED BY <2>4, <2>5, <2>14, <2>15, <2>16, <2>17, <2>18 DEF SectionInv
<1>b. CASE kind[cursor] # "Data"
  <2>1. /\ InsertNodeAfter(cursor)
        /\ kind' = [kind EXCEPT ![count'] = "Data"]
        /\ data' = [data EXCEPT ![count'] = b]
    BY <1>b DEF EmitBytes
  <2>2. /\ count \in Nat /\ count' = count + 1 /\ count' \in Nodes
        /\ \A n \in 1 .. count : n \in Nodes /\ n # count'
        /\ \A l \in Labels : labelNode[l] \in 0 .. count /\ labelNode[l] # count'
        /\ labelNode \in [Labels -> 0 .. count']
    BY <2>1, NewNode
  <2>3. NodesInv'
    BY <1>0, <2>1, <2>2 DEF SectionInv, NodesInv, Kinds
  <2>4. LabelsInv'
    <3>1. \A l \in Labels : labelNode[l] # Null => kind'[labelNode[l]] = "Label"
      <4> SUFFICES ASSUME NEW l \in Labels, labelNode[l] # Null
                   PROVE  kind'[labelNode[l]] = "Label"
        OBVIOUS
      <4>1. labelNode[l] \in Nodes /\ labelNode[l] # count'
        BY <2>2 DEF Null
      <4> QED BY <2>1, <4>1 DEF SectionInv, LabelsInv, NodesInv
    <3> QED BY <1>0, <2>2, <3>1 DEF SectionInv, LabelsInv
  <2>5. ASSUME NEW n \in 1 .. count PROVE ItemsFn'[n] = ItemsFn[n]
    <3>1. n \in Nodes /\ kind'[n] = kind[n] /\ data'[n] = data[n]
      BY <2>1, <2>2 DEF SectionInv, NodesInv
    <3> QED BY <1>0, <2>3, <2>4, <3>1, ItemsKept DEF SectionInv
  <2>6. ItemsFn'[count'] = ByteItems(b)
    <3>1. ItemsAreSo'
      BY <2>3, <2>4, ItemsBySortNext
    <3>2. kind'[count'] = "Data" /\ data'[count'] = b
      BY <2>1, <2>2 DEF SectionInv, NodesInv
    <3> QED BY <2>2, <3>1, <3>2 DEF ItemsAreSo
  <2> QED BY <1>0, <1>l, <1>t, <2>1, <2>3, <2>4, <2>5, <2>6, InsertKeepsSection
<1> QED BY <1>a, <1>b

\* finalize lays the text out and notes where each label is in it.
LEMMA FinalizeKeepsSection ==
    ASSUME SectionInv, Finalize
    PROVE  SectionInv' /\ Text!LayOut
<1>1. /\ UNCHANGED stream /\ labelNode' = labelNode /\ cursor' = cursor
      /\ cursorOffset' = Len(buffer') /\ isFinalized' = TRUE
  BY DEF Finalize
<1>2. /\ NodesInv' /\ LabelsInv' /\ HasChain' /\ TextNow' = TextNow
      /\ \A c : IsChain(c) => IsChain(c)'
      /\ \A s \in Seq(Nodes) : TextFn'[s] = TextFn[s]
  BY <1>1, StreamKept
<1>3. PICK c : IsChain(c)
  BY DEF SectionInv, HasChain
<1>4. /\ c \in Seq(Nodes) /\ Len(c) = count /\ Chain = c /\ TextNow = TextFn[c]
      /\ \A i, j \in 1 .. Len(c) : c[i] = c[j] => i = j
      /\ \A i \in 1 .. count : c[i] \in Nodes /\ c[i] \in 1 .. count
  <2>1. \A i, j \in 1 .. count : c[i] = c[j] => i = j
    BY <1>3 DEF IsChain
  <2> QED BY <1>3, <2>1, ChainType, ChainFollowsLinks, TextIsRead DEF ReadsText
<1>5. buffer' = LaidFn[c].bytes /\ calculatedOffset' = LaidFn[c].offset
  BY <1>4 DEF Finalize, LaidFn, FlatBase
<1>6. Lays(c) /\ LaidFn[c] \in Flats
  BY <1>4, FinalizeLays DEF SectionInv, AddressInv
<1>7. buffer' \in Seq(Bytes) /\ calculatedOffset' \in [Nodes -> Nat]
  BY <1>5, <1>6 DEF Flats
<1>8. buffer' = Text!Layout(TextNow)
  BY <1>4, <1>5, <1>6 DEF Lays
<1>9. LinksInv'
  BY <1>1 DEF stream, SectionInv, LinksInv, Allocated, LinksAgree, Null
<1>10. OffsetInv'
  <2>1. Len(buffer') \in Nat
    BY <1>7
  <2> QED BY <1>1, <1>7, <2>1 DEF OffsetInv
<1>11. AddressInv'
  <2>1. ASSUME NEW n \in Nodes, n > count PROVE calculatedOffset'[n] = 0
    <3>0. count \in Nat
      BY NodesAssumption DEF SectionInv, LinksInv, Allocated, Nodes
    <3>1. \A i \in 1 .. Len(c) : c[i] # n
      BY <1>4, <2>1, <3>0, NodesAssumption DEF Nodes
    <3>2. LaidFn[c].offset[n] = calculatedOffset[n]
      BY <1>6, <3>1 DEF Lays
    <3> QED BY <1>5, <2>1, <3>2 DEF SectionInv, AddressInv
  <2> QED BY <1>1, <1>7, <2>1 DEF AddressInv, stream
<1>12. ASSUME NEW l \in Labels
       PROVE  AddressNow'[l] = IF Text!Places(TextNow, l) = {} THEN Text!NoAddress
                               ELSE Text!Offset(TextNow, CHOOSE k \in Text!Places(TextNow, l) : TRUE)
  <2>1. CASE labelNode[l] = Null
    <3>1. Text!Places(TextNow, l) = {}
      BY <1>3, <2>1, LabelPlaces DEF SectionInv
    <3> QED BY <1>1, <2>1, <3>1 DEF AddressNow, Text!NoAddress, Null
  <2>2. CASE labelNode[l] # Null
    <3>1. labelNode[l] \in 1 .. count
      BY <2>2, NodesAssumption DEF SectionInv, LabelsInv, LinksInv, Allocated, Null, Nodes
    <3>2. PICK k \in 1 .. count : labelNode[l] = c[k]
      BY <1>3, <3>1 DEF IsChain
    <3>3. /\ Text!Places(TextNow, l) # {}
          /\ \A j \in Text!Places(TextNow, l) : SubSeq(TextNow, 1, j) = TextFn[UpTo(c, k)]
      BY <1>3, <3>2, LabelPlaces DEF SectionInv
    <3>4. \A j \in Text!Places(TextNow, l) : Text!Offset(TextNow, j) = Len(Text!Layout(TextFn[UpTo(c, k)]))
      BY <3>3 DEF Text!Offset
    <3>5. kind[c[k]] = "Label"
      BY <2>2, <3>2 DEF SectionInv, LabelsInv
    <3>6. calculatedOffset'[c[k]] = Len(Text!Layout(TextFn[UpTo(c, k)]))
      BY <1>4, <1>5, <1>6, <3>5 DEF Lays
    <3>7. AddressNow'[l] = calculatedOffset'[c[k]]
      BY <1>1, <2>2, <3>2 DEF AddressNow, Null
    <3> QED BY <3>3, <3>4, <3>6, <3>7
  <2> QED BY <2>1, <2>2
<1>13. Written' = Written
  <2>1. PICK k \in 1 .. count : cursor = c[k]
    BY <1>3 DEF IsChain, SectionInv, LinksInv, Allocated
  <2>2. IsChain(c)' /\ cursor' = c[k] /\ k \in 1 .. count'
    BY <1>1, <1>2, <1>3, <2>1 DEF stream
  <2>3. Written = TextFn[UpTo(c, k)] /\ Written' = TextFn'[UpTo(c, k)]
    BY <1>3, <2>1, <2>2, TextIsRead, TextIsReadNext DEF ReadsText
  <2>4. UpTo(c, k) \in Seq(Nodes)
    BY <1>4, <2>1, NodesSplit
  <2> QED BY <1>2, <2>3, <2>4
<1>14. Text!LayOut
  <2>1. AddressNow' = [l \in Labels |->
             IF Text!Places(TextNow, l) = {} THEN Text!NoAddress
             ELSE Text!Offset(TextNow, CHOOSE k \in Text!Places(TextNow, l) : TRUE)]
    BY <1>12 DEF AddressNow
  <2>2. GetCurrentOffset' = Len(buffer')
    BY <1>1 DEF GetCurrentOffset
  <2> QED BY <1>1, <1>2, <1>8, <1>13, <2>1, <2>2 DEF Text!LayOut, TextNow, Written, AddressNow
<1> QED BY <1>2, <1>9, <1>10, <1>11, <1>14 DEF SectionInv

\* The patch functions replace bytes of the image and nothing else.
LEMMA PatchKeepsSection ==
    ASSUME SectionInv, NEW at \in 0 .. Len(buffer), NEW bytes \in Fixups, NEW e \in Endiannesses,
           Patch(at, bytes, e)
    PROVE  /\ SectionInv'
           /\ isFinalized /\ Text!Patch(at, InOrder(bytes, e))
<1> PICK b : b = InOrder(bytes, e)
  OBVIOUS
<1>1. b \in Fixups /\ b \in Seq(Bytes) /\ Len(b) = Len(bytes)
  BY OrderedFixups
<1>2. /\ isFinalized /\ isFinalized' = isFinalized /\ at + Len(b) <= Len(buffer)
      /\ buffer' = [k \in 1 .. Len(buffer) |->
                       IF k \in at + 1 .. at + Len(b) THEN b[k - at] ELSE buffer[k]]
      /\ UNCHANGED stream /\ labelNode' = labelNode /\ cursor' = cursor
      /\ calculatedOffset' = calculatedOffset /\ cursorOffset' = cursorOffset
  BY <1>1 DEF Patch
<1>3. /\ NodesInv' /\ LabelsInv' /\ HasChain' /\ TextNow' = TextNow
      /\ \A c : IsChain(c) => IsChain(c)'
      /\ \A s \in Seq(Nodes) : TextFn'[s] = TextFn[s]
  BY <1>2, StreamKept
<1>4. LinksInv'
  BY <1>2 DEF stream, SectionInv, LinksInv, Allocated, LinksAgree, Null
<1>5. AddressInv'
  BY <1>2 DEF stream, SectionInv, AddressInv
<1>6. buffer' \in Seq(Bytes) /\ Len(buffer') = Len(buffer)
  <2>1. buffer \in Seq(Bytes) /\ Len(buffer) \in Nat /\ Len(b) \in Nat /\ at \in Nat
    BY <1>1 DEF SectionInv, OffsetInv
  <2>2. ASSUME NEW k \in 1 .. Len(buffer), k \in at + 1 .. at + Len(b) PROVE b[k - at] \in Bytes
    <3>1. k - at \in 1 .. Len(b)
      BY <2>1, <2>2
    <3> QED BY <1>1, <3>1
  <2>3. \A k \in 1 .. Len(buffer) : buffer[k] \in Bytes
    BY <2>1
  <2>4. buffer' \in [1 .. Len(buffer) -> Bytes]
    BY <1>2, <2>2, <2>3
  <2> QED BY <2>1, <2>4
<1>7. OffsetInv'
  BY <1>2, <1>6 DEF SectionInv, OffsetInv
<1>8. AddressNow' = AddressNow
  BY <1>2 DEF AddressNow
<1>9. Written' = Written
  <2>1. PICK c : IsChain(c)
    BY DEF SectionInv, HasChain
  <2>2. PICK k \in 1 .. count : cursor = c[k]
    BY <2>1 DEF IsChain, SectionInv, LinksInv, Allocated
  <2>3. IsChain(c)' /\ cursor' = c[k] /\ k \in 1 .. count'
    BY <1>2, <1>3, <2>1, <2>2 DEF stream
  <2>4. Written = TextFn[UpTo(c, k)] /\ Written' = TextFn'[UpTo(c, k)]
    BY <2>1, <2>2, <2>3, TextIsRead, TextIsReadNext DEF ReadsText
  <2>5. UpTo(c, k) \in Seq(Nodes)
    <3>1. c \in Seq(Nodes) /\ k \in 1 .. Len(c)
      BY <2>1, ChainType
    <3> QED BY <3>1, NodesSplit
  <2> QED BY <1>3, <2>4, <2>5
<1>10. Text!Patch(at, b)
  <2>1. buffer # Text!NotLaidOut
    BY ImageKnown DEF SectionInv, OffsetInv
  <2>2. GetCurrentOffset' = GetCurrentOffset
    BY <1>2, <1>6 DEF GetCurrentOffset
  <2> QED BY <1>2, <1>3, <1>8, <1>9, <2>1, <2>2 DEF Text!Patch, TextNow, Written, AddressNow
<1> QED BY <1>2, <1>3, <1>4, <1>5, <1>7, <1>10 DEF SectionInv

\* What the text sees stays when nothing happens.
LEMMA StutterKeepsSection ==
    ASSUME SectionInv, UNCHANGED vars
    PROVE  SectionInv' /\ UNCHANGED Text!textVars
<1>1. /\ UNCHANGED stream /\ labelNode' = labelNode /\ cursor' = cursor
      /\ calculatedOffset' = calculatedOffset /\ cursorOffset' = cursorOffset
      /\ isFinalized' = isFinalized /\ buffer' = buffer
  BY DEF vars
<1>2. /\ NodesInv' /\ LabelsInv' /\ HasChain' /\ TextNow' = TextNow
      /\ \A c : IsChain(c) => IsChain(c)'
      /\ \A s \in Seq(Nodes) : TextFn'[s] = TextFn[s]
  BY <1>1, StreamKept
<1>3. LinksInv'
  BY <1>1 DEF stream, SectionInv, LinksInv, Allocated, LinksAgree, Null
<1>4. AddressInv'
  BY <1>1 DEF stream, SectionInv, AddressInv
<1>5. Written' = Written
  <2>1. PICK c : IsChain(c)
    BY DEF SectionInv, HasChain
  <2>2. PICK k \in 1 .. count : cursor = c[k]
    BY <2>1 DEF IsChain, SectionInv, LinksInv, Allocated
  <2>3. IsChain(c)' /\ cursor' = c[k] /\ k \in 1 .. count'
    BY <1>1, <1>2, <2>1, <2>2 DEF stream
  <2>4. Written = TextFn[UpTo(c, k)] /\ Written' = TextFn'[UpTo(c, k)]
    BY <2>1, <2>2, <2>3, TextIsRead, TextIsReadNext DEF ReadsText
  <2>5. UpTo(c, k) \in Seq(Nodes)
    <3>1. c \in Seq(Nodes) /\ k \in 1 .. Len(c)
      BY <2>1, ChainType
    <3> QED BY <3>1, NodesSplit
  <2> QED BY <1>2, <2>4, <2>5
<1>6. OffsetInv'
  BY <1>1, <1>5 DEF SectionInv, OffsetInv
<1>7. UNCHANGED Text!textVars
  <2>1. AddressNow' = AddressNow /\ GetCurrentOffset' = GetCurrentOffset
    BY <1>1 DEF AddressNow, GetCurrentOffset
  <2> QED BY <1>1, <1>2, <1>5, <2>1 DEF Text!textVars, TextNow, Written, AddressNow
<1> QED BY <1>2, <1>3, <1>4, <1>6, <1>7 DEF SectionInv

\* Every operation of the section keeps the invariant and is one of the text's.
LEMMA StepKeepsSection == SectionInv /\ [Next]_vars => SectionInv' /\ [Text!Next]_(Text!textVars)
<1> SUFFICES ASSUME SectionInv, [Next]_vars
             PROVE  SectionInv' /\ [Text!Next]_(Text!textVars)
  OBVIOUS
<1>1. ASSUME NEW bytes \in Runs, NEW e \in Endiannesses, EmitBytesWithEndian(bytes, e)
      PROVE  SectionInv' /\ Text!Next
  <2> PICK b : b = InOrder(bytes, e)
    OBVIOUS
  <2>1. b \in Runs /\ b \in Seq(Bytes) /\ EmitBytes(b)
    BY <1>1, OrderedRuns DEF EmitBytesWithEndian
  <2>2. SectionInv' /\ Text!Write(ByteItems(b))
    BY <2>1, EmitKeepsSection
  <2>3. ByteItems(b) = [k \in DOMAIN b |-> Text!Byte(b[k])]
    BY <2>1 DEF ByteItems
  <2> QED BY <2>1, <2>2, <2>3 DEF Text!Next
<1>2. ASSUME NEW a \in Alignments, AlignTo(a) PROVE SectionInv' /\ Text!Next
  BY <1>2, AlignKeepsSection DEF Text!Next
<1>3. ASSUME NEW l \in Labels, BindLabel(l) PROVE SectionInv' /\ Text!Next
  BY <1>3, BindKeepsSection DEF Text!Next, TextNow
<1>4. CASE ResetCursorToEnd
  <2>1. tail \in 1 .. count /\ SetCursor(tail)
    BY <1>4 DEF ResetCursorToEnd, SectionInv, LinksInv, Allocated
  <2> QED BY <2>1, JumpKeepsSection DEF Text!Next
<1>5. CASE Finalize
  BY <1>5, FinalizeKeepsSection DEF Text!Next
<1>6. ASSUME NEW at \in 0 .. Len(buffer), NEW bytes \in Fixups, NEW e \in Endiannesses,
             Patch(at, bytes, e)
      PROVE  SectionInv' /\ Text!Next
  <2>1. SectionInv' /\ isFinalized /\ Text!Patch(at, InOrder(bytes, e))
    BY <1>6, PatchKeepsSection
  <2>2. InOrder(bytes, e) \in Fixups
    BY OrderedFixups
  <2> QED BY <2>1, <2>2 DEF Text!Next
<1>7. CASE UNCHANGED vars
  BY <1>7, StutterKeepsSection
<1> QED BY <1>1, <1>2, <1>3, <1>4, <1>5, <1>6, <1>7 DEF Next

\* The running offset of the invariant is what a replay gives.
LEMMA SectionCounts == SectionInv => CursorOffsetExact
<1> SUFFICES ASSUME SectionInv, ~isFinalized PROVE cursorOffset = ComputeOffsetTo(cursor)
  BY DEF CursorOffsetExact
<1>1. PICK c : IsChain(c)
  BY DEF SectionInv, HasChain
<1>2. PICK k \in 1 .. count : cursor = c[k]
  BY <1>1 DEF IsChain, SectionInv, LinksInv, Allocated
<1>3. ComputeOffsetTo(cursor) = Len(Text!Layout(TextFn[UpTo(c, k)]))
  BY <1>1, <1>2, ReplayUpTo DEF SectionInv
<1>4. Written = TextFn[UpTo(c, k)]
  BY <1>1, <1>2, WrittenSplit DEF SectionInv
<1> QED BY <1>3, <1>4 DEF SectionInv, OffsetInv

\* "Running byte offset of m_cursor, kept in sync with finalize()": until the
\* section is finalized, the offset that emits and alignments count up and
\* setCursor recomputes is what computeOffsetTo would give for the cursor.
THEOREM CursorOffsetAlwaysExact == Spec => []CursorOffsetExact
<1>1. Init => SectionInv
  BY InitEstablishesSection
<1>2. SectionInv /\ [Next]_vars => SectionInv'
  BY StepKeepsSection
<1> QED BY <1>1, <1>2, SectionCounts, PTL DEF Spec

\* The invariant has the types of the fields in it.
LEMMA SectionTyped == SectionInv => TypeOK
BY DEF SectionInv, LinksInv, Allocated, NodesInv, AddressInv, OffsetInv, TypeOK

\* Whatever is called on a section, its fields keep their types, and the ends
\* and the cursor are nodes of the stream.
THEOREM SectionAlwaysTyped == Spec => []TypeOK
<1>1. Init => SectionInv
  BY InitEstablishesSection
<1>2. SectionInv /\ [Next]_vars => SectionInv'
  BY StepKeepsSection
<1> QED BY <1>1, <1>2, SectionTyped, PTL DEF Spec

\* Every run of a section is a run of a section text: emits, alignments and
\* bindLabel write at the position of the cursor wherever it was sent before,
\* getCurrentOffset tells where the next byte will land, and finalize lays out
\* the text, with the address of every bound label in it.
THEOREM SectionImplementsText == Spec => ImplementsText
<1>1. Init => SectionInv /\ Text!Init
  BY InitEstablishesSection
<1>2. SectionInv /\ [Next]_vars => SectionInv' /\ [Text!Next]_(Text!textVars)
  BY StepKeepsSection
<1> QED BY <1>1, <1>2, PTL DEF Spec, ImplementsText, Text!Spec
=============================================================================
