---------------------------- MODULE LayoutProofs ----------------------------
(***************************************************************************)
(* For every width of a word, every set of sections and every base: what   *)
(* OutputBuilder::build leaves in the image is a sound layout in a stable  *)
(* order that a second build repeats, and compute_offsets succeeds with a  *)
(* sound layout where the word has room for it.                            *)
(***************************************************************************)
EXTENDS Layout, Induction, SequenceTheorems, TLAPS

USE ModulusAssumption

\* A multiple of a divides by a without remainder.
LEMMA MultipleMod ==
  ASSUME NEW a \in Nat \ {0}, NEW q \in Int
  PROVE  (a * q) % a = 0
OBVIOUS

\* Padding by a - v % a reaches the next multiple of a.
LEMMA PaddedAligned ==
  ASSUME NEW v \in Nat, NEW a \in Nat \ {0}
  PROVE  (v + (a - (v % a))) % a = 0
<1> DEFINE q == v \div a
<1>1. v = a * q + (v % a) /\ q \in Int
  OBVIOUS
<1>2. v + (a - (v % a)) = a * (q + 1)
  BY <1>1
<1>3. (a * (q + 1)) % a = 0
  BY <1>1, MultipleMod
<1> QED BY <1>2, <1>3

\* What the check behind align_up buys: a result that is not below the value
\* is the mathematical one, a multiple of the alignment.
LEMMA AlignUpSound ==
  ASSUME NEW v \in Word, NEW a \in Word \ {0}
  PROVE  /\ align_up(v, a) \in Word
         /\ align_up(v, a) >= v => align_up(v, a) % a = 0
<1>1. CASE a <= 1 \/ v % a = 0
  <2>1. align_up(v, a) = v
    BY <1>1 DEF align_up
  <2>2. v % a = 0
    BY <1>1 DEF Word
  <2> QED BY <2>1, <2>2
<1>2. CASE ~(a <= 1 \/ v % a = 0)
  <2> DEFINE pad == a - (v % a)
  <2>1. pad \in 1..Modulus-1
    BY <1>2 DEF Word
  <2>2. align_up(v, a) = (v + pad) % Modulus
    BY <1>2 DEF align_up
  <2>3. CASE v + pad < Modulus
    <3>1. align_up(v, a) = v + pad
      BY <2>1, <2>2, <2>3 DEF Word
    <3>2. (v + pad) % a = 0
      BY PaddedAligned DEF Word
    <3> QED BY <2>1, <2>3, <3>1, <3>2 DEF Word
  <2>4. CASE v + pad >= Modulus
    <3>1. v + pad - Modulus \in Word
      BY <2>1, <2>4 DEF Word
    <3>2. align_up(v, a) = v + pad - Modulus
      BY <2>1, <2>2, <2>4, <3>1 DEF Word
    <3> QED BY <2>1, <3>1, <3>2 DEF Word
  <2> QED BY <2>1, <2>3, <2>4 DEF Word
<1> QED BY <1>1, <1>2

-----------------------------------------------------------------------------
\* Normalized: no alignment is zero once the loop runs.
AlignmentsSet == pc = "placing" => \A i \in DOMAIN inputs : inputs[i].align > 0

\* The cursor is behind everything placed so far.
CursorBehind ==
  pc = "placing" =>
    /\ cursor >= image.base
    /\ \A i \in DOMAIN image.sections :
         image.sections[i].offset + image.sections[i].size <= cursor

\* The inductive invariant. LayoutSound alone says nothing of the cursor, from
\* which the next offset is computed.
IInv == BuilderTypeOK /\ AlignmentsSet /\ CursorBehind /\ LayoutSound

\* A normalization keeps the invariant and brings every vector in order.
LEMMA NormalizeStep ==
  ASSUME NEW b \in Bases, BuilderTypeOK, build(b)
  PROVE  /\ inputs' \in Seq(Input)
         /\ \A i \in DOMAIN inputs' : inputs'[i].align > 0
<1> DEFINE s == Aligned(inputs)
<1>1. /\ DOMAIN s = 1..Len(inputs) /\ Len(inputs) \in Nat
      /\ \A i \in 1..Len(inputs) : inputs[i] \in Input
  BY DEF BuilderTypeOK, Aligned
<1>2. ASSUME NEW i \in 1..Len(inputs) PROVE s[i] \in Input /\ s[i].align > 0
  <2>1. s[i] = [inputs[i] EXCEPT !.align =
                  IF inputs[i].align = 0 THEN 1 ELSE inputs[i].align]
    BY <1>1, <1>2 DEF Aligned
  <2>2. inputs[i] \in Input /\ inputs[i].align \in Word
    BY <1>1, <1>2 DEF Input
  <2>3. CASE inputs[i].align = 0
    <3>1. 1 \in Word
      BY DEF Word
    <3> QED BY SMTT(40), <2>1, <2>2, <2>3, <3>1 DEF Input, Word
  <2>4. CASE inputs[i].align # 0
    BY <2>1, <2>2, <2>4 DEF Input, Word
  <2> QED BY <2>3, <2>4
<1>3. PICK p \in Orders(s) : inputs' = [i \in DOMAIN s |-> s[p[i]]]
  BY DEF build
<1>4. p \in [1..Len(inputs) -> 1..Len(inputs)]
  BY <1>1, <1>3 DEF Orders
<1> HIDE DEF s
<1>5. \A i \in 1..Len(inputs) : p[i] \in 1..Len(inputs)
  BY <1>4
<1>6. inputs' = [i \in 1..Len(inputs) |-> s[p[i]]]
  BY <1>1, <1>3
<1> QED BY <1>1, <1>2, <1>5, <1>6

\* One iteration of the loop: the offset it chooses is aligned, not before the
\* cursor, and the new cursor is behind the section unless the build fails.
LEMMA PlaceStep ==
  ASSUME IInv, PlaceSection
  PROVE  IInv'
<1> DEFINE s == inputs[next]
           a == align_up(cursor, s.align)
           end == (a + s.size) % Modulus
           secs == image.sections
<1>1. /\ next \in DOMAIN inputs
      /\ s \in Input /\ s.align \in Word \ {0} /\ s.size \in Word
      /\ s.kind \in 0..6 /\ s.name \in Nat
  <2>1. /\ next \in Nat \ {0} /\ next <= Len(inputs) /\ pc = "placing"
        /\ inputs \in Seq(Input)
    BY DEF IInv, BuilderTypeOK, PlaceSection
  <2>2. next \in DOMAIN inputs /\ inputs[next] \in Input
    BY <2>1
  <2>3. inputs[next].align > 0
    BY <2>1, <2>2 DEF IInv, AlignmentsSet
  <2> QED BY <2>2, <2>3 DEF Input, Word
<1>2. /\ a \in Word /\ cursor \in Word
      /\ a >= cursor => a % s.align = 0
  BY <1>1, AlignUpSound DEF IInv, BuilderTypeOK
<1>3. end \in Word
  BY <1>1, <1>2 DEF Word
<1>4. /\ secs \in Seq(Entry) /\ image.base \in Word
      /\ \A i \in DOMAIN secs : secs[i].offset \in Word /\ secs[i].size \in Word
  <2>1. image.sections \in Seq(Entry) /\ image.base \in Word
    BY DEF IInv, BuilderTypeOK
  <2>2. \A i \in DOMAIN image.sections : image.sections[i] \in Entry
    BY <2>1
  <2> QED BY <2>1, <2>2 DEF Entry
<1>5. CASE Wraps(a)
  <2>1. /\ pc' = "idle" /\ ok' = FALSE
        /\ UNCHANGED <<image, cursor, next, inputs>>
    BY <1>5 DEF PlaceSection, Return, Wraps
  <2> QED BY <2>1 DEF IInv, BuilderTypeOK, AlignmentsSet, CursorBehind, LayoutSound
<1>6. CASE ~Wraps(a)
  <2> DEFINE e == [kind |-> s.kind, name |-> s.name, size |-> s.size,
                   align |-> s.align, offset |-> a]
  <2>1. /\ image' = [image EXCEPT !.sections = Append(@, e)]
        /\ cursor' = end /\ inputs' = inputs
        /\ \/ end < a /\ pc' = "idle" /\ ok' = FALSE /\ next' = next
           \/ end >= a /\ next' = next + 1 /\ pc' = pc /\ ok' = ok
    BY <1>6 DEF PlaceSection, Return
  <2>2. e \in Entry
    BY <1>1, <1>2 DEF Entry
  <2>3. /\ image'.base = image.base
        /\ image'.sections = Append(secs, e)
        /\ image' \in [base: Word, sections: Seq(Entry)]
    <3>1. image \in [base: Word, sections: Seq(Entry)]
      BY DEF IInv, BuilderTypeOK
    <3>2. Append(secs, e) \in Seq(Entry)
      BY <1>4, <2>2
    <3> QED BY <2>1, <3>1, <3>2
  <2>4. BuilderTypeOK'
    <3>1. next' = next \/ next' = next + 1
      BY <2>1
    <3>2. next' \in Nat \ {0}
      BY <3>1 DEF IInv, BuilderTypeOK
    <3>3. ok' \in BOOLEAN
      BY <2>1, Zenon DEF IInv, BuilderTypeOK
    <3>4. pc' \in {"idle", "placing"}
      BY <2>1, Zenon DEF IInv, BuilderTypeOK
    <3>5. inputs' \in Seq(Input) /\ cursor' \in Word
      BY <1>3, <2>1 DEF IInv, BuilderTypeOK
    <3> QED BY <2>3, <3>2, <3>3, <3>4, <3>5 DEF BuilderTypeOK
  <2>5. AlignmentsSet'
    BY <2>1 DEF IInv, AlignmentsSet, PlaceSection
  <2>6. /\ a >= cursor /\ a % s.align = 0
        /\ cursor >= image.base /\ a >= image.base
        /\ \A i \in DOMAIN secs : secs[i].offset + secs[i].size <= a
    <3>1. a >= cursor
      BY <1>2, <1>6 DEF Wraps, Word
    <3>2. /\ cursor >= image.base
          /\ \A i \in DOMAIN secs : secs[i].offset + secs[i].size <= cursor
      BY DEF IInv, CursorBehind, PlaceSection
    <3> QED BY <1>2, <1>4, <3>1, <3>2 DEF Word
  <2>7. /\ DOMAIN Append(secs, e) = 1..Len(secs)+1
        /\ DOMAIN secs = 1..Len(secs) /\ Len(secs) \in Nat
        /\ \A i \in 1..Len(secs) : Append(secs, e)[i] = secs[i]
        /\ Append(secs, e)[Len(secs)+1] = e
    BY <1>4, <2>2
  <2> HIDE DEF e
  <2>8. e.offset = a /\ e.size = s.size /\ e.align = s.align
    BY DEF e
  <2>9. CursorBehind'
    <3>1. CASE end < a
      <4>1. pc' = "idle"
        BY <1>2, <1>3, <2>1, <3>1 DEF Word
      <4> QED BY <4>1 DEF CursorBehind
    <3>2. CASE end >= a
      <4>1. a + s.size <= end
        BY <1>1, <1>2, <3>2 DEF Word
      <4>2. cursor' >= image'.base
        BY <1>2, <1>3, <1>4, <2>1, <2>3, <2>6, <3>2 DEF Word
      <4>3. \A i \in DOMAIN secs : secs[i].offset + secs[i].size <= end
        BY <1>2, <1>3, <1>4, <2>6, <3>2 DEF Word
      <4> QED BY <2>1, <2>3, <2>7, <2>8, <4>1, <4>2, <4>3 DEF CursorBehind
    <3> QED BY <1>2, <1>3, <3>1, <3>2 DEF Word
  <2>10. LayoutSound'
    <3>1. /\ \A i \in DOMAIN secs :
               /\ secs[i].offset >= image.base
               /\ secs[i].align > 0 /\ secs[i].offset % secs[i].align = 0
          /\ \A i, j \in DOMAIN secs :
               i < j => secs[i].offset + secs[i].size <= secs[j].offset
      BY DEF IInv, LayoutSound
    <3>2. s.align > 0
      BY <1>1 DEF Word
    <3> QED BY <2>3, <2>6, <2>7, <2>8, <3>1, <3>2 DEF LayoutSound
  <2> QED BY <2>4, <2>5, <2>9, <2>10 DEF IInv
<1> QED BY <1>5, <1>6

\* In every reachable state the cursor is behind everything placed so far.
LEMMA BuilderInvariant == Spec => []IInv
<1>1. Init => IInv
  <2> SUFFICES ASSUME Init PROVE IInv
    OBVIOUS
  <2>1. image = [base |-> 0, sections |-> << >>]
    BY DEF Init, NoImage
  <2>2. BuilderTypeOK
    <3>1. ok \in BOOLEAN
      BY Zenon DEF Init
    <3>2. image \in [base: Word, sections: Seq(Entry)]
      BY <2>1 DEF Word
    <3>3. inputs \in Seq(Input) /\ cursor \in Word /\ next \in Nat \ {0}
      BY DEF Init, Word
    <3> QED BY <3>1, <3>2, <3>3 DEF Init, BuilderTypeOK
  <2>3. AlignmentsSet /\ CursorBehind
    BY DEF Init, AlignmentsSet, CursorBehind
  <2>4. LayoutSound
    BY <2>1 DEF LayoutSound
  <2> QED BY <2>2, <2>3, <2>4 DEF IInv
<1>2. IInv /\ [Next]_vars => IInv'
  <2> SUFFICES ASSUME IInv, [Next]_vars PROVE IInv'
    OBVIOUS
  <2>1. ASSUME NEW s \in Sections, add_section(s) PROVE IInv'
    <3>1. s \in Section
      BY BuilderAssumption
    <3>2. inputs' \in Seq(Input)
      BY <2>1, <3>1 DEF add_section, IInv, BuilderTypeOK, Section, Input
    <3> QED
      BY <2>1, <3>2
      DEF add_section, IInv, BuilderTypeOK, AlignmentsSet, CursorBehind, LayoutSound
  <2>2. ASSUME NEW b \in Bases, build(b) PROVE IInv'
    <3>1. /\ inputs' \in Seq(Input)
          /\ \A i \in DOMAIN inputs' : inputs'[i].align > 0
      BY <2>2, NormalizeStep DEF IInv
    <3>2. /\ image' = [base |-> b, sections |-> << >>]
          /\ cursor' = b /\ next' = 1 /\ pc' = "placing" /\ ok' = ok
      BY <2>2 DEF build, StartImage
    <3>3. b \in Word
      BY BuilderAssumption
    <3> QED
      BY <3>1, <3>2, <3>3
      DEF IInv, BuilderTypeOK, AlignmentsSet, CursorBehind, LayoutSound, Word
  <2>3. CASE PlaceSection
    BY <2>3, PlaceStep
  <2>4. CASE FinishBuild
    BY <2>4
    DEF FinishBuild, Return, IInv, BuilderTypeOK, AlignmentsSet, CursorBehind, LayoutSound
  <2>5. CASE UNCHANGED vars
    BY <2>5 DEF vars, IInv, BuilderTypeOK, AlignmentsSet, CursorBehind, LayoutSound
  <2> QED BY <2>1, <2>2, <2>3, <2>4, <2>5 DEF Next
<1> QED BY <1>1, <1>2, PTL DEF Spec

\* Whatever is added and however often the builder is built, the image it
\* leaves, also after a failed build, has its sections behind the base,
\* aligned, in order and disjoint, for every width of the offsets.
THEOREM LayoutCorrect == Spec => []LayoutSound
<1>1. IInv => LayoutSound
  BY DEF IInv
<1> QED BY <1>1, BuilderInvariant, PTL

-----------------------------------------------------------------------------
\* s is normalized: in order and without a zero alignment.
Normal(s) ==
  /\ \A i \in DOMAIN s : s[i].align > 0
  /\ \A i, j \in DOMAIN s : i < j => ~Less(s[j], s[i])

\* Of sections with equal keys the one with the lower number comes first.
ById(s) ==
  /\ \A i \in DOMAIN s : s[i].id < Len(s)
  /\ \A i, j \in DOMAIN s :
       i < j /\ ~Less(s[i], s[j]) /\ ~Less(s[j], s[i]) => s[i].id < s[j].id

\* t is s rearranged by p in a stable order.
LEMMA StableTurn ==
  ASSUME NEW s \in Seq(Input), NEW n \in Nat, n = Len(s), NEW p \in Orders(s),
         NEW t \in [1..n -> Input], \A i \in 1..n : t[i] = s[p[i]],
         ById(s)
  PROVE  ById(t) /\ \A i, j \in 1..n : i < j => ~Less(t[j], t[i])
<1>1. DOMAIN s = 1..n /\ s \in [1..n -> Input]
  BY LenProperties
<1>2. p \in [1..n -> 1..n] /\ \A i, j \in 1..n : i < j => Before(s, p[i], p[j])
  BY <1>1 DEF Orders
<1>3. \A x, y \in Input : ~(Less(x, y) /\ Less(y, x))
  BY DEF Less, Input
<1>4. ASSUME NEW i \in 1..n, NEW j \in 1..n, i < j
      PROVE  ~Less(t[j], t[i]) /\ (~Less(t[i], t[j]) => t[i].id < t[j].id)
  <2>1. PICK a \in 1..n, b \in 1..n : a = p[i] /\ b = p[j]
    BY <1>2
  <2>2. PICK x \in Input, y \in Input : x = s[a] /\ y = s[b] /\ t[i] = x /\ t[j] = y
    BY <1>1, <2>1
  <2>3. Less(x, y) \/ (~Less(y, x) /\ a < b)
    BY <1>2, <1>4, <2>1, <2>2 DEF Before
  <2>4. ~Less(y, x)
    BY <1>3, <2>3
  <2>5. ASSUME ~Less(x, y) PROVE x.id < y.id
    BY <1>1, <2>2, <2>3, <2>4, <2>5 DEF ById
  <2> QED BY <2>2, <2>4, <2>5
<1>5. DOMAIN t = 1..n /\ Len(t) = n /\ \A i \in 1..n : t[i].id < n
  <2>1. ASSUME NEW i \in 1..n PROVE t[i].id < n
    <3>1. PICK a \in 1..n : a = p[i]
      BY <1>2
    <3>2. t[i] = s[a] /\ s[a].id < n
      BY <1>1, <3>1 DEF ById
    <3> QED BY <3>2
  <2> QED BY <2>1
<1> QED BY <1>4, <1>5 DEF ById

\* A function that grows strictly on 1..n and stays within is the identity.
LEMMA Growing ==
  ASSUME NEW n \in Nat, NEW p \in [1..n -> 1..n], \A i, j \in 1..n : i < j => p[i] < p[j]
  PROVE  \A i \in 1..n : p[i] = i
<1>1. \A i \in 1..n : i <= p[i]
  <2> DEFINE T == {i \in 0..n : i = 0 \/ i <= p[i]}
  <2>1. 0 \in T
    OBVIOUS
  <2>2. ASSUME NEW i \in 0..n-1, i \in T PROVE i + 1 \in T
    <3>1. CASE i = 0
      BY <3>1
    <3>2. CASE i # 0
      <4>1. i \in 1..n /\ i + 1 \in 1..n /\ p[i] \in 1..n /\ p[i+1] \in 1..n
        BY <3>2
      <4> QED BY <2>2, <3>2, <4>1
    <3> QED BY <3>1, <3>2
  <2> HIDE DEF T
  <2>3. 0..n \subseteq T
    BY <2>1, <2>2, InductionTo
  <2> QED BY <2>3 DEF T
<1>2. \A i \in 0..n-1 : p[n-i] <= n - i
  <2> DEFINE T == {i \in 0..n : i = n \/ p[n-i] <= n - i}
  <2>1. 0 \in T
    <3>1. CASE n = 0
      BY <3>1
    <3>2. CASE n # 0
      <4>1. n - 0 = n /\ n \in 1..n /\ p[n] \in 1..n
        BY <3>2
      <4> QED BY <4>1
    <3> QED BY <3>1, <3>2
  <2>2. ASSUME NEW i \in 0..n-1, i \in T PROVE i + 1 \in T
    <3>1. CASE i + 1 = n
      BY <3>1
    <3>2. CASE i + 1 # n
      <4>1. PICK a \in 1..n, b \in 1..n : a = n - (i + 1) /\ b = n - i /\ a < b /\ b = a + 1
        BY <3>2
      <4>2. p[a] \in 1..n /\ p[b] \in 1..n /\ p[a] < p[b]
        BY <4>1
      <4>3. p[b] <= b
        BY <2>2, <4>1
      <4>4. p[a] <= a
        BY <4>1, <4>2, <4>3
      <4> QED BY <4>1, <4>4
    <3> QED BY <3>1, <3>2
  <2> HIDE DEF T
  <2>3. 0..n \subseteq T
    BY <2>1, <2>2, InductionTo
  <2> QED BY <2>3 DEF T
<1>3. ASSUME NEW i \in 1..n PROVE p[i] = i
  <2>1. PICK k \in 0..n-1 : k = n - i /\ n - k = i
    OBVIOUS
  <2>2. p[i] <= i /\ i <= p[i] /\ p[i] \in 1..n
    BY <1>1, <1>2, <2>1
  <2> QED BY <2>2
<1> QED BY <1>3

\* Aligned changes nothing but zero alignments.
LEMMA AlignedIs ==
  ASSUME NEW s \in Seq(Input)
  PROVE  /\ Aligned(s) \in Seq(Input) /\ Len(Aligned(s)) = Len(s)
         /\ \A i \in 1..Len(s) :
              /\ Aligned(s)[i].align > 0
              /\ s[i].align > 0 => Aligned(s)[i] = s[i]
              /\ Aligned(s)[i].kind = s[i].kind /\ Aligned(s)[i].name = s[i].name
              /\ Aligned(s)[i].ordinal = s[i].ordinal /\ Aligned(s)[i].id = s[i].id
<1>1. PICK n \in Nat : n = Len(s) /\ DOMAIN s = 1..n /\ s \in [1..n -> Input]
  BY LenProperties
<1> DEFINE t == Aligned(s)
<1>2. ASSUME NEW i \in 1..n
      PROVE  /\ t[i] \in Input /\ t[i].align > 0 /\ (s[i].align > 0 => t[i] = s[i])
             /\ t[i].kind = s[i].kind /\ t[i].name = s[i].name
             /\ t[i].ordinal = s[i].ordinal /\ t[i].id = s[i].id
  <2>1. PICK x \in Input : x = s[i]
    BY <1>1
  <2>2. PICK a \in Word : a = (IF x.align = 0 THEN 1 ELSE x.align)
    BY DEF Input, Word
  <2> DEFINE y == [x EXCEPT !.align = a]
  <2>3. t[i] = y
    BY <1>1, <2>1, <2>2 DEF Aligned
  <2>4. y \in Input /\ y.align = a /\ y.kind = x.kind /\ y.name = x.name /\ y.ordinal = x.ordinal /\ y.id = x.id /\ y.size = x.size
    BY DEF Input
  <2> HIDE DEF y
  <2>5. a > 0 /\ (x.align > 0 => a = x.align)
    BY <2>2 DEF Input, Word
  <2>6. x.align > 0 => y = x
    BY <2>4, <2>5 DEF Input
  <2> QED BY <2>1, <2>3, <2>4, <2>5, <2>6
<1>3. t = [i \in 1..n |-> t[i]]
  BY <1>1 DEF Aligned
<1> HIDE DEF t
<1>4. t \in [1..n -> Input]
  BY <1>2, <1>3
<1>5. t \in Seq(Input) /\ Len(t) = n
  BY <1>4
<1>6. t \in Seq(Input) /\ Len(t) = Len(s)
         /\ \A i \in 1..Len(s) :
              /\ t[i].align > 0
              /\ s[i].align > 0 => t[i] = s[i]
              /\ t[i].kind = s[i].kind /\ t[i].name = s[i].name
              /\ t[i].ordinal = s[i].ordinal /\ t[i].id = s[i].id
  BY <1>1, <1>2, <1>5
<1> QED BY <1>6 DEF t

\* No section is in front of itself.
LEMMA LessIrreflexive == \A x \in Input : ~Less(x, x)
<1> SUFFICES ASSUME NEW x \in Input PROVE ~Less(x, x)
  OBVIOUS
<1>1. x.kind \in Nat /\ x.name \in Nat /\ x.ordinal \in Nat
  BY DEF Input
<1> QED BY <1>1 DEF Less

\* normalize_inputs leaves the sections in order and changes nothing that was
\* in order before.
LEMMA NormalizeIs ==
  ASSUME NEW s \in Seq(Input), ById(s), NEW p \in Orders(Aligned(s)), NEW t,
         t = [i \in DOMAIN Aligned(s) |-> Aligned(s)[p[i]]]
  PROVE  /\ t \in Seq(Input) /\ Len(t) = Len(s) /\ ById(t) /\ Normal(t)
         /\ Normal(s) => t = s
<1>1. PICK n \in Nat, u \in Seq(Input) : n = Len(s) /\ u = Aligned(s) /\ Len(u) = n
  BY AlignedIs, LenProperties
<1>2. DOMAIN s = 1..n /\ DOMAIN u = 1..n /\ s \in [1..n -> Input] /\ u \in [1..n -> Input]
  BY <1>1, LenProperties
<1>3. \A i \in 1..n : /\ u[i].align > 0 /\ (s[i].align > 0 => u[i] = s[i])
                      /\ u[i].kind = s[i].kind /\ u[i].name = s[i].name
                      /\ u[i].ordinal = s[i].ordinal /\ u[i].id = s[i].id
  BY <1>1, AlignedIs
<1>4. ById(u)
  BY <1>1, <1>2, <1>3 DEF ById, Less
<1>5. t = [i \in 1..n |-> u[p[i]]] /\ p \in Orders(u)
  BY <1>1, <1>2
<1>6. p \in [1..n -> 1..n] /\ \A i, j \in 1..n : i < j => Before(u, p[i], p[j])
  BY <1>2, <1>5 DEF Orders
<1>7. t \in [1..n -> Input] /\ \A i \in 1..n : t[i].align > 0
  BY <1>2, <1>3, <1>5, <1>6
<1>8. t \in Seq(Input) /\ Len(t) = n /\ DOMAIN t = 1..n
  BY <1>7
<1>9. ById(t) /\ \A i, j \in 1..n : i < j => ~Less(t[j], t[i])
  <2>1. \A i \in 1..n : t[i] = u[p[i]]
    BY <1>5
  <2> QED BY <1>1, <1>4, <1>5, <1>7, <2>1, StableTurn
<1>10. ASSUME Normal(s) PROVE t = s
  <2>1. u = s
    <3>1. \A i \in 1..n : u[i] = s[i]
      BY <1>2, <1>3, <1>10 DEF Normal
    <3> QED BY <1>2, <3>1
  <2>2. ASSUME NEW i \in 1..n, NEW j \in 1..n, i < j PROVE p[i] < p[j]
    <3>1. PICK a \in 1..n, b \in 1..n : a = p[i] /\ b = p[j]
      BY <1>6
    <3>2. Less(s[a], s[b]) \/ (~Less(s[b], s[a]) /\ a < b)
      BY <1>6, <2>1, <2>2, <3>1 DEF Before
    <3>3. ~(b < a /\ Less(s[a], s[b]))
      BY <1>2, <1>10 DEF Normal
    <3>4. ~Less(s[a], s[a])
      <4>1. s[a] \in Input
        BY <1>2
      <4> QED BY <4>1, LessIrreflexive
    <3> QED BY <3>1, <3>2, <3>3, <3>4
  <2>3. \A i \in 1..n : p[i] = i
    BY <1>6, <2>2, Growing
  <2> QED BY <1>2, <1>5, <2>1, <2>3
<1> QED BY <1>1, <1>7, <1>8, <1>9, <1>10 DEF Normal

-----------------------------------------------------------------------------
ImageRecord == [base: Word, sections: Seq(Entry)]

\* Where the loop stands in front of section i, given the sections before it;
\* what it makes of the section s there; whether the end of section i wraps
Start(img, i) ==
  IF i = 1 THEN img.base ELSE (img.sections[i-1].offset + img.sections[i-1].size) % Modulus
EntryFor(s, c) ==
  [kind |-> s.kind, name |-> s.name, size |-> s.size, align |-> s.align, offset |-> align_up(c, s.align)]
EndWraps(img, i) == Start(img, i + 1) < img.sections[i].offset

\* img holds the first k of the sections ins, each placed where the one before
\* ends.
Laid(ins, img, k) ==
  /\ k <= Len(ins) /\ Len(img.sections) = k
  /\ \A i \in 1..k : /\ img.sections[i] = EntryFor(ins[i], Start(img, i))
                     /\ ~(img.sections[i].offset < Start(img, i))

Running(ins, img, k) == Laid(ins, img, k) /\ \A i \in 1..k : ~EndWraps(img, i)

\* Why a build came back with o: all sections are placed, or the end of the last
\* one wraps, or the next would start before the cursor.
Over(ins, img, k, o) ==
  /\ Laid(ins, img, k) /\ \A i \in 1..k-1 : ~EndWraps(img, i)
  /\ o => k = Len(ins) /\ Running(ins, img, k)
  /\ ~o => \/ k > 0 /\ EndWraps(img, k)
           \/ /\ k < Len(ins)
              /\ align_up(Start(img, k + 1), ins[k+1].align) < Start(img, k + 1)

\* img is what other began with.
Begins(img, other) ==
  /\ img.base = other.base /\ Len(img.sections) <= Len(other.sections)
  /\ \A i \in 1..Len(img.sections) : img.sections[i] = other.sections[i]

\* An image with one more section: what was laid before stays.
LEMMA LaidNext ==
  ASSUME NEW ins \in Seq(Input), NEW img \in ImageRecord, NEW k \in Nat, k + 1 <= Len(ins),
         Running(ins, img, k), NEW e \in Entry, e = EntryFor(ins[k+1], Start(img, k + 1)),
         ~(e.offset < Start(img, k + 1)),
         NEW img2 \in ImageRecord, img2.base = img.base, img2.sections = Append(img.sections, e)
  PROVE  /\ Laid(ins, img2, k + 1) /\ \A i \in 1..k : ~EndWraps(img2, i)
         /\ Start(img2, k + 2) = (e.offset + e.size) % Modulus
         /\ Len(img2.sections) = k + 1 /\ img2.sections[k+1] = e
         /\ \A i \in 1..k : img2.sections[i] = img.sections[i]
<1>1. PICK t \in Seq(Entry), u \in Seq(Entry) : t = img.sections /\ u = img2.sections /\ u = Append(t, e)
  BY DEF ImageRecord
<1>2. Len(t) = k
  BY <1>1 DEF Running, Laid
<1>3. Len(u) = k + 1 /\ u[k+1] = e /\ \A i \in 1..k : u[i] = t[i]
  BY <1>1, <1>2, AppendProperties
<1>4. ASSUME NEW i \in 1..k+1 PROVE Start(img2, i) = Start(img, i)
  <2>1. CASE i = 1
    BY <2>1 DEF Start
  <2>2. CASE i # 1
    <3>1. i - 1 \in 1..k
      BY <2>2
    <3> QED BY <1>1, <1>3, <2>2, <3>1 DEF Start
  <2> QED BY <2>1, <2>2
<1>5. Start(img2, k + 2) = (e.offset + e.size) % Modulus
  <2>1. (k + 2) - 1 = k + 1 /\ k + 2 # 1
    OBVIOUS
  <2> QED BY <1>1, <1>3, <2>1 DEF Start
<1>6. ASSUME NEW i \in 1..k PROVE ~EndWraps(img2, i)
  <2>1. i + 1 \in 1..k+1 /\ i \in 1..k+1
    OBVIOUS
  <2>2. ~EndWraps(img, i)
    BY DEF Running
  <2> QED BY <1>1, <1>3, <1>4, <2>1, <2>2 DEF EndWraps
<1>7. ASSUME NEW i \in 1..k+1
      PROVE  img2.sections[i] = EntryFor(ins[i], Start(img2, i)) /\ ~(img2.sections[i].offset < Start(img2, i))
  <2>1. CASE i = k + 1
    <3>1. img2.sections[i] = e /\ Start(img2, i) = Start(img, k + 1)
      BY <1>1, <1>3, <1>4, <2>1
    <3>2. EntryFor(ins[i], Start(img2, i)) = e
      BY <2>1, <3>1
    <3>3. img2.sections[i] = EntryFor(ins[i], Start(img2, i))
      BY <3>1, <3>2
    <3>4. ~(img2.sections[i].offset < Start(img2, i))
      BY <3>1
    <3> QED BY <3>3, <3>4
  <2>2. CASE i \in 1..k
    <3>1. img.sections[i] = EntryFor(ins[i], Start(img, i)) /\ ~(img.sections[i].offset < Start(img, i))
      BY <2>2 DEF Running, Laid
    <3> QED BY <1>1, <1>3, <1>4, <2>2, <3>1
  <2>3. i = k + 1 \/ i \in 1..k
    OBVIOUS
  <2> QED BY <2>1, <2>2, <2>3, Zenon
<1> QED BY <1>1, <1>3, <1>5, <1>6, <1>7 DEF Laid

\* Images that begin alike stand at the same place.
LEMMA SameStart ==
  ASSUME NEW img, NEW other, NEW k \in Nat, Len(img.sections) = k, Begins(img, other), NEW i \in 1..k+1
  PROVE  Start(img, i) = Start(other, i)
<1>1. CASE i = 1
  BY <1>1 DEF Start, Begins
<1>2. CASE i # 1
  <2>1. i - 1 \in 1..k
    BY <1>2
  <2> QED BY <1>2, <2>1 DEF Start, Begins
<1> QED BY <1>1, <1>2

\* Images of one base with the same sections are equal.
LEMMA SameImage ==
  ASSUME NEW img \in ImageRecord, NEW other \in ImageRecord, Begins(img, other),
         Len(img.sections) = Len(other.sections)
  PROVE  img = other
<1>1. PICK t \in Seq(Entry), u \in Seq(Entry) : t = img.sections /\ u = other.sections
  BY DEF ImageRecord
<1>2. t = u
  BY <1>1, SeqEqual DEF Begins
<1>3. img.sections = other.sections /\ img.base = other.base
  BY <1>1, <1>2 DEF Begins
<1> QED BY <1>3 DEF ImageRecord

\* A build that has come as far as an earlier one of the same sections and base
\* goes on as that did.
Repeated(ins, img, k, other, m, o) ==
  /\ k = Len(ins) => other = img /\ o = TRUE
  /\ k < Len(ins) /\ align_up(Start(img, k + 1), ins[k+1].align) < Start(img, k + 1) =>
       other = img /\ o = FALSE
  /\ k < Len(ins) /\ ~(align_up(Start(img, k + 1), ins[k+1].align) < Start(img, k + 1)) =>
       /\ k < m /\ other.sections[k+1] = EntryFor(ins[k+1], Start(img, k + 1))
       /\ EndWraps(other, k + 1) => m = k + 1 /\ o = FALSE

\* From the reasons of a build and what another has done so far, what that one
\* does next.
LEMMA Replay ==
  ASSUME NEW ins \in Seq(Input), NEW img \in ImageRecord, NEW k \in Nat, Running(ins, img, k),
         NEW other \in ImageRecord, NEW m \in Nat, NEW o \in BOOLEAN, Over(ins, other, m, o), Begins(img, other)
  PROVE  Repeated(ins, img, k, other, m, o)
<1>1. Len(img.sections) = k /\ Len(other.sections) = m /\ k <= m /\ m <= Len(ins) /\ Len(ins) \in Nat
  BY LenProperties DEF Running, Over, Laid, Begins
<1>2. \A i \in 1..k+1 : Start(img, i) = Start(other, i)
  BY <1>1, SameStart
<1>3. ASSUME k > 0 PROVE ~EndWraps(other, k)
  <2>1. k \in 1..k /\ k + 1 \in 1..k+1
    BY <1>3
  <2>2. ~EndWraps(img, k)
    BY <2>1 DEF Running
  <2> QED BY <1>1, <1>2, <2>1, <2>2 DEF EndWraps, Begins
<1>4. k + 1 \in 1..k+1 /\ Start(img, k + 1) = Start(other, k + 1)
  BY <1>2
<1>5. ASSUME k < m
      PROVE  /\ other.sections[k+1] = EntryFor(ins[k+1], Start(img, k + 1))
             /\ ~(align_up(Start(img, k + 1), ins[k+1].align) < Start(img, k + 1))
  <2>1. k + 1 \in 1..m
    BY <1>5
  <2>2. /\ other.sections[k+1] = EntryFor(ins[k+1], Start(other, k + 1))
        /\ ~(other.sections[k+1].offset < Start(other, k + 1))
    BY <2>1 DEF Over, Laid
  <2>3. EntryFor(ins[k+1], Start(other, k + 1)).offset = align_up(Start(other, k + 1), ins[k+1].align)
    BY DEF EntryFor
  <2> QED BY <1>4, <2>2, <2>3
<1>6. ASSUME k = m
      PROVE  /\ other = img
             /\ o = FALSE => /\ k < Len(ins)
                             /\ align_up(Start(img, k + 1), ins[k+1].align) < Start(img, k + 1)
  <2>1. other = img
    BY <1>1, <1>6, SameImage
  <2>2. ASSUME o = FALSE
        PROVE  k < Len(ins) /\ align_up(Start(img, k + 1), ins[k+1].align) < Start(img, k + 1)
    BY <1>3, <1>4, <1>6, <2>2 DEF Over
  <2> QED BY <2>1, <2>2
<1>7. o = TRUE => m = Len(ins) /\ \A i \in 1..m : ~EndWraps(other, i)
  BY DEF Over, Running
<1>a. /\ k = Len(ins) => k = m /\ ~(k < Len(ins))
      /\ k = m \/ k < m
      /\ k < Len(ins) /\ k = m => m # Len(ins)
  BY <1>1
<1>8. k = Len(ins) => other = img /\ o = TRUE
  <2> SUFFICES ASSUME k = Len(ins) PROVE other = img /\ o = TRUE
    OBVIOUS
  <2>1. k = m /\ ~(k < Len(ins))
    BY <1>a
  <2>2. o = TRUE \/ o = FALSE
    BY Zenon
  <2> QED BY <1>6, <2>1, <2>2, Zenon
<1>9. k < Len(ins) /\ align_up(Start(img, k + 1), ins[k+1].align) < Start(img, k + 1) => other = img /\ o = FALSE
  <2> SUFFICES ASSUME k < Len(ins), align_up(Start(img, k + 1), ins[k+1].align) < Start(img, k + 1)
               PROVE  other = img /\ o = FALSE
    OBVIOUS
  <2>1. k = m /\ m # Len(ins)
    BY <1>5, <1>a
  <2>2. o = TRUE \/ o = FALSE
    BY Zenon
  <2> QED BY <1>6, <1>7, <2>1, <2>2, Zenon
<1>10. ASSUME k < Len(ins), ~(align_up(Start(img, k + 1), ins[k+1].align) < Start(img, k + 1))
       PROVE  /\ k < m /\ other.sections[k+1] = EntryFor(ins[k+1], Start(img, k + 1))
              /\ EndWraps(other, k + 1) => m = k + 1 /\ o = FALSE
  <2>1. k < m
    <3>1. o = TRUE \/ o = FALSE
      BY Zenon
    <3>2. k # m
      BY <1>6, <1>7, <1>10, <1>a, <3>1, Zenon
    <3> QED BY <1>a, <3>2
  <2>2. ASSUME EndWraps(other, k + 1) PROVE m = k + 1 /\ o = FALSE
    <3>1. k + 1 \in 1..m
      BY <2>1
    <3>2. ~(k + 1 \in 1..m-1)
      BY <2>2 DEF Over
    <3>3. o = FALSE
      BY <1>7, <2>2, <3>1
    <3> QED BY <2>1, <3>2, <3>3
  <2> QED BY <1>5, <2>1, <2>2
<1> QED BY <1>8, <1>9, <1>10, Zenon DEF Repeated

-----------------------------------------------------------------------------
Rebuilding == last.count = Len(inputs) /\ last.count > 0

\* The second inductive invariant: in the loop the sections are in order and the
\* image is what the loop computes from them; as long as nothing was added since
\* the last build, that build is explained by the sections as they are, and a
\* build with its base repeats it.
RepeatInv ==
  /\ IInv /\ ById(inputs)
  /\ last \in [count: Nat, ok: BOOLEAN, image: ImageRecord] /\ last.count <= Len(inputs)
  /\ Rebuilding => Normal(inputs) /\ Over(inputs, last.image, Len(last.image.sections), last.ok)
  /\ pc = "placing" =>
       /\ Normal(inputs) /\ Running(inputs, image, next - 1) /\ cursor = Start(image, next)
       /\ Rebuilding /\ last.image.base = image.base => Begins(image, last.image)

\* What IInv says of the image, and what Return makes of it.
LEMMA ImageIs ==
  ASSUME IInv
  PROVE  image \in ImageRecord /\ inputs \in Seq(Input) /\ Len(inputs) \in Nat /\ Len(image.sections) \in Nat
<1>1. image \in ImageRecord /\ inputs \in Seq(Input)
  BY DEF IInv, BuilderTypeOK, ImageRecord
<1>2. image.sections \in Seq(Entry)
  BY <1>1 DEF ImageRecord
<1> QED BY <1>1, <1>2, LenProperties

\* A build that returns is recorded with a reason for its result.
LEMMA ReturnStep ==
  ASSUME RepeatInv, IInv', pc = "placing", NEW result \in BOOLEAN, Return(result), inputs' = inputs,
         Over(inputs, image', Len(image'.sections), result)
  PROVE  RepeatInv'
<1>1. last' = [count |-> Len(inputs), ok |-> result, image |-> image'] /\ pc' = "idle"
  BY DEF Return
<1>2. image' \in ImageRecord
  BY ImageIs DEF IInv, BuilderTypeOK, ImageRecord
<1>3. Len(inputs) \in Nat
  BY ImageIs DEF RepeatInv
<1>4. last' \in [count: Nat, ok: BOOLEAN, image: ImageRecord]
  BY <1>1, <1>2, <1>3
<1>5. last'.count = Len(inputs) /\ last'.ok = result /\ last'.image = image'
  BY <1>1
<1>6. ById(inputs') /\ Normal(inputs')
  BY DEF RepeatInv
<1>7. Over(inputs, last.image, Len(last.image.sections), last.ok)'
  BY <1>5
<1> QED BY <1>1, <1>3, <1>4, <1>5, <1>6, <1>7 DEF RepeatInv

\* add_section comes behind everything and ends the claim on the last build.
LEMMA AddSectionStep ==
  ASSUME RepeatInv, IInv', NEW s \in Sections, add_section(s)
  PROVE  RepeatInv'
<1>1. PICK n \in Nat : n = Len(inputs) /\ inputs \in Seq(Input) /\ DOMAIN inputs = 1..n
  BY ImageIs, LenProperties DEF RepeatInv
<1>2. PICK t \in Seq(Input) : t = inputs'
  BY DEF IInv, BuilderTypeOK
<1> DEFINE r == [kind |-> s.kind, name |-> s.name, ordinal |-> s.ordinal, size |-> s.size,
                 align |-> s.align, id |-> Len(inputs)]
<1>3. s \in Section
  BY BuilderAssumption
<1>4. r \in Input /\ r.id = n
  BY <1>1, <1>3 DEF Section, Input
<1>5. t = Append(inputs, r) /\ pc = "idle" /\ pc' = pc /\ last' = last
  BY <1>2 DEF add_section
<1> HIDE DEF r
<1>6. Len(t) = n + 1 /\ t[n+1] = r /\ DOMAIN t = 1..n+1 /\ \A i \in 1..n : t[i] = inputs[i]
  BY <1>1, <1>2, <1>4, <1>5, AppendProperties, LenProperties
<1>7. \A i \in 1..n : inputs[i].id < n /\ inputs[i].id \in Nat
  <2>1. \A i \in 1..n : inputs[i] \in Input
    BY <1>1, ElementOfSeq
  <2>2. \A x \in Input : x.id \in Nat
    BY DEF Input
  <2>3. \A i \in 1..n : inputs[i].id < n
    BY <1>1 DEF RepeatInv, ById
  <2> QED BY <2>1, <2>2, <2>3
<1>8. \A i, j \in 1..n : i < j /\ ~Less(inputs[i], inputs[j]) /\ ~Less(inputs[j], inputs[i]) =>
        inputs[i].id < inputs[j].id
  BY <1>1 DEF RepeatInv, ById
<1>9. ById(t)
  <2>1. \A i \in 1..n+1 : t[i].id < n + 1
    BY <1>4, <1>6, <1>7
  <2>2. ASSUME NEW i \in 1..n+1, NEW j \in 1..n+1, i < j, ~Less(t[i], t[j]), ~Less(t[j], t[i])
        PROVE  t[i].id < t[j].id
    <3>1. i \in 1..n /\ t[i] = inputs[i]
      BY <1>6, <2>2
    <3>2. CASE j = n + 1
      BY <1>4, <1>6, <1>7, <3>1, <3>2
    <3>3. CASE j \in 1..n
      BY <1>6, <1>8, <2>2, <3>1, <3>3
    <3> QED BY <3>2, <3>3
  <2> QED BY <1>6, <2>1, <2>2 DEF ById
<1>10. last.count \in Nat /\ last.count <= n /\ last' \in [count: Nat, ok: BOOLEAN, image: ImageRecord]
  BY <1>1, <1>5 DEF RepeatInv
<1>11. last'.count <= Len(inputs') /\ last'.count # Len(inputs')
  BY <1>2, <1>5, <1>6, <1>10
<1> QED BY <1>2, <1>5, <1>9, <1>10, <1>11 DEF RepeatInv, Rebuilding

\* build puts the sections in order, or leaves them if they are.
LEMMA BuildStep ==
  ASSUME RepeatInv, IInv', NEW b \in Bases, build(b)
  PROVE  RepeatInv'
<1>1. inputs \in Seq(Input) /\ Len(inputs) \in Nat /\ ById(inputs)
  BY ImageIs DEF RepeatInv
<1>2. PICK p \in Orders(Aligned(inputs)) : inputs' = [i \in DOMAIN Aligned(inputs) |-> Aligned(inputs)[p[i]]]
  BY DEF build
<1>3. PICK t : t = inputs'
  OBVIOUS
<1>4. /\ t \in Seq(Input) /\ Len(t) = Len(inputs) /\ ById(t) /\ Normal(t)
      /\ Normal(inputs) => t = inputs
  BY SMTT(40), <1>1, <1>2, <1>3, NormalizeIs
<1>5. /\ image' = [base |-> b, sections |-> << >>] /\ cursor' = b /\ next' = 1
      /\ pc' = "placing" /\ last' = last
  BY DEF build, StartImage
<1>6. Running(t, image', 0) /\ cursor' = Start(image', next')
  <2>1. image'.base = b /\ image'.sections = << >> /\ Len(<< >>) = 0
    BY <1>5
  <2>2. 0 <= Len(t)
    BY <1>1, <1>4
  <2> QED BY <1>5, <2>1, <2>2 DEF Running, Laid, Start
<1>7. last \in [count: Nat, ok: BOOLEAN, image: ImageRecord] /\ last.count <= Len(inputs)
  BY DEF RepeatInv
<1>8. Len(last.image.sections) \in Nat
  <2>1. last.image.sections \in Seq(Entry)
    BY <1>7 DEF ImageRecord
  <2> QED BY <2>1, LenProperties
<1>9. last.image.base = image'.base => Begins(image', last.image)
  BY <1>5, <1>8 DEF Begins
<1>10. Rebuilding' => Normal(inputs') /\ Over(inputs', last'.image, Len(last'.image.sections), last'.ok)
  <2> SUFFICES ASSUME Rebuilding' PROVE Normal(inputs') /\ Over(inputs', last'.image, Len(last'.image.sections), last'.ok)
    OBVIOUS
  <2>1. Rebuilding
    BY <1>3, <1>4, <1>5 DEF Rebuilding
  <2>2. Normal(inputs) /\ Over(inputs, last.image, Len(last.image.sections), last.ok)
    BY <2>1 DEF RepeatInv
  <2>3. inputs' = inputs
    BY <1>3, <1>4, <2>2
  <2> QED BY <1>5, <2>2, <2>3
<1>11. next' - 1 = 0
  BY <1>5
<1>12. Running(inputs, image, next - 1)'
  BY <1>3, <1>6, <1>11
<1> QED BY <1>3, <1>4, <1>5, <1>6, <1>7, <1>9, <1>10, <1>12 DEF RepeatInv

\* What a step of the loop may do: go on by one section, or return as an earlier
\* build of the same sections behind the same base did.
Repeats ==
  pc = "placing" /\ pc' = "idle" /\ Rebuilding /\ last.image.base = image.base =>
    image' = last.image /\ ok' = last.ok

\* The last iteration has returned TRUE with all sections placed.
LEMMA FinishStep ==
  ASSUME RepeatInv, IInv', FinishBuild
  PROVE  RepeatInv' /\ Repeats
<1>1. /\ pc = "placing" /\ inputs' = inputs /\ image' = image /\ Return(TRUE)
      /\ next > Len(inputs) /\ Running(inputs, image, next - 1)
  BY DEF FinishBuild, RepeatInv
<1>2. image \in ImageRecord /\ inputs \in Seq(Input) /\ Len(inputs) \in Nat
  BY ImageIs DEF RepeatInv
<1>3. next \in Nat
  BY DEF RepeatInv, IInv, BuilderTypeOK
<1>4. PICK k \in Nat : k = Len(inputs) /\ k = next - 1
  BY <1>1, <1>2, <1>3 DEF Running, Laid
<1>5. Running(inputs, image, k) /\ Len(image.sections) = k
  BY <1>1, <1>4 DEF Running, Laid
<1>6. Over(inputs, image, k, TRUE)
  BY <1>4, <1>5 DEF Over, Running
<1>7. TRUE \in BOOLEAN /\ Over(inputs, image', Len(image'.sections), TRUE)
  BY <1>1, <1>5, <1>6
<1>8. RepeatInv'
  BY <1>1, <1>7, ReturnStep
<1>9. Repeats
  <2> SUFFICES ASSUME Rebuilding, last.image.base = image.base PROVE image' = last.image /\ ok' = last.ok
    BY DEF Repeats
  <2>1. PICK other \in ImageRecord, o \in BOOLEAN : other = last.image /\ o = last.ok
    BY DEF RepeatInv
  <2>2. PICK m \in Nat : m = Len(other.sections) /\ Over(inputs, other, m, o)
    <3>1. other.sections \in Seq(Entry)
      BY DEF ImageRecord
    <3> QED BY <2>1, <3>1, LenProperties DEF RepeatInv
  <2>3. Begins(image, other)
    BY <1>1, <2>1 DEF RepeatInv
  <2>4. other = image /\ o = TRUE
    <3>1. Repeated(inputs, image, k, other, m, o)
      BY <1>2, <1>5, <2>2, <2>3, Replay
    <3> QED BY <1>4, <3>1, Zenon DEF Repeated
  <2>5. ok' = TRUE
    BY <1>1, Zenon DEF Return
  <2> QED BY <1>1, <2>1, <2>4, <2>5, Zenon
<1> QED BY <1>8, <1>9

\* An iteration places a section as an earlier build did, or fails as it did.
LEMMA PlaceSectionStep ==
  ASSUME RepeatInv, IInv', PlaceSection
  PROVE  RepeatInv' /\ Repeats
<1>1. /\ pc = "placing" /\ inputs' = inputs /\ next <= Len(inputs)
      /\ Running(inputs, image, next - 1) /\ cursor = Start(image, next) /\ Normal(inputs)
  BY DEF PlaceSection, RepeatInv
<1>2. image \in ImageRecord /\ inputs \in Seq(Input) /\ Len(inputs) \in Nat /\ IInv
  BY ImageIs DEF RepeatInv
<1>3. next \in Nat \ {0} /\ cursor \in Word
  BY <1>2 DEF IInv, BuilderTypeOK
<1>4. PICK k \in Nat : k = next - 1 /\ next = k + 1 /\ k + 1 <= Len(inputs) /\ k < Len(inputs)
  BY <1>1, <1>2, <1>3
<1>5. Running(inputs, image, k) /\ cursor = Start(image, k + 1) /\ Len(image.sections) = k
  BY <1>1, <1>4 DEF Running, Laid
<1>6. PICK s \in Input : s = inputs[k+1]
  BY <1>2, <1>4, ElementOfSeq
<1>7. s.align \in Word \ {0} /\ s.size \in Word /\ s.kind \in 0..6 /\ s.name \in Nat
  <2>1. k + 1 \in DOMAIN inputs
    BY <1>2, <1>4, LenProperties
  <2>2. s.align > 0
    BY <1>1, <1>6, <2>1 DEF Normal
  <2> QED BY <2>2 DEF Input, Word
<1>8. PICK a \in Word : a = align_up(cursor, s.align)
  BY <1>3, <1>7, AlignUpSound
<1> DEFINE e == EntryFor(s, cursor)
<1>9. e \in Entry /\ e.offset = a /\ e.size = s.size
  BY <1>7, <1>8 DEF EntryFor, Entry
<1>10. e = EntryFor(inputs[k+1], Start(image, k + 1))
  BY <1>5, <1>6
<1>11. e = [kind |-> s.kind, name |-> s.name, size |-> s.size, align |-> s.align, offset |-> a]
  BY <1>8 DEF EntryFor
<1> HIDE DEF e
<1>12. PICK end \in Word : end = (a + s.size) % Modulus
  BY <1>7 DEF Word
<1>13. \/ a < cursor /\ UNCHANGED <<image, cursor, next>> /\ Return(FALSE)
       \/ /\ ~(a < cursor)
          /\ image' = [image EXCEPT !.sections = Append(@, e)]
          /\ cursor' = end
          /\ \/ end < a /\ Return(FALSE) /\ next' = next
             \/ end >= a /\ next' = next + 1 /\ pc' = pc /\ ok' = ok /\ last' = last
  <2>1. s = inputs[next] /\ a = align_up(cursor, inputs[next].align) /\ end = (a + inputs[next].size) % Modulus
    BY <1>4, <1>6, <1>8, <1>12
  <2> QED BY <1>11, <2>1 DEF PlaceSection, Wraps
<1>14. PICK other \in ImageRecord, o \in BOOLEAN, m \in Nat :
         other = last.image /\ o = last.ok /\ m = Len(other.sections)
  <2>1. PICK other \in ImageRecord, o \in BOOLEAN : other = last.image /\ o = last.ok
    BY DEF RepeatInv
  <2>2. other.sections \in Seq(Entry)
    BY DEF ImageRecord
  <2> QED BY <2>1, <2>2, LenProperties
<1>15. Rebuilding => Over(inputs, other, m, o)
  BY <1>14 DEF RepeatInv
<1>16. Rebuilding /\ last.image.base = image.base => Begins(image, other)
  BY <1>1, <1>14 DEF RepeatInv
<1>17. CASE a < cursor /\ UNCHANGED <<image, cursor, next>> /\ Return(FALSE)
  <2>1. align_up(Start(image, k + 1), inputs[k+1].align) < Start(image, k + 1)
    BY <1>5, <1>6, <1>8, <1>17
  <2>2. Over(inputs, image, k, FALSE)
    <3>1. \A i \in 1..k-1 : i \in 1..k
      OBVIOUS
    <3> QED BY <1>4, <1>5, <2>1, <3>1 DEF Over, Running
  <2>3. FALSE \in BOOLEAN /\ Over(inputs, image', Len(image'.sections), FALSE)
    BY <1>5, <1>17, <2>2
  <2>4. RepeatInv'
    BY <1>1, <1>17, <2>3, ReturnStep
  <2>5. Repeats
    <3> SUFFICES ASSUME Rebuilding, last.image.base = image.base PROVE image' = last.image /\ ok' = last.ok
      BY DEF Repeats
    <3>1. other = image /\ o = FALSE
      <4>1. Repeated(inputs, image, k, other, m, o)
        BY <1>2, <1>5, <1>15, <1>16, Replay
      <4> QED BY <1>4, <2>1, <4>1, Zenon DEF Repeated
    <3>2. ok' = FALSE
      BY <1>17, Zenon DEF Return
    <3> QED BY <1>14, <1>17, <3>1, <3>2, Zenon
  <2> QED BY <2>4, <2>5
<1>18. CASE /\ ~(a < cursor)
            /\ image' = [image EXCEPT !.sections = Append(@, e)]
            /\ cursor' = end
            /\ \/ end < a /\ Return(FALSE) /\ next' = next
               \/ end >= a /\ next' = next + 1 /\ pc' = pc /\ ok' = ok /\ last' = last
  <2>1. PICK im \in ImageRecord : im = image' /\ im.base = image.base /\ im.sections = Append(image.sections, e)
    <3>1. image' \in ImageRecord
      BY DEF IInv, BuilderTypeOK, ImageRecord
    <3>2. image'.base = image.base /\ image'.sections = Append(image.sections, e)
      BY <1>2, <1>18 DEF ImageRecord
    <3> QED BY <3>1, <3>2
  <2>2. /\ Laid(inputs, im, k + 1) /\ \A i \in 1..k : ~EndWraps(im, i)
        /\ Start(im, k + 2) = (e.offset + e.size) % Modulus
        /\ Len(im.sections) = k + 1 /\ im.sections[k+1] = e
        /\ \A i \in 1..k : im.sections[i] = image.sections[i]
    <3>1. ~(e.offset < Start(image, k + 1))
      BY <1>5, <1>9, <1>18
    <3> QED BY <1>2, <1>4, <1>5, <1>9, <1>10, <2>1, <3>1, LaidNext
  <2>3. Start(im, k + 2) = end /\ (EndWraps(im, k + 1) <=> end < a)
    <3>1. Start(im, k + 2) = end
      BY <1>9, <1>12, <2>2
    <3>2. (k + 1) + 1 = k + 2
      OBVIOUS
    <3> QED BY <1>9, <2>2, <3>1, <3>2 DEF EndWraps
  <2>4. ASSUME Rebuilding, last.image.base = image.base
        PROVE  /\ Begins(im, other)
               /\ end < a => im = other /\ o = FALSE
    <3>1. ~(align_up(Start(image, k + 1), inputs[k+1].align) < Start(image, k + 1))
      BY <1>5, <1>6, <1>8, <1>18
    <3>2. /\ k < m /\ other.sections[k+1] = EntryFor(inputs[k+1], Start(image, k + 1))
          /\ EndWraps(other, k + 1) => m = k + 1 /\ o = FALSE
      <4>1. Repeated(inputs, image, k, other, m, o)
        BY <1>2, <1>5, <1>15, <1>16, <2>4, Replay
      <4> QED BY <1>4, <3>1, <4>1, Zenon DEF Repeated
    <3>3. Begins(im, other)
      <4>1. image.base = other.base /\ \A i \in 1..k : image.sections[i] = other.sections[i]
        BY <1>5, <1>16, <2>4 DEF Begins
      <4>2. \A i \in 1..k+1 : im.sections[i] = other.sections[i]
        <5>1. im.sections[k+1] = other.sections[k+1]
          BY <1>10, <2>2, <3>2
        <5>2. \A i \in 1..k : im.sections[i] = other.sections[i]
          BY <2>2, <4>1
        <5>3. \A i \in 1..k+1 : i = k + 1 \/ i \in 1..k
          OBVIOUS
        <5> QED BY <5>1, <5>2, <5>3, Zenon
      <4>3. k + 1 <= m
        BY <3>2
      <4> QED BY <1>14, <2>1, <2>2, <4>1, <4>2, <4>3 DEF Begins
    <3>4. ASSUME end < a PROVE im = other /\ o = FALSE
      <4>1. Start(other, k + 2) = Start(im, k + 2)
        <5>1. PICK l \in Nat : l = k + 1
          OBVIOUS
        <5>2. Len(im.sections) = l /\ k + 2 \in 1..l+1
          BY <2>2, <5>1
        <5> QED BY <3>3, <5>2, SameStart
      <4>2. other.sections[k+1] = e
        BY <1>10, <3>2
      <4>3. EndWraps(other, k + 1)
        <5>1. (k + 1) + 1 = k + 2
          OBVIOUS
        <5> QED BY <1>9, <2>3, <3>4, <4>1, <4>2, <5>1 DEF EndWraps
      <4>4. m = k + 1 /\ o = FALSE
        BY <3>2, <4>3
      <4>5. im = other
        BY <1>14, <2>2, <3>3, <4>4, SameImage
      <4> QED BY <4>4, <4>5
    <3> QED BY <3>3, <3>4
  <2>5. CASE end < a /\ Return(FALSE) /\ next' = next
    <3>1. Over(inputs, im, k + 1, FALSE)
      <4>1. \A i \in 1..(k+1)-1 : i \in 1..k
        OBVIOUS
      <4>2. k + 1 > 0 /\ EndWraps(im, k + 1)
        BY <2>3, <2>5
      <4> QED BY <2>2, <4>1, <4>2 DEF Over
    <3>2. FALSE \in BOOLEAN /\ Over(inputs, image', Len(image'.sections), FALSE)
      BY <2>1, <2>2, <3>1
    <3>3. RepeatInv'
      BY <1>1, <2>5, <3>2, ReturnStep
    <3>4. Repeats
      <4> SUFFICES ASSUME Rebuilding, last.image.base = image.base PROVE image' = last.image /\ ok' = last.ok
        BY DEF Repeats
      <4>1. im = other /\ o = FALSE
        BY <2>4, <2>5
      <4>2. ok' = FALSE
        BY <2>5, Zenon DEF Return
      <4> QED BY <1>14, <2>1, <4>1, <4>2, Zenon
    <3> QED BY <3>3, <3>4
  <2>6. CASE end >= a /\ next' = next + 1 /\ pc' = pc /\ ok' = ok /\ last' = last
    <3>1. ~(end < a)
      BY <2>6 DEF Word
    <3>2. Running(inputs, im, k + 1)
      <4>1. \A i \in 1..k+1 : i = k + 1 \/ i \in 1..k
        OBVIOUS
      <4>2. ~EndWraps(im, k + 1)
        BY <2>3, <3>1
      <4>3. \A i \in 1..k+1 : ~EndWraps(im, i)
        BY <2>2, <4>1, <4>2, Zenon
      <4> QED BY <2>2, <4>3 DEF Running
    <3>3. next' = k + 2 /\ next' - 1 = k + 1
      BY <1>4, <2>6
    <3>4. Running(inputs, image, next - 1)' /\ cursor' = Start(image', next')
      BY <1>1, <1>18, <2>1, <2>3, <3>2, <3>3
    <3>5. Rebuilding' <=> Rebuilding
      BY <1>1, <2>6 DEF Rebuilding
    <3>6. Rebuilding' /\ last'.image.base = image'.base => Begins(image', last'.image)
      BY <1>14, <2>1, <2>4, <2>6, <3>5
    <3>7. RepeatInv'
      BY <1>1, <2>6, <3>4, <3>5, <3>6 DEF RepeatInv
    <3>8. Repeats
      BY <1>1, <2>6 DEF Repeats
    <3> QED BY <3>7, <3>8
  <2> QED BY <1>18, <2>5, <2>6
<1> QED BY <1>13, <1>17, <1>18

\* Every step keeps the invariants, and a rebuild returns what was returned.
LEMMA RepeatStep ==
  ASSUME RepeatInv, IInv', [Next]_vars
  PROVE  RepeatInv' /\ [Repeats]_vars
<1>1. ASSUME NEW s \in Sections, add_section(s) PROVE RepeatInv' /\ Repeats
  <2>1. Repeats
    BY <1>1 DEF add_section, Repeats
  <2> QED BY <1>1, <2>1, AddSectionStep
<1>2. ASSUME NEW b \in Bases, build(b) PROVE RepeatInv' /\ Repeats
  <2>1. Repeats
    BY <1>2 DEF build, Repeats
  <2> QED BY <1>2, <2>1, BuildStep
<1>3. CASE PlaceSection
  BY <1>3, PlaceSectionStep
<1>4. CASE FinishBuild
  BY <1>4, FinishStep
<1>5. CASE UNCHANGED vars
  <2>1. RepeatInv'
    BY <1>5 DEF vars, RepeatInv, Rebuilding
  <2> QED BY <1>5, <2>1
<1> QED BY <1>1, <1>2, <1>3, <1>4, <1>5 DEF Next

\* In every reachable state a build is a function of the sections and the base.
LEMMA RepeatInvariant == Spec => []RepeatInv /\ [][Repeats]_vars
<1>1. Init /\ IInv => RepeatInv
  <2> SUFFICES ASSUME Init, IInv PROVE RepeatInv
    OBVIOUS
  <2>1. last = [count |-> 0, ok |-> FALSE, image |-> image] /\ image \in ImageRecord /\ inputs = << >> /\ pc = "idle"
    BY ImageIs DEF Init
  <2>2. last \in [count: Nat, ok: BOOLEAN, image: ImageRecord]
    <3>1. FALSE \in BOOLEAN /\ 0 \in Nat
      OBVIOUS
    <3> QED BY <2>1, <3>1
  <2>3. last.count = 0 /\ Len(inputs) = 0 /\ DOMAIN inputs = {}
    BY <2>1
  <2> QED BY <2>1, <2>2, <2>3 DEF RepeatInv, Rebuilding, ById
<1>2. RepeatInv /\ IInv' /\ [Next]_vars => RepeatInv' /\ [Repeats]_vars
  BY RepeatStep
<1> QED BY <1>1, <1>2, BuilderInvariant, PTL DEF Spec

\* In the loop the sections are in the order of kind, name and ordinal, equal
\* keys in the order in which they were added, for any number of sections and
\* of builds in between.
THEOREM StableCorrect == Spec => []StableOrder
<1>1. RepeatInv => StableOrder
  <2> SUFFICES ASSUME RepeatInv, pc = "placing" PROVE StableOrder
    BY DEF StableOrder
  <2>1. PICK n \in Nat : n = Len(inputs) /\ DOMAIN inputs = 1..n
    BY ImageIs, LenProperties DEF RepeatInv
  <2>2. \A i \in 1..n : inputs[i] \in Input
    BY <2>1, ImageIs, ElementOfSeq DEF RepeatInv
  <2>3. ASSUME NEW i \in 1..n, NEW j \in 1..n, i < j
        PROVE  LET a == inputs[i]
                   b == inputs[j]
               IN \/ a.kind < b.kind
                  \/ a.kind = b.kind /\ a.name < b.name
                  \/ <<a.kind, a.name>> = <<b.kind, b.name>> /\ a.ordinal < b.ordinal
                  \/ <<a.kind, a.name, a.ordinal>> = <<b.kind, b.name, b.ordinal>> /\ a.id < b.id
    <3>1. PICK x \in Input, y \in Input : x = inputs[i] /\ y = inputs[j]
      BY <2>2
    <3>2. ~Less(y, x) /\ (~Less(x, y) => x.id < y.id)
      BY <2>1, <2>3, <3>1 DEF RepeatInv, Normal, ById
    <3>3. /\ x.kind \in Nat /\ x.name \in Nat /\ x.ordinal \in Nat
          /\ y.kind \in Nat /\ y.name \in Nat /\ y.ordinal \in Nat
      BY DEF Input
    <3> QED BY <3>1, <3>2, <3>3 DEF Less
  <2> QED BY <2>1, <2>3 DEF StableOrder
<1> QED BY <1>1, RepeatInvariant, PTL

\* A build repeated with the same base and no new section ends with the same
\* image and the same result, also where the first one failed: sorting again
\* changes nothing, and the loop depends on nothing else.
THEOREM RebuildCorrect == Spec => RebuildRepeats
<1>1. RepeatInv /\ [Repeats]_vars =>
        [pc = "placing" /\ pc' = "idle" /\ last.count = Len(inputs)
           /\ last.count > 0 /\ last.image.base = image.base =>
             image' = last.image /\ ok' = last.ok]_vars
  BY DEF Repeats, Rebuilding
<1> QED BY <1>1, RepeatInvariant, PTL DEF RebuildRepeats

-----------------------------------------------------------------------------
\* compute_offsets

\* Where the word has room for a whole alignment unit, align_up is the next
\* multiple.
LEMMA AlignUpInRoom ==
  ASSUME NEW v \in Word, NEW a \in Word \ {0}, v + a <= Modulus
  PROVE  /\ v <= align_up(v, a) /\ align_up(v, a) <= v + a - 1
         /\ align_up(v, a) % a = 0
<1>1. CASE a <= 1 \/ v % a = 0
  <2>1. align_up(v, a) = v
    BY <1>1 DEF align_up
  <2>2. v % a = 0
    BY <1>1 DEF Word
  <2> QED BY <2>1, <2>2 DEF Word
<1>2. CASE ~(a <= 1 \/ v % a = 0)
  <2>0. PICK u, w \in Nat : u = v /\ w = a /\ w # 0
    BY DEF Word
  <2>1. PICK p \in Nat : p = a - (v % a) /\ 1 <= p /\ p <= a - 1
    <3>1. u % w \in 0..w-1 /\ u % w # 0
      BY <1>2, <2>0
    <3> QED BY <2>0, <3>1
  <2>2. align_up(v, a) = (v + p) % Modulus
    BY <1>2, <2>1 DEF align_up
  <2>3. align_up(v, a) = v + p
    BY <2>1, <2>2 DEF Word
  <2>4. (v + p) % a = 0
    BY <2>1, PaddedAligned DEF Word
  <2> QED BY <2>1, <2>3, <2>4 DEF Word
<1> QED BY <1>1, <1>2

\* align_up stays within the word.
LEMMA AlignUpWord ==
  ASSUME NEW v \in Word, NEW a \in Word \ {0}
  PROVE  align_up(v, a) \in Word
<1>1. v % a \in Nat
  BY DEF Word
<1>2. (v + (a - (v % a))) % Modulus \in Word
  BY <1>1 DEF Word
<1> QED BY <1>2 DEF align_up

\* room[i] is what the first i entries of e can take.
IsRoom(room, n, e) ==
  /\ room \in [0..n -> Nat] /\ room[0] = 0
  /\ \A i \in 1..n : room[i] = room[i-1] + e[i].size + e[i].align

EntryRecord == [size: Word, align: Word, offset: Word]

\* Room(n) is the last value of such a function.
LEMMA RoomIs ==
  ASSUME NEW n \in Nat, n <= Len(entries), entries \in Seq(EntryRecord)
  PROVE  \E f : IsRoom(f, n, entries) /\ Room(n) = f[n]
<1>1. \A i \in 1..n : entries[i] \in EntryRecord /\ entries[i].size \in Nat /\ entries[i].align \in Nat
  <2>1. \A i \in 1..n : entries[i] \in EntryRecord
    BY ElementOfSeq
  <2> QED BY SMTT(40), <2>1 DEF EntryRecord, Word
<1>2. PICK f : IsRoom(f, n, entries)
  <2> DEFINE g == [i \in 1..n |-> [t \in Nat |-> t + entries[i].size + entries[i].align]]
  <2>1. g \in [1..n -> [Nat -> Nat]]
    BY <1>1
  <2>2. \A i \in 1..n : \A t \in Nat : g[i][t] = t + entries[i].size + entries[i].align
    OBVIOUS
  <2> HIDE DEF g
  <2>3. PICK f \in [0..n -> Nat] : Follows(f, n, 0, g)
    BY <2>1, RecursionTo
  <2>4. \A i \in 1..n : i - 1 \in 0..n /\ f[i-1] \in Nat
    BY <2>3
  <2>5. f[0] = 0 /\ \A i \in 1..n : f[i] = g[i][f[i-1]]
    BY <2>3 DEF Follows
  <2>6. \A i \in 1..n : f[i] = f[i-1] + entries[i].size + entries[i].align
    BY <2>2, <2>4, <2>5
  <2>7. IsRoom(f, n, entries)
    BY <2>3, <2>5, <2>6 DEF IsRoom
  <2> QED BY <2>7
<1> DEFINE Eq(h) == h = [i \in 0..n |-> IF i = 0 THEN 0 ELSE h[i-1] + entries[i].size + entries[i].align]
           room == CHOOSE h : Eq(h)
<1>3. Eq(f)
  BY <1>2 DEF IsRoom
<1>4. Eq(room)
  <2> HIDE DEF Eq
  <2> QED BY <1>3
<1>5. Room(n) = room[n]
  BY DEF Room
<1> HIDE DEF room
<1>6. \A i \in 0..n : room[i] = IF i = 0 THEN 0 ELSE room[i-1] + entries[i].size + entries[i].align
  BY <1>4
<1> DEFINE T == {i \in 0..n : room[i] = f[i]}
<1>7. 0 \in T
  BY <1>2, <1>6 DEF IsRoom
<1>8. ASSUME NEW i \in 0..n-1, i \in T PROVE i + 1 \in T
  <2>1. i + 1 \in 1..n /\ i + 1 \in 0..n /\ (i + 1) - 1 = i
    OBVIOUS
  <2>2. room[i+1] = room[i] + entries[i+1].size + entries[i+1].align
    BY <1>6, <2>1
  <2>3. f[i+1] = f[i] + entries[i+1].size + entries[i+1].align
    BY <1>2, <2>1 DEF IsRoom
  <2> QED BY <1>8, <2>1, <2>2, <2>3
<1>9. n \in T
  <2> HIDE DEF T
  <2>1. 0..n \subseteq T
    BY <1>7, <1>8, InductionTo
  <2> QED BY <2>1
<1> QED BY <1>2, <1>5, <1>9

\* Two such functions agree, and the values grow.
LEMMA RoomGrows ==
  ASSUME NEW n \in Nat, NEW k \in 0..n, NEW e, NEW f, NEW g,
         \A i \in 1..n : e[i].size \in Nat /\ e[i].align \in Nat,
         IsRoom(f, k, e), IsRoom(g, n, e)
  PROVE  f[k] = g[k] /\ g[k] <= g[n]
<1>1. f[k] = g[k]
  <2> DEFINE T == {i \in 0..k : f[i] = g[i]}
  <2>1. 0 \in T
    BY DEF IsRoom
  <2>2. ASSUME NEW i \in 0..k-1, i \in T PROVE i + 1 \in T
    <3>1. i + 1 \in 1..k /\ i + 1 \in 1..n /\ (i + 1) - 1 = i
      OBVIOUS
    <3>2. f[i+1] = f[i] + e[i+1].size + e[i+1].align /\ g[i+1] = g[i] + e[i+1].size + e[i+1].align
      BY <3>1 DEF IsRoom
    <3> QED BY <2>2, <3>1, <3>2
  <2> HIDE DEF T
  <2>3. 0..k \subseteq T
    BY <2>1, <2>2, InductionTo
  <2> QED BY <2>3 DEF T
<1>2. g[k] <= g[n]
  <2>1. PICK m \in Nat : m = n - k
    OBVIOUS
  <2> DEFINE T == {i \in 0..m : g[k] <= g[k+i]}
  <2>2. g \in [0..n -> Nat]
    BY DEF IsRoom
  <2>3. 0 \in T
    BY <2>2
  <2>4. ASSUME NEW i \in 0..m-1, i \in T PROVE i + 1 \in T
    <3>1. PICK j \in 0..n-1 : j = k + i
      BY <2>1
    <3>2. j + 1 \in 1..n /\ (j + 1) - 1 = j /\ j \in 0..n
      OBVIOUS
    <3>3. g[j+1] = g[j] + e[j+1].size + e[j+1].align
      BY <3>2 DEF IsRoom
    <3>4. g[j] \in Nat /\ g[j+1] \in Nat /\ g[k] \in Nat /\ g[j] <= g[j+1]
      <4>1. g[j] \in Nat /\ g[j+1] \in Nat /\ g[k] \in Nat
        BY <2>2, <3>2
      <4>2. PICK z \in Nat, a \in Nat : z = e[j+1].size /\ a = e[j+1].align
        BY <3>2
      <4>3. g[j+1] = g[j] + z + a
        BY <3>3, <4>2
      <4> QED BY <4>1, <4>3
    <3>5. k + (i + 1) = j + 1 /\ g[k] <= g[j]
      BY <2>4, <3>1
    <3> QED BY <3>4, <3>5
  <2> HIDE DEF T
  <2>5. 0..m \subseteq T
    BY <2>3, <2>4, InductionTo
  <2>6. m \in T /\ k + m = n
    BY <2>1, <2>5
  <2> QED BY <2>6 DEF T
<1> QED BY <1>1, <1>2

-----------------------------------------------------------------------------
\* The first k entries are a sound layout behind b that ends at c, and what it
\* takes is within room, with one unit to spare for each entry.
Placed(e, k, b, c, room) ==
  /\ b <= c /\ c + k <= b + room[k]
  /\ \A i \in 1..k : /\ e[i].offset >= b /\ e[i].offset % e[i].align = 0
                     /\ e[i].offset + e[i].size <= c
  /\ \A i, j \in 1..k : i < j => e[i].offset + e[i].size <= e[j].offset

\* In the loop, and behind it, the entries placed so far end in a word; they are
\* a sound layout if there is room for them.
LoopInv(k) ==
  /\ \A i \in 1..k : entries[i].offset + entries[i].size < Modulus
  /\ \E f : /\ IsRoom(f, k, entries)
            /\ offsetBase + f[k] <= Modulus => Placed(entries, k, offsetBase, entryCursor, f)

\* The inductive invariant. A call fails only at an entry for which there is no
\* room.
OffsetsInv ==
  /\ entries \in Seq(EntryRecord)
  /\ offsetBase \in Word /\ entryCursor \in Word /\ nextEntry \in Nat \ {0}
  /\ computing \in {"idle", "loop", "true", "false"}
  /\ computing = "loop" => nextEntry - 1 <= Len(entries) /\ LoopInv(nextEntry - 1)
  /\ computing = "true" => LoopInv(Len(entries))
  /\ computing = "false" =>
       \E k \in 0..Len(entries) : \E f : IsRoom(f, k, entries) /\ offsetBase + f[k] > Modulus

\* An iteration places an entry: what was placed before stays.
LEMMA PlacedNext ==
  ASSUME NEW e \in Seq(EntryRecord), NEW k \in Nat, k + 1 <= Len(e), NEW b \in Word, NEW c \in Word,
         NEW f, IsRoom(f, k, e), NEW r \in EntryRecord, r.align # 0, r.offset = align_up(c, r.align),
         NEW d, d = [e EXCEPT ![k+1] = r]
  PROVE  \E g : /\ IsRoom(g, k + 1, d) /\ f[k] <= g[k+1]
                /\ b + g[k+1] <= Modulus /\ Placed(e, k, b, c, f) =>
                     r.offset + r.size < Modulus /\ Placed(d, k + 1, b, r.offset + r.size, g)
<1>1. PICK z \in Word, a \in Word \ {0}, o \in Word : z = r.size /\ a = r.align /\ o = r.offset /\ o = align_up(c, a)
  BY DEF EntryRecord
<1>2. /\ \A i \in 1..k : d[i] = e[i] /\ e[i] \in EntryRecord
      /\ d[k+1] = r
  <2>1. DOMAIN e = 1..Len(e) /\ Len(e) \in Nat /\ \A i \in 1..Len(e) : e[i] \in EntryRecord
    BY ElementOfSeq, LenProperties
  <2>2. k + 1 \in DOMAIN e /\ \A i \in 1..k : i \in DOMAIN e /\ i # k + 1
    BY <2>1
  <2> QED BY <2>1, <2>2
<1> DEFINE g == [i \in 0..k+1 |-> IF i = k + 1 THEN f[k] + z + a ELSE f[i]]
<1>3. f \in [0..k -> Nat] /\ f[k] \in Nat /\ f[0] = 0
  BY DEF IsRoom
<1>4. /\ g \in [0..k+1 -> Nat] /\ g[0] = 0 /\ g[k+1] = f[k] + z + a
      /\ \A i \in 0..k : g[i] = f[i]
  BY <1>3 DEF Word
<1> HIDE DEF g
<1>5. IsRoom(g, k + 1, d)
  <2> SUFFICES ASSUME NEW i \in 1..k+1 PROVE g[i] = g[i-1] + d[i].size + d[i].align
    BY <1>4 DEF IsRoom
  <2>1. CASE i = k + 1
    <3>1. i - 1 = k /\ g[i-1] = f[k]
      BY <1>4, <2>1
    <3> QED BY <1>1, <1>2, <1>4, <2>1, <3>1
  <2>2. CASE i # k + 1
    <3>1. i \in 1..k /\ i \in 0..k /\ i - 1 \in 0..k
      BY <2>2
    <3>2. f[i] = f[i-1] + e[i].size + e[i].align
      BY <3>1 DEF IsRoom
    <3> QED BY <1>2, <1>4, <3>1, <3>2
  <2> QED BY <2>1, <2>2
<1>6. ASSUME b + g[k+1] <= Modulus, Placed(e, k, b, c, f)
      PROVE  r.offset + r.size < Modulus /\ Placed(d, k + 1, b, r.offset + r.size, g)
  <2>1. PICK m \in Nat : m = f[k]
    BY <1>3
  <2>2. b <= c /\ c + k <= b + m /\ b + m + z + a <= Modulus
    <3>1. b + (m + z + a) <= Modulus
      BY <1>4, <1>6, <2>1
    <3>2. b <= c /\ c + k <= b + f[k]
      BY <1>6 DEF Placed
    <3>3. b + m + z + a <= Modulus
      BY <2>1, <3>1 DEF Word
    <3> QED BY <2>1, <3>2, <3>3
  <2>3. c + a <= Modulus
    BY <2>2 DEF Word
  <2>4. c <= o /\ o <= c + a - 1 /\ o % a = 0
    BY <1>1, <2>3, AlignUpInRoom
  <2>5. o \in Word
    BY <1>1, AlignUpWord
  <2>6. o + z < Modulus /\ b <= o /\ b <= o + z /\ o + z + (k + 1) <= b + (m + z + a)
    BY <2>2, <2>4, <2>5 DEF Word
  <2>7. \A i \in 1..k : /\ e[i].offset >= b /\ e[i].offset % e[i].align = 0
                        /\ e[i].offset + e[i].size <= c /\ e[i].offset \in Nat /\ e[i].size \in Nat
    <3>1. \A i \in 1..k : e[i].offset \in Nat /\ e[i].size \in Nat
      <4>1. \A x \in EntryRecord : x.offset \in Nat /\ x.size \in Nat
        BY DEF EntryRecord, Word
      <4> QED BY <1>2, <4>1
    <3>2. \A i \in 1..k : e[i].offset >= b /\ e[i].offset % e[i].align = 0 /\ e[i].offset + e[i].size <= c
      BY <1>6 DEF Placed
    <3> QED BY <3>1, <3>2
  <2>8. \A i \in 1..k : e[i].offset + e[i].size <= o /\ e[i].offset + e[i].size <= o + z
    <3> TAKE i \in 1..k
    <3>1. PICK x \in Nat : x = e[i].offset + e[i].size
      BY <2>7
    <3>2. x <= c
      BY <2>7, <3>1
    <3>3. x <= o /\ x <= o + z
      BY <2>4, <2>5, <3>2 DEF Word
    <3> QED BY <3>1, <3>3
  <2>9. \A i, j \in 1..k : i < j => e[i].offset + e[i].size <= e[j].offset
    BY <1>6 DEF Placed
  <2>10. \A i \in 1..k+1 : /\ d[i].offset >= b /\ d[i].offset % d[i].align = 0
                           /\ d[i].offset + d[i].size <= o + z
    <3> SUFFICES ASSUME NEW i \in 1..k+1
                 PROVE  /\ d[i].offset >= b /\ d[i].offset % d[i].align = 0
                        /\ d[i].offset + d[i].size <= o + z
      OBVIOUS
    <3>1. CASE i = k + 1
      <4>1. d[i].offset = o /\ d[i].size = z /\ d[i].align = a
        BY <1>1, <1>2, <3>1
      <4>2. o >= b /\ o + z <= o + z
        BY <2>5, <2>6 DEF Word
      <4> QED BY <2>4, <4>1, <4>2
    <3>2. CASE i \in 1..k
      BY <1>2, <2>7, <2>8, <3>2
    <3> QED BY <3>1, <3>2
  <2>11. \A i, j \in 1..k+1 : i < j => d[i].offset + d[i].size <= d[j].offset
    <3> SUFFICES ASSUME NEW i \in 1..k+1, NEW j \in 1..k+1, i < j
                 PROVE  d[i].offset + d[i].size <= d[j].offset
      OBVIOUS
    <3>1. i \in 1..k
      OBVIOUS
    <3>2. CASE j = k + 1
      BY <1>1, <1>2, <2>8, <3>1, <3>2
    <3>3. CASE j \in 1..k
      BY <1>2, <2>9, <3>1, <3>3
    <3> QED BY <3>2, <3>3
  <2> QED BY <1>1, <1>4, <2>1, <2>6, <2>10, <2>11 DEF Placed
<1>7. f[k] <= g[k+1]
  BY <1>3, <1>4 DEF Word
<1> QED BY <1>5, <1>6, <1>7

\* What the two assignments of an iteration do to an entry.
LEMMA RewrittenEntry ==
  ASSUME NEW y \in EntryRecord, NEW v \in Word, NEW w \in Word
  PROVE  [y EXCEPT !.align = v, !.offset = w] = [size |-> y.size, align |-> v, offset |-> w]
<1> DEFINE z == [y EXCEPT !.align = v, !.offset = w]
<1>1. z.align = v /\ z.offset = w /\ z.size = y.size
  BY DEF EntryRecord
<1>2. z \in EntryRecord
  BY DEF EntryRecord
<1> HIDE DEF z
<1>3. z = [size |-> y.size, align |-> v, offset |-> w]
  BY <1>1, <1>2 DEF EntryRecord
<1> QED BY <1>3 DEF z

\* One iteration of the loop keeps the invariant: it fails only where the room is
\* not enough.
LEMMA PlaceEntryStep ==
  ASSUME OffsetsInv, PlaceEntry
  PROVE  OffsetsInv'
<1>1. /\ entries \in Seq(EntryRecord) /\ offsetBase \in Word /\ entryCursor \in Word
      /\ computing = "loop" /\ nextEntry \in Nat \ {0} /\ nextEntry <= Len(entries)
  BY DEF OffsetsInv, PlaceEntry
<1>2. PICK e \in Seq(EntryRecord), k \in Nat, b \in Word, c \in Word :
        e = entries /\ k + 1 = nextEntry /\ b = offsetBase /\ c = entryCursor
  <2>1. nextEntry - 1 \in Nat /\ (nextEntry - 1) + 1 = nextEntry
    BY <1>1
  <2> QED BY <1>1, <2>1
<1>3. e \in Seq(EntryRecord) /\ k + 1 <= Len(e) /\ k + 1 \in DOMAIN e /\ DOMAIN e = 1..Len(e) /\ Len(e) \in Nat
  <2>1. DOMAIN e = 1..Len(e) /\ Len(e) \in Nat
    BY <1>1, <1>2, LenProperties
  <2> QED BY <1>1, <1>2, <2>1
<1>4. PICK x \in EntryRecord : x = e[k+1]
  BY <1>3, ElementOfSeq
<1> DEFINE a == IF x.align = 0 THEN 1 ELSE x.align
           off == align_up(c, a)
           end == (off + x.size) % Modulus
           r == [size |-> x.size, align |-> a, offset |-> off]
<1>6. a \in Word \ {0} /\ x.size \in Word
  BY DEF EntryRecord, Word
<1> HIDE DEF a
<1>7. off \in Word
  BY <1>6, AlignUpWord
<1>5. /\ entries' = [e EXCEPT ![k+1] = r] /\ entryCursor' = end /\ offsetBase' = b
      /\ \/ end < off /\ computing' = "false" /\ nextEntry' = nextEntry
         \/ ~(end < off) /\ nextEntry' = nextEntry + 1 /\ computing' = computing
  <2>1. [e EXCEPT ![k+1].align = a, ![k+1].offset = off] = [e EXCEPT ![k+1] = r]
    <3>1. [x EXCEPT !.align = a, !.offset = off] = r
      BY <1>6, <1>7, RewrittenEntry
    <3> QED BY <1>3, <1>4, <3>1
  <2> QED BY <1>2, <1>4, <2>1 DEF PlaceEntry, Overflows, a
<1>8. r \in EntryRecord /\ r.align # 0 /\ r.offset = align_up(c, r.align) /\ r.size = x.size /\ r.offset = off
  BY <1>6, <1>7 DEF EntryRecord
<1> HIDE DEF r
<1>9. PICK o, z \in Word : o = off /\ z = x.size
  BY <1>6, <1>7
<1>10. end \in Word /\ (o + z < Modulus => end = o + z) /\ (o + z >= Modulus => end < o)
  <2>1. end = (o + z) % Modulus
    BY <1>9
  <2>2. CASE o + z < Modulus
    BY <2>1, <2>2 DEF Word
  <2>3. CASE o + z >= Modulus
    <3>1. (o + z) % Modulus = o + z - Modulus
      BY <2>3 DEF Word
    <3> QED BY <2>1, <2>3, <3>1 DEF Word
  <2> QED BY <2>2, <2>3 DEF Word
<1>11. LoopInv(k)
  <2>1. nextEntry - 1 = k
    BY <1>2
  <2> QED BY <1>1, <2>1 DEF OffsetsInv
<1>12. PICK f : IsRoom(f, k, e) /\ (b + f[k] <= Modulus => Placed(e, k, b, c, f))
  BY <1>2, <1>11 DEF LoopInv
<1>13. PICK d : d = entries'
  OBVIOUS
<1>14. PICK g : /\ IsRoom(g, k + 1, d) /\ f[k] <= g[k+1]
                /\ b + g[k+1] <= Modulus /\ Placed(e, k, b, c, f) =>
                     r.offset + r.size < Modulus /\ Placed(d, k + 1, b, r.offset + r.size, g)
  BY <1>3, <1>5, <1>8, <1>12, <1>13, PlacedNext
<1>15. f[k] \in Nat /\ g[k+1] \in Nat
  BY <1>12, <1>14 DEF IsRoom
<1>16. b + g[k+1] <= Modulus => o + z < Modulus /\ Placed(d, k + 1, b, o + z, g)
  <2> SUFFICES ASSUME b + g[k+1] <= Modulus PROVE o + z < Modulus /\ Placed(d, k + 1, b, o + z, g)
    OBVIOUS
  <2>1. b + f[k] <= Modulus
    BY <1>14, <1>15 DEF Word
  <2> QED BY <1>8, <1>9, <1>12, <1>14, <2>1
<1>17. /\ d \in Seq(EntryRecord) /\ Len(d) = Len(e)
       /\ \A i \in 1..k : d[i] = e[i]
       /\ d[k+1] = r
  BY <1>3, <1>5, <1>8, <1>13
<1> HIDE DEF end, off
<1>18. CASE end < off /\ computing' = "false" /\ nextEntry' = nextEntry
  <2>1. b + g[k+1] > Modulus
    BY <1>9, <1>10, <1>15, <1>16, <1>18 DEF Word
  <2>2. k + 1 \in 0..Len(d)
    BY <1>3, <1>17
  <2>3. \E kk \in 0..Len(entries') : \E ff : IsRoom(ff, kk, entries') /\ offsetBase' + ff[kk] > Modulus
    BY <1>5, <1>13, <1>14, <2>1, <2>2
  <2>4. entries' \in Seq(EntryRecord) /\ offsetBase' \in Word /\ entryCursor' \in Word /\ nextEntry' \in Nat \ {0}
    BY <1>1, <1>5, <1>10, <1>13, <1>17, <1>18
  <2> QED BY <1>18, <2>3, <2>4 DEF OffsetsInv
<1>19. CASE ~(end < off) /\ nextEntry' = nextEntry + 1 /\ computing' = computing
  <2>1. o + z < Modulus /\ end = o + z
    BY <1>9, <1>10, <1>19 DEF Word
  <2>2. \A i \in 1..k+1 : d[i].offset + d[i].size < Modulus
    <3> SUFFICES ASSUME NEW i \in 1..k+1 PROVE d[i].offset + d[i].size < Modulus
      OBVIOUS
    <3>1. CASE i = k + 1
      BY <1>8, <1>9, <1>17, <2>1, <3>1
    <3>2. CASE i \in 1..k
      BY <1>2, <1>11, <1>17, <3>2 DEF LoopInv
    <3> QED BY <3>1, <3>2
  <2>3. b + g[k+1] <= Modulus => Placed(d, k + 1, b, end, g)
    BY <1>16, <2>1
  <2>4. LoopInv(k + 1)'
    BY <1>5, <1>13, <1>14, <2>2, <2>3 DEF LoopInv
  <2>5. nextEntry' - 1 = k + 1 /\ k + 1 <= Len(entries')
    BY <1>2, <1>3, <1>13, <1>17, <1>19
  <2>6. LoopInv(nextEntry - 1)'
    BY <2>4, <2>5
  <2>7. entries' \in Seq(EntryRecord) /\ offsetBase' \in Word /\ entryCursor' \in Word /\ nextEntry' \in Nat \ {0}
    BY <1>1, <1>5, <1>10, <1>13, <1>17, <1>19
  <2> QED BY <1>1, <1>19, <2>5, <2>6, <2>7 DEF OffsetsInv
<1> QED BY <1>5, <1>18, <1>19

\* In every reachable state the entries placed so far are a sound layout, where
\* there is room.
LEMMA OffsetsInvariant == OffsetsSpec => []OffsetsInv
<1>1. OffsetsInit => OffsetsInv
  BY DEF OffsetsInit, OffsetsInv, Word
<1>2. OffsetsInv /\ [OffsetsNext]_offsetsVars => OffsetsInv'
  <2> SUFFICES ASSUME OffsetsInv, [OffsetsNext]_offsetsVars PROVE OffsetsInv'
    OBVIOUS
  <2>1. ASSUME NEW size \in Sizes, NEW alignment \in Alignments, PushEntry(size, alignment) PROVE OffsetsInv'
    <3>1. [size |-> size, align |-> alignment, offset |-> 0] \in EntryRecord
      BY OffsetsAssumption DEF EntryRecord, Word
    <3>2. entries' \in Seq(EntryRecord)
      BY <2>1, <3>1, AppendProperties DEF PushEntry, OffsetsInv
    <3> QED BY <2>1, <3>2 DEF PushEntry, OffsetsInv
  <2>2. ASSUME NEW b \in OffsetBases, compute_offsets(b) PROVE OffsetsInv'
    <3>1. b \in Word /\ b \in Nat /\ b <= b
      BY OffsetsAssumption DEF Word
    <3> DEFINE f == [i \in 0..0 |-> 0]
    <3>2. IsRoom(f, 0, entries) /\ Placed(entries, 0, b, b, f)
      BY <3>1 DEF IsRoom, Placed
    <3> HIDE DEF f
    <3>3. LoopInv(0)'
      BY <2>2, <3>2 DEF compute_offsets, LoopInv
    <3>4. nextEntry' - 1 = 0 /\ nextEntry' \in Nat \ {0}
      BY <2>2 DEF compute_offsets
    <3>5. LoopInv(nextEntry - 1)'
      BY <3>3, <3>4
    <3>6. Len(entries) \in Nat /\ entries' = entries
      BY <2>2, LenProperties DEF compute_offsets, OffsetsInv
    <3> QED BY <2>2, <3>1, <3>4, <3>5, <3>6 DEF compute_offsets, OffsetsInv
  <2>3. CASE PlaceEntry
    BY <2>3, PlaceEntryStep
  <2>4. CASE FinishLoop
    <3>1. Len(entries) \in Nat /\ nextEntry - 1 = Len(entries) /\ LoopInv(nextEntry - 1)
      <4>1. Len(entries) \in Nat
        BY LenProperties DEF OffsetsInv
      <4> QED BY <2>4, <4>1 DEF FinishLoop, OffsetsInv
    <3>2. LoopInv(Len(entries))'
      BY <2>4, <3>1 DEF FinishLoop, LoopInv
    <3> QED BY <2>4, <3>2 DEF FinishLoop, OffsetsInv
  <2>5. CASE UNCHANGED offsetsVars
    BY <2>5 DEF offsetsVars, OffsetsInv, LoopInv
  <2> QED BY <2>1, <2>2, <2>3, <2>4, <2>5 DEF OffsetsNext
<1> QED BY <1>1, <1>2, PTL DEF OffsetsSpec

\* A call of compute_offsets that comes back with true has left every entry with
\* an end that fits, for every width of a word, vector and base.
THEOREM EndsCorrect == OffsetsSpec => []TrueMeansEndsFit
<1>1. OffsetsInv => TrueMeansEndsFit
  <2> SUFFICES ASSUME OffsetsInv, computing = "true", NEW i \in DOMAIN entries
               PROVE  entries[i].offset + entries[i].size < Modulus
    BY DEF TrueMeansEndsFit
  <2>1. i \in 1..Len(entries)
    BY LenProperties DEF OffsetsInv
  <2> QED BY <2>1 DEF OffsetsInv, LoopInv
<1> QED BY <1>1, OffsetsInvariant, PTL

\* Where base, sizes and alignments leave room in a word, compute_offsets comes
\* back with true and a layout that is aligned and disjoint, for vectors of any
\* length, laid out before or not.
THEOREM RoomCorrect == OffsetsSpec => []RoomMeansSound
<1>1. OffsetsInv => RoomMeansSound
  <2> SUFFICES ASSUME OffsetsInv, computing \in {"true", "false"},
                      offsetBase + Room(Len(entries)) <= Modulus
               PROVE  /\ computing = "true" /\ Disjoint
                      /\ \A i \in DOMAIN entries : entries[i].offset % entries[i].align = 0
    BY DEF RoomMeansSound
  <2>1. PICK n \in Nat : n = Len(entries) /\ DOMAIN entries = 1..n
    BY LenProperties DEF OffsetsInv
  <2>2. PICK g : IsRoom(g, n, entries) /\ Room(Len(entries)) = g[n]
    BY <2>1, RoomIs DEF OffsetsInv
  <2>3. \A i \in 1..n : entries[i].size \in Nat /\ entries[i].align \in Nat
    <3>1. \A i \in 1..n : entries[i] \in EntryRecord
      BY <2>1, ElementOfSeq DEF OffsetsInv
    <3>2. \A x \in EntryRecord : x.size \in Nat /\ x.align \in Nat
      BY DEF EntryRecord, Word
    <3> QED BY <3>1, <3>2
  <2>4. ASSUME computing = "false" PROVE FALSE
    <3>0. PICK k \in 0..n : \E f : IsRoom(f, k, entries) /\ offsetBase + f[k] > Modulus
      BY <2>1, <2>4 DEF OffsetsInv
    <3>1. PICK f : IsRoom(f, k, entries) /\ offsetBase + f[k] > Modulus
      BY <3>0
    <3>2. f[k] = g[k] /\ g[k] <= g[n]
      BY <2>2, <2>3, <3>1, RoomGrows
    <3>3. g[k] \in Nat /\ g[n] \in Nat /\ offsetBase \in Nat
      BY <2>2 DEF IsRoom, OffsetsInv, Word
    <3> QED BY <2>2, <3>1, <3>2, <3>3
  <2>5. computing = "true"
    BY <2>4
  <2>6. PICK f : IsRoom(f, n, entries) /\ (offsetBase + f[n] <= Modulus => Placed(entries, n, offsetBase, entryCursor, f))
    BY <2>1, <2>5 DEF OffsetsInv, LoopInv
  <2>7. f[n] = g[n]
    <3>1. n \in 0..n
      OBVIOUS
    <3> QED BY <2>2, <2>3, <2>6, <3>1, RoomGrows
  <2>8. Placed(entries, n, offsetBase, entryCursor, f)
    BY <2>2, <2>6, <2>7
  <2> QED BY <2>1, <2>5, <2>8 DEF Placed, Disjoint
<1> QED BY <1>1, OffsetsInvariant, PTL

-----------------------------------------------------------------------------
\* A behaviour of the two layouters side by side is one of each, so that what is
\* proved of each alone holds of both.
THEOREM LayoutersCompose == LayoutSpec => Spec /\ OffsetsSpec
<1>1. LayoutInit => Init /\ OffsetsInit
  BY DEF LayoutInit
<1>2. [LayoutNext]_layoutVars => [Next]_vars /\ [OffsetsNext]_offsetsVars
  <2>1. CASE UNCHANGED layoutVars
    BY <2>1 DEF layoutVars
  <2>2. CASE LayoutNext
    BY <2>2 DEF LayoutNext
  <2> QED BY <2>1, <2>2
<1> QED BY <1>1, <1>2, PTL DEF LayoutSpec, Spec, OffsetsSpec
=============================================================================
