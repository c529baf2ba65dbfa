------------------------------ MODULE Induction ------------------------------
(***************************************************************************)
(* Induction and recursion over natural numbers, stated for sets and       *)
(* functions, so that the provers can apply them: what the loops of the    *)
(* library compute is proved from these facts.                             *)
(***************************************************************************)
EXTENDS Naturals, SequencesExt, SequenceTheorems, WellFoundedInduction, TLAPS

\* Every non-empty set of natural numbers has a least element.
LEMMA LeastElement ==
  ASSUME NEW T, T \subseteq Nat, T # {}
  PROVE  \E x \in T : \A y \in T : x <= y
<1>1. PICK x \in T : \A y \in T : ~(<<y, x>> \in OpToRel(<, Nat))
  BY NatLessThanWellFounded, WFMin
<1>2. \A a, b \in Nat : a < b => <<a, b>> \in OpToRel(<, Nat)
  BY DEF OpToRel
<1>3. ASSUME NEW y \in T, y < x  PROVE FALSE
  BY <1>1, <1>2, <1>3
<1>4. \A y \in T : x <= y
  BY <1>3
<1> QED BY <1>4

\* Induction up to a bound: what holds at 0 and passes from each number below
\* n to the next holds up to n.
LEMMA InductionTo ==
  ASSUME NEW n \in Nat, NEW T,
         0 \in T, \A i \in 0..n-1 : i \in T => i + 1 \in T
  PROVE  0..n \subseteq T
<1> DEFINE Bad == {i \in 0..n : i \notin T}
<1> SUFFICES ASSUME Bad # {} PROVE FALSE
  OBVIOUS
<1>1. PICK x \in Bad : \A y \in Bad : x <= y
  <2>1. Bad \subseteq Nat
    OBVIOUS
  <2> HIDE DEF Bad
  <2> QED BY <2>1, LeastElement
<1>2. x # 0 /\ x - 1 \in 0..n-1 /\ x - 1 \notin Bad
  BY <1>1
<1> QED BY <1>1, <1>2

\* f is c at 0, and g makes each value up to n from the one before.
Follows(f, n, c, g) == f[0] = c /\ \A i \in 1..n : f[i] = g[i][f[i-1]]

\* A function on 0..n may be defined by its value at 0 and by how each value
\* follows from the one before.
LEMMA RecursionTo ==
  ASSUME NEW S, NEW n \in Nat, NEW c \in S, NEW g \in [1..n -> [S -> S]]
  PROVE  \E f \in [0..n -> S] : Follows(f, n, c, g)
<1> DEFINE Upto(k, f) == f[0] = c /\ \A i \in 1..k : f[i] = g[i][f[i-1]]
           T == {k \in 0..n : \E f \in [0..k -> S] : Upto(k, f)}
<1>1. 0 \in T
  <2>1. [i \in 0..0 |-> c] \in [0..0 -> S] /\ Upto(0, [i \in 0..0 |-> c])
    OBVIOUS
  <2> HIDE DEF Upto
  <2>2. \E f \in [0..0 -> S] : Upto(0, f)
    BY <2>1
  <2> QED BY <2>2
<1>2. ASSUME NEW k \in 0..n-1, k \in T  PROVE k + 1 \in T
  <2>1. PICK f \in [0..k -> S] : Upto(k, f)
    BY <1>2
  <2> DEFINE h == [i \in 0..k+1 |-> IF i <= k THEN f[i] ELSE g[k+1][f[k]]]
  <2>2. g[k+1][f[k]] \in S
    BY <2>1
  <2>3. h \in [0..k+1 -> S]
    BY <2>1, <2>2
  <2>4. Upto(k + 1, h)
    BY <2>1
  <2> HIDE DEF h, Upto
  <2>5. \E e \in [0..k+1 -> S] : Upto(k + 1, e)
    BY <2>3, <2>4
  <2> QED BY <2>5
<1> HIDE DEF T
<1>3. 0..n \subseteq T
  BY <1>1, <1>2, InductionTo
<1>4. n \in T
  BY <1>3
<1> QED BY <1>4 DEF T, Follows

\* In flat the elements of the sequences of ss stand behind those of the
\* sequences before, in their order, and nothing else stands there: off[p] is
\* where those of the first p end.
StandsAt(flat, ss, off) ==
  /\ off[0] = 0 /\ \A p \in 1..Len(ss) : off[p] = off[p-1] + Len(ss[p])
  /\ Len(flat) = off[Len(ss)]
  /\ \A p \in 1..Len(ss) : \A i \in 1..Len(ss[p]) :
       /\ off[p-1] + i <= off[Len(ss)]
       /\ flat[off[p-1] + i] = ss[p][i]
  /\ \A k \in 1..off[Len(ss)] : \E p \in 1..Len(ss) : \E i \in 1..Len(ss[p]) :
       k = off[p-1] + i

\* What FlattenSeq computes.
LEMMA FlattenIs ==
  ASSUME NEW S, NEW ss \in Seq(Seq(S))
  PROVE  /\ FlattenSeq(ss) \in Seq(S)
         /\ \E off \in [0..Len(ss) -> Nat] : StandsAt(FlattenSeq(ss), ss, off)
<1>0. PICK n \in Nat : n = Len(ss)
  OBVIOUS
<1>1. \A p \in 1..n : ss[p] \in Seq(S) /\ Len(ss[p]) \in Nat
  BY <1>0
<1>2. PICK fl \in [0..n -> Seq(S)] : fl[0] = << >> /\ \A i \in 1..n : fl[i] = fl[i-1] \o ss[i]
  <2> DEFINE g == [i \in 1..n |-> [t \in Seq(S) |-> t \o ss[i]]]
  <2>1. g \in [1..n -> [Seq(S) -> Seq(S)]]
    BY <1>1
  <2>2. << >> \in Seq(S)
    OBVIOUS
  <2>3. \A i \in 1..n : \A t \in Seq(S) : g[i][t] = t \o ss[i]
    OBVIOUS
  <2> DEFINE Q == Seq(S)
  <2> HIDE DEF g
  <2>4. PICK f \in [0..n -> Seq(S)] : f[0] = << >> /\ \A i \in 1..n : f[i] = g[i][f[i-1]]
    <3>1. g \in [1..n -> [Q -> Q]]
      BY <2>1
    <3>2. PICK c \in Q : c = << >>
      BY <2>2
    <3> HIDE DEF Q
    <3>3. \E f \in [0..n -> Q] : Follows(f, n, c, g)
      BY <3>1, RecursionTo
    <3> QED BY <3>2, <3>3 DEF Q, Follows
  <2>5. \A i \in 1..n : i - 1 \in 0..n /\ f[i-1] \in Seq(S)
    BY <2>4
  <2>6. \A i \in 1..n : g[i][f[i-1]] = f[i-1] \o ss[i]
    BY <2>3, <2>5
  <2>7. \A i \in 1..n : f[i] = f[i-1] \o ss[i]
    BY <2>4, <2>6
  <2> QED BY <2>4, <2>7
<1>3. FlattenSeq(ss) = fl[n]
  <2>1. CASE n = 0
    <3>1. ss = << >>
      BY <1>0, <2>1, EmptySeq
    <3> QED BY <1>0, <1>2, <2>1, <3>1 DEF FlattenSeq
  <2>2. CASE n # 0
    <3> DEFINE Eq(f) == f = [i \in 1..n |-> IF i = 1 THEN ss[i] ELSE f[i-1] \o ss[i]]
               F == [i \in 1..n |-> fl[i]]
               flat == CHOOSE f : Eq(f)
    <3>1. fl[1] = ss[1]
      <4>1. 1 \in 1..n /\ 1 - 1 = 0 /\ ss[1] \in Seq(S)
        BY <1>1, <2>2
      <4>2. fl[1] = << >> \o ss[1]
        BY <1>2, <4>1
      <4> QED BY <4>1, <4>2, ConcatEmptySeq
    <3>2. \A i \in 1..n : fl[i] = IF i = 1 THEN ss[i] ELSE fl[i-1] \o ss[i]
      BY <1>2, <3>1
    <3>3. \A i \in 1..n : i # 1 => F[i-1] = fl[i-1]
      BY <1>1
    <3>4. Eq(F)
      BY <3>2, <3>3
    <3>5. Eq(flat)
      <4> HIDE DEF Eq, F
      <4> QED BY <3>4
    <3> HIDE DEF flat, F
    <3>6. \A i \in 1..n : flat[i] = IF i = 1 THEN ss[i] ELSE flat[i-1] \o ss[i]
      BY <3>5
    <3> DEFINE T == {i \in 0..n : i = 0 \/ flat[i] = fl[i]}
    <3>7. 0 \in T /\ \A i \in 0..n-1 : i \in T => i + 1 \in T
      <4>1. 0 \in T
        BY <1>1
      <4>2. ASSUME NEW i \in 0..n-1, i \in T PROVE i + 1 \in T
        <5>1. i + 1 \in 1..n /\ (i + 1) - 1 = i
          BY <1>1
        <5>2. CASE i = 0
          BY <3>1, <3>6, <5>1, <5>2
        <5>3. CASE i # 0
          <6>1. flat[i] = fl[i] /\ i + 1 # 1
            BY <4>2, <5>3
          <6>2. flat[i+1] = flat[i] \o ss[i+1]
            BY <3>6, <5>1, <6>1
          <6>3. fl[i+1] = fl[i] \o ss[i+1]
            BY <1>2, <5>1
          <6>4. flat[i+1] = fl[i+1]
            BY <6>1, <6>2, <6>3
          <6> HIDE DEF T
          <6> QED BY <5>1, <6>4 DEF T
        <5> QED BY <5>2, <5>3
      <4> QED BY <4>1, <4>2
    <3> HIDE DEF T
    <3>8. 0..n \subseteq T
      BY <1>1, <3>7, InductionTo
    <3>9. flat[n] = fl[n]
      BY <1>1, <2>2, <3>8 DEF T
    <3>10. FlattenSeq(ss) = flat[n]
      BY <1>0, <2>2, Zenon DEF FlattenSeq, flat
    <3> QED BY <3>9, <3>10
  <2> QED BY <2>1, <2>2
<1> DEFINE off == [p \in 0..n |-> Len(fl[p])]
<1>4. \A p \in 0..n : fl[p] \in Seq(S) /\ off[p] = Len(fl[p]) /\ off[p] \in Nat
  BY <1>2
<1>5. \A p \in 1..n : p - 1 \in 0..n /\ p \in 0..n
  OBVIOUS
<1> DEFINE len == [p \in 1..n |-> Len(ss[p])]
<1>6. ASSUME NEW p \in 1..n
      PROVE  /\ off[p] = off[p-1] + len[p]
             /\ \A i \in 1..off[p-1] : fl[p][i] = fl[p-1][i]
             /\ \A i \in 1..len[p] : fl[p][off[p-1] + i] = ss[p][i]
  <2>1. PICK a \in Seq(S), b \in Seq(S) : a = fl[p-1] /\ b = ss[p]
    BY <1>1, <1>4, <1>5
  <2>2. fl[p] = a \o b
    BY <1>2, <2>1
  <2>3. /\ Len(a \o b) = Len(a) + Len(b)
        /\ \A i \in 1..Len(a) : (a \o b)[i] = a[i]
        /\ \A i \in 1..Len(b) : (a \o b)[Len(a) + i] = b[i]
    OBVIOUS
  <2>4. off[p] = Len(fl[p]) /\ off[p-1] = Len(a) /\ len[p] = Len(b)
    BY <1>4, <1>5, <2>1
  <2> HIDE DEF off
  <2> QED BY <2>1, <2>2, <2>3, <2>4
<1>7. off \in [0..n -> Nat] /\ off[0] = 0
  BY <1>2, <1>4
<1> HIDE DEF off, len
<1>70. \A p \in 1..n : len[p] = Len(ss[p]) /\ len[p] \in Nat
  BY <1>1 DEF len
<1> DEFINE At(m) == /\ \A p \in 1..m : \A i \in 1..len[p] :
                         off[p-1] + i <= off[m] /\ fl[m][off[p-1] + i] = ss[p][i]
                    /\ \A k \in 1..off[m] : \E p \in 1..m : \E i \in 1..len[p] :
                         k = off[p-1] + i
           T == {m \in 0..n : At(m)}
<1>8. 0 \in T
  <2>1. At(0)
    BY <1>7
  <2> QED BY <2>1
<1>9. ASSUME NEW m \in 0..n-1, m \in T PROVE m + 1 \in T
  <2>0. At(m)
    BY <1>9
  <2>1. /\ m + 1 \in 1..n /\ (m + 1) - 1 = m /\ m \in Nat
        /\ off[m] \in Nat /\ off[m+1] \in Nat /\ len[m+1] \in Nat
    BY <1>4, <1>70
  <2>2. /\ off[m+1] = off[m] + len[m+1]
        /\ \A i \in 1..off[m] : fl[m+1][i] = fl[m][i]
        /\ \A i \in 1..len[m+1] : fl[m+1][off[m] + i] = ss[m+1][i]
    BY <1>6, <2>1
  <2>3. ASSUME NEW p \in 1..m+1, NEW i \in 1..len[p]
        PROVE  off[p-1] + i <= off[m+1] /\ fl[m+1][off[p-1] + i] = ss[p][i]
    <3>1. CASE p = m + 1
      BY <2>1, <2>2, <3>1
    <3>2. CASE p # m + 1
      <4>1. p \in 1..m /\ p - 1 \in 0..n /\ p \in 1..n
        BY <2>1, <3>2
      <4>2. off[p-1] \in Nat /\ len[p] \in Nat
        BY <1>4, <1>70, <4>1
      <4>3. off[p-1] + i <= off[m] /\ fl[m][off[p-1] + i] = ss[p][i]
        BY <2>0, <4>1
      <4>4. PICK x \in Nat : x = off[p-1] + i
        BY <4>2
      <4>5. x # 0 /\ x <= off[m] /\ off[m] <= off[m+1]
        <5>1. i \in Nat /\ i # 0
          BY <4>2
        <5>2. x # 0
          BY <4>2, <4>4, <5>1
        <5>3. off[m] <= off[m+1]
          BY <2>1, <2>2
        <5> QED BY <4>3, <4>4, <5>2, <5>3
      <4>6. x \in 1..off[m] /\ x <= off[m+1]
        BY <2>1, <4>5
      <4>7. fl[m+1][x] = fl[m][x]
        BY <2>2, <4>6
      <4> QED BY <4>3, <4>4, <4>6, <4>7
    <3> QED BY <3>1, <3>2
  <2>4. ASSUME NEW k \in 1..off[m+1]
        PROVE  \E p \in 1..m+1 : \E i \in 1..len[p] : k = off[p-1] + i
    <3>1. CASE k <= off[m]
      <4>1. PICK p \in 1..m : \E i \in 1..len[p] : k = off[p-1] + i
        <5>1. k \in 1..off[m]
          BY <2>1, <3>1
        <5> QED BY <2>0, <5>1
      <4>2. p \in 1..m+1
        OBVIOUS
      <4> QED BY <4>1, <4>2
    <3>2. CASE k > off[m]
      <4>0. PICK a, b, l \in Nat : a = off[m] /\ b = off[m+1] /\ l = len[m+1] /\ b = a + l
        BY <2>1, <2>2
      <4>a. b = a + l /\ k \in 1..b /\ k > a
        BY <3>2, <4>0
      <4>b. k - a \in 1..l /\ k = a + (k - a)
        BY ONLY <4>a, a \in Nat, b \in Nat, l \in Nat
      <4>1. k - off[m] \in 1..len[m+1] /\ k = off[m] + (k - off[m])
        BY <4>0, <4>b
      <4>2. m + 1 \in 1..m+1
        BY <2>1
      <4>3. \E i \in 1..len[m+1] : k = off[(m+1)-1] + i
        BY <2>1, <4>1
      <4> QED BY <4>2, <4>3
    <3> QED BY <2>1, <3>1, <3>2
  <2>5. At(m+1)
    BY <2>3, <2>4
  <2> HIDE DEF At
  <2> QED BY <2>1, <2>5
<1> HIDE DEF T, At
<1>10. 0..n \subseteq T
  BY <1>8, <1>9, InductionTo
<1>11. At(n)
  BY <1>10 DEF T
<1>12. /\ \A p \in 1..n : \A i \in 1..Len(ss[p]) :
            off[p-1] + i <= off[n] /\ fl[n][off[p-1] + i] = ss[p][i]
       /\ \A k \in 1..off[n] : \E p \in 1..n : \E i \in 1..Len(ss[p]) :
            k = off[p-1] + i
  BY <1>11, <1>70 DEF At
<1>13. fl[n] \in Seq(S) /\ Len(fl[n]) = off[n] /\ \A p \in 1..n : off[p] = off[p-1] + Len(ss[p])
  BY <1>4, <1>6, <1>70
<1>14. StandsAt(fl[n], ss, off)
  BY <1>0, <1>7, <1>12, <1>13 DEF StandsAt
<1> QED BY <1>0, <1>3, <1>7, <1>13, <1>14
=============================================================================
