--------------------------- MODULE Program_proofs ---------------------------
(***************************************************************************)
(* Proofs about Program for every list of sources, every setting, whatever *)
(* the checks report and wherever the run breaks off.  Everything main     *)
(* does to a list is Arrange: it removes duplicates, filters and sorts by  *)
(* taking elements at some positions in some order, so each proof follows  *)
(* positions from one list back to the one before.  The last section is    *)
(* about Report: the score of a proxy.                                     *)
(***************************************************************************)
EXTENDS Program, Report, WellFoundedInduction, SequenceTheorems, FiniteSetTheorems, TLAPS

-----------------------------------------------------------------------------
(* Induction over the naturals, for a set.                                 *)

LEMMA LeastNat ==
  ASSUME NEW T \in SUBSET Nat, T # {}
  PROVE  \E x \in T : \A y \in T : x <= y
<1> DEFINE R == {ss \in Nat \X Nat : ss[1] < ss[2]}
<1>1. IsWellFoundedOn(R, Nat)
  BY NatLessThanWellFounded DEF OpToRel
<1>2. \A x, y \in Nat : y < x => <<y, x>> \in R
  OBVIOUS
<1> HIDE DEF R
<1>3. PICK x \in T : \A y \in T : ~(<<y, x>> \in R)
  BY <1>1, WFMin, ZenonT(40)
<1>4. \A y \in T : ~(y < x)
  BY <1>2, <1>3
<1> QED BY <1>4

Inductive(S) == 0 \in S /\ \A n \in S : n + 1 \in S

LEMMA Induction ==
  ASSUME NEW S \in SUBSET Nat, Inductive(S)
  PROVE  S = Nat
<1>0. 0 \in S /\ \A n \in S : n + 1 \in S
  BY DEF Inductive
<1>1. SUFFICES ASSUME Nat \ S # {} PROVE FALSE
  OBVIOUS
<1>2. PICK x \in Nat \ S : \A y \in Nat \ S : x <= y
  BY <1>1, LeastNat
<1>3. x # 0 /\ x - 1 \in Nat
  BY <1>0, <1>2
<1>4. x - 1 \in S
  BY <1>2, <1>3
<1>5. (x - 1) + 1 = x
  BY <1>2
<1>6. (x - 1) + 1 \in S
  BY <1>0, <1>4
<1> QED BY <1>2, <1>5, <1>6

(* Sequences.                                                              *)
LEMMA FunSeq ==
  ASSUME NEW T, NEW n \in Nat, NEW s \in [1..n -> T]
  PROVE  s \in Seq(T) /\ Len(s) = n
<1>1. s \in Seq(T)
  BY SeqDef
<1>2. Len(s) \in Nat /\ DOMAIN s = 1..Len(s)
  BY <1>1, LenProperties
<1>3. 1..Len(s) = 1..n
  BY <1>2
<1>4. Len(s) = n
  BY <1>2, <1>3
<1> QED BY <1>1, <1>4

-----------------------------------------------------------------------------
(* Arrange: under a strict total order, elements have as many others       *)
(* before them as their place says.                                        *)

StrictOrder(R, I) ==
  /\ \A i \in I : <<i, i>> \notin R
  /\ \A i, j, k \in I : <<i, j>> \in R /\ <<j, k>> \in R => <<i, k>> \in R
  /\ \A i, j \in I : i # j => <<i, j>> \in R \/ <<j, i>> \in R

Preceding(R, I, i) == {j \in I : <<j, i>> \in R}

LEMMA CountBefore ==
  ASSUME NEW I, IsFiniteSet(I), NEW R, NEW i \in I, StrictOrder(R, I)
  PROVE  /\ Cardinality(I) \in Nat /\ Cardinality(Preceding(R, I, i)) \in Nat
         /\ Cardinality(Preceding(R, I, i)) < Cardinality(I)
         /\ IsFiniteSet(Preceding(R, I, i))
<1> DEFINE B == Preceding(R, I, i)
<1>1. B \in SUBSET I /\ i \notin B
  BY DEF StrictOrder, Preceding
<1> HIDE DEF B
<1>2. IsFiniteSet(B) /\ Cardinality(B) <= Cardinality(I) /\ Cardinality(B) # Cardinality(I)
  BY <1>1, FS_Subset
<1>3. Cardinality(B) \in Nat /\ Cardinality(I) \in Nat
  BY <1>2, FS_CardinalityType
<1> QED BY <1>2, <1>3 DEF B

LEMMA CountGrows ==
  ASSUME NEW I, IsFiniteSet(I), NEW R, NEW i \in I, NEW j \in I, StrictOrder(R, I),
         <<i, j>> \in R
  PROVE  Cardinality(Preceding(R, I, i)) < Cardinality(Preceding(R, I, j))
<1> DEFINE B == Preceding(R, I, i)
           C == Preceding(R, I, j)
<1>1. B \in SUBSET C /\ i \in C /\ i \notin B
  BY DEF StrictOrder, Preceding
<1>2. IsFiniteSet(C) /\ Cardinality(B) \in Nat /\ Cardinality(C) \in Nat
  BY CountBefore
<1> HIDE DEF B, C
<1>3. Cardinality(B) <= Cardinality(C) /\ Cardinality(B) # Cardinality(C)
  BY <1>1, <1>2, FS_Subset
<1> QED BY <1>2, <1>3 DEF B, C

LEMMA EveryPlace ==
  ASSUME NEW I, IsFiniteSet(I), NEW R, StrictOrder(R, I), NEW k \in 1..Cardinality(I)
  PROVE  \E i \in I : Cardinality(Preceding(R, I, i)) = k - 1
<1> DEFINE n == Cardinality(I)
           rank == [i \in I |-> Cardinality(Preceding(R, I, i)) + 1]
<1>1. n \in Nat /\ IsFiniteSet(1..n) /\ Cardinality(1..n) = n
  <2>1. n \in Nat
    BY FS_CardinalityType
  <2> QED BY <2>1, FS_Interval
<1>2. rank \in [I -> 1..n]
  <2>1. \A i \in I : Cardinality(Preceding(R, I, i)) + 1 \in 1..n
    BY CountBefore
  <2> QED BY <2>1
<1>3. \A i, j \in I : rank[i] = rank[j] => i = j
  <2> SUFFICES ASSUME NEW i \in I, NEW j \in I, rank[i] = rank[j], i # j PROVE FALSE
    OBVIOUS
  <2>1. Cardinality(Preceding(R, I, i)) \in Nat /\ Cardinality(Preceding(R, I, j)) \in Nat
    BY CountBefore
  <2>2. Cardinality(Preceding(R, I, i)) = Cardinality(Preceding(R, I, j))
    BY <2>1
  <2>3. <<i, j>> \in R \/ <<j, i>> \in R
    BY DEF StrictOrder
  <2> QED BY <2>1, <2>2, <2>3, CountGrows
<1>4. \A i \in I : rank[i] = Cardinality(Preceding(R, I, i)) + 1
  OBVIOUS
<1> HIDE DEF rank
<1>5. rank \in Injection(I, 1..n)
  BY <1>2, <1>3 DEF Injection, IsInjective
<1>6. rank \in Surjection(I, 1..n)
  BY <1>1, <1>5, FS_Injection
<1>7. PICK i \in I : rank[i] = k
  BY <1>6 DEF Surjection
<1>8. Cardinality(Preceding(R, I, i)) \in Nat
  BY CountBefore
<1> QED BY <1>4, <1>7, <1>8

(* a holds the elements of s at the positions I in the order R: its k-th   *)
(* element comes from pos[k].                                              *)
Places(a, s, I, R, pos) ==
  /\ pos \in [1..Len(a) -> I]
  /\ \A k \in 1..Len(a) : a[k] = s[pos[k]]
  /\ \A k, m \in 1..Len(a) : k < m => <<pos[k], pos[m]>> \in R
  /\ \A i \in I : \E k \in 1..Len(a) : pos[k] = i

LEMMA ArrangeProperties ==
  ASSUME NEW I, IsFiniteSet(I), NEW R, StrictOrder(R, I), NEW T, NEW s, \A i \in I : s[i] \in T
  PROVE  /\ Arrange(s, I, R) \in Seq(T)
         /\ Len(Arrange(s, I, R)) = Cardinality(I)
         /\ \E pos : Places(Arrange(s, I, R), s, I, R, pos)
<1> DEFINE n == Cardinality(I)
           pos == [k \in 1..n |-> CHOOSE i \in I : Cardinality(Preceding(R, I, i)) = k - 1]
<1>1. n \in Nat
  BY FS_CardinalityType
<1>2. \A k \in 1..n : pos[k] \in I /\ Cardinality(Preceding(R, I, pos[k])) = k - 1
  BY EveryPlace
<1>3. Arrange(s, I, R) = [k \in 1..n |-> s[pos[k]]]
  BY DEF Arrange, Preceding
<1>4. pos \in [1..n -> I]
  BY <1>2
<1> HIDE DEF pos
<1>5. [k \in 1..n |-> s[pos[k]]] \in [1..n -> T]
  BY <1>2
<1>6. Arrange(s, I, R) \in Seq(T) /\ Len(Arrange(s, I, R)) = n
  BY <1>1, <1>3, <1>5, FunSeq
<1>7. ASSUME NEW k \in 1..n, NEW m \in 1..n, k < m PROVE <<pos[k], pos[m]>> \in R
  <2>1. pos[k] \in I /\ pos[m] \in I /\ pos[k] # pos[m]
    BY <1>2, <1>7
  <2>2. CASE <<pos[m], pos[k]>> \in R
    <3>1. Cardinality(Preceding(R, I, pos[m])) < Cardinality(Preceding(R, I, pos[k]))
      BY <2>1, <2>2, CountGrows
    <3> QED BY <1>2, <1>7, <3>1
  <2> QED BY <2>1, <2>2 DEF StrictOrder
<1>8. ASSUME NEW i \in I PROVE \E k \in 1..n : pos[k] = i
  <2> DEFINE k == Cardinality(Preceding(R, I, i)) + 1
  <2>1. k \in 1..n /\ k - 1 = Cardinality(Preceding(R, I, i))
    BY CountBefore
  <2> HIDE DEF k
  <2>2. pos[k] \in I /\ Cardinality(Preceding(R, I, pos[k])) = Cardinality(Preceding(R, I, i))
    BY <1>2, <2>1
  <2>3. Cardinality(Preceding(R, I, i)) \in Nat
    BY CountBefore
  <2>4. CASE pos[k] # i
    <3>1. <<pos[k], i>> \in R \/ <<i, pos[k]>> \in R
      BY <2>2, <2>4 DEF StrictOrder
    <3> QED BY <2>2, <2>3, <3>1, CountGrows
  <2> QED BY <2>1, <2>4
<1>9. \A k \in 1..n : Arrange(s, I, R)[k] = s[pos[k]]
  BY <1>3
<1>10. Places(Arrange(s, I, R), s, I, R, pos)
  BY <1>4, <1>6, <1>7, <1>8, <1>9 DEF Places
<1> QED BY <1>6, <1>10

(* The elements at some positions keep their order.                        *)
Keeps(a, s, I, pos) ==
  /\ pos \in [1..Len(a) -> I]
  /\ \A k \in 1..Len(a) : a[k] = s[pos[k]]
  /\ \A k, m \in 1..Len(a) : k < m => pos[k] < pos[m]
  /\ \A i \in I : \E k \in 1..Len(a) : pos[k] = i

LEMMA AtProperties ==
  ASSUME NEW T, NEW s \in Seq(T), NEW I \in SUBSET DOMAIN s
  PROVE  At(s, I) \in Seq(T) /\ \E pos : Keeps(At(s, I), s, I, pos)
<1> DEFINE R == {ij \in I \X I : ij[1] < ij[2]}
<1>1. Len(s) \in Nat /\ DOMAIN s = 1..Len(s) /\ \A i \in DOMAIN s : s[i] \in T
  BY LenProperties, ElementOfSeq
<1>2. IsFiniteSet(I)
  <2>1. IsFiniteSet(1..Len(s))
    BY <1>1, FS_Interval
  <2> QED BY <1>1, <2>1, FS_Subset
<1>3. \A i, j \in I : i \in Int /\ j \in Int /\ (<<i, j>> \in R <=> i < j)
  BY <1>1
<1>4. At(s, I) = Arrange(s, I, R)
  BY DEF At
<1> HIDE DEF R
<1>5. StrictOrder(R, I)
  <2>1. \A i \in I : <<i, i>> \notin R
    BY <1>3
  <2>2. \A i, j, k \in I : <<i, j>> \in R /\ <<j, k>> \in R => <<i, k>> \in R
    BY <1>3
  <2>3. \A i, j \in I : i # j => <<i, j>> \in R \/ <<j, i>> \in R
    BY <1>3
  <2> QED BY <2>1, <2>2, <2>3 DEF StrictOrder
<1>6. \A i \in I : s[i] \in T
  BY <1>1
<1>7. At(s, I) \in Seq(T) /\ \E pos : Places(At(s, I), s, I, R, pos)
  BY <1>2, <1>4, <1>5, <1>6, ArrangeProperties
<1>8. PICK pos : Places(At(s, I), s, I, R, pos)
  BY <1>7
<1>9. Keeps(At(s, I), s, I, pos)
  BY <1>3, <1>8 DEF Places, Keeps
<1> QED BY <1>7, <1>9

LEMMA KeepsRange ==
  ASSUME NEW T, NEW a \in Seq(T), NEW s, NEW I, NEW pos, Keeps(a, s, I, pos)
  PROVE  ToSet(a) = {s[i] : i \in I}
<1>1. DOMAIN a = 1..Len(a)
  BY LenProperties
<1> QED BY <1>1 DEF Keeps, ToSet

LEMMA OnlyProperties ==
  ASSUME NEW T, NEW s \in Seq(T), NEW good
  PROVE  /\ Only(s, good) \in Seq(T)
         /\ \E pos : Keeps(Only(s, good), s, {i \in DOMAIN s : s[i] \in good}, pos)
         /\ ToSet(Only(s, good)) = ToSet(s) \cap good
<1> DEFINE I == {i \in DOMAIN s : s[i] \in good}
           a == Only(s, good)
<1>1. a \in Seq(T) /\ \E pos : Keeps(a, s, I, pos)
  BY AtProperties DEF Only
<1>3. ToSet(a) = {s[i] : i \in I}
  BY <1>1, KeepsRange
<1>4. ToSet(a) = ToSet(s) \cap good
  BY <1>3 DEF ToSet
<1> QED BY <1>1, <1>4 DEF a

(* Of the links with one key, Dedup keeps the one at the first position.   *)
LEMMA DedupProperties ==
  ASSUME NEW T, NEW ws \in Seq(T)
  PROVE  /\ Dedup(ws) \in Seq(T)
         /\ \A i, j \in DOMAIN Dedup(ws) : DedupKey(Dedup(ws)[i]) = DedupKey(Dedup(ws)[j]) => i = j
         /\ ToSet(Dedup(ws)) = {ws[k] : k \in {i \in DOMAIN ws :
                                    \A j \in 1..(i - 1) : DedupKey(ws[j]) # DedupKey(ws[i])}}
<1> DEFINE I == {i \in DOMAIN ws : \A j \in 1..(i - 1) : DedupKey(ws[j]) # DedupKey(ws[i])}
           a == Dedup(ws)
<1>1. a \in Seq(T) /\ \E pos : Keeps(a, ws, I, pos)
  BY AtProperties DEF Dedup
<1>2. PICK pos : Keeps(a, ws, I, pos)
  BY <1>1
<1>3. DOMAIN a = 1..Len(a) /\ Len(a) \in Nat /\ DOMAIN ws = 1..Len(ws) /\ Len(ws) \in Nat
  BY <1>1, LenProperties
<1> HIDE DEF a
<1>4. ToSet(a) = {ws[i] : i \in I}
  BY <1>1, KeepsRange
<1>5. ASSUME NEW i \in DOMAIN a, NEW j \in DOMAIN a, DedupKey(a[i]) = DedupKey(a[j]), i < j
      PROVE  FALSE
  <2>1. pos[i] \in I /\ pos[j] \in I /\ pos[i] < pos[j] /\ a[i] = ws[pos[i]] /\ a[j] = ws[pos[j]]
    BY <1>2, <1>3, <1>5 DEF Keeps
  <2>2. pos[i] \in 1..(pos[j] - 1)
    BY <1>3, <2>1
  <2> QED BY <1>5, <2>1, <2>2
<1>6. ASSUME NEW i \in DOMAIN a, NEW j \in DOMAIN a, DedupKey(a[i]) = DedupKey(a[j])
      PROVE  i = j
  <2>1. i \in Int /\ j \in Int
    BY <1>3
  <2> QED BY <1>5, <1>6, <2>1
<1> QED BY <1>1, <1>4, <1>6 DEF a

-----------------------------------------------------------------------------
(* Lists of lists, one after the other                                     *)

JoinUpTo(h, m, ss, T) ==
  /\ h \in [0..m -> Seq(T)]
  /\ h[0] = <<>>
  /\ \A i \in 1..m : h[i] = h[i - 1] \o ss[i]

LEMMA JoinsExist ==
  ASSUME NEW T, NEW ss \in Seq(Seq(T))
  PROVE  \E h : JoinUpTo(h, Len(ss), ss, T)
<1> DEFINE L == Len(ss)
           S == {m \in Nat : m <= L => \E h : JoinUpTo(h, m, ss, T)}
<1>1. L \in Nat /\ \A i \in 1..L : ss[i] \in Seq(T)
  OBVIOUS
<1> HIDE DEF L
<1>2. 0 \in S
  <2> DEFINE h == [i \in 0..0 |-> <<>>]
  <2>1. h \in [0..0 -> Seq(T)] /\ h[0] = <<>>
    OBVIOUS
  <2> HIDE DEF h
  <2>2. JoinUpTo(h, 0, ss, T)
    BY <2>1 DEF JoinUpTo
  <2> QED BY <2>2
<1>3. ASSUME NEW m \in S PROVE m + 1 \in S
  <2>1. SUFFICES ASSUME m + 1 <= L PROVE \E h : JoinUpTo(h, m + 1, ss, T)
    OBVIOUS
  <2>2. m \in Nat /\ m + 1 \in Nat
    OBVIOUS
  <2>3. PICK h : JoinUpTo(h, m, ss, T)
    BY <1>1, <2>1
  <2> HIDE DEF S
  <2> DEFINE new == h[m] \o ss[m + 1]
             g == [i \in 0..(m + 1) |-> IF i = m + 1 THEN new ELSE h[i]]
  <2>4. h \in [0..m -> Seq(T)] /\ h[0] = <<>> /\ \A i \in 1..m : h[i] = h[i - 1] \o ss[i]
    BY <2>3 DEF JoinUpTo
  <2>5. new \in Seq(T)
    <3>1. m \in 0..m /\ m + 1 \in 1..L
      BY <1>1, <2>1, <2>2
    <3>2. h[m] \in Seq(T) /\ ss[m + 1] \in Seq(T)
      BY <1>1, <2>4, <3>1
    <3> QED BY <3>2
  <2> HIDE DEF new
  <2>6. g \in [0..(m + 1) -> Seq(T)]
    <3>1. \A i \in 0..(m + 1) : i = m + 1 \/ i \in 0..m
      BY <2>2
    <3> QED BY <2>4, <2>5, <3>1
  <2>7. g[0] = <<>> /\ g[m + 1] = new /\ \A i \in 0..m : g[i] = h[i]
    BY <2>2, <2>4
  <2> HIDE DEF g
  <2>8. ASSUME NEW i \in 1..(m + 1) PROVE g[i] = g[i - 1] \o ss[i]
    <3>1. CASE i = m + 1
      <4>1. i - 1 = m /\ m \in 0..m
        BY <2>2, <3>1
      <4> QED BY <2>7, <3>1, <4>1 DEF new
    <3>2. CASE i # m + 1
      <4>1. i \in 1..m /\ i \in 0..m /\ i - 1 \in 0..m
        BY <2>2, <3>2
      <4> QED BY <2>4, <2>7, <4>1
    <3> QED BY <3>1, <3>2
  <2>9. JoinUpTo(g, m + 1, ss, T)
    BY <2>6, <2>7, <2>8 DEF JoinUpTo
  <2> QED BY <2>9
<1>4. S = Nat
  <2>1. S \in SUBSET Nat /\ Inductive(S)
    BY <1>2, <1>3 DEF Inductive
  <2> HIDE DEF S
  <2> QED BY <2>1, Induction
<1> QED BY <1>1, <1>4 DEF L

LEMMA JoinIs ==
  ASSUME NEW T, NEW ss \in Seq(Seq(T)), NEW f, JoinUpTo(f, Len(ss), ss, T)
  PROVE  FlattenSeq(ss) = f[Len(ss)]
<1> DEFINE L == Len(ss)
           h == CHOOSE g : g = [i \in 1..L |-> IF i = 1 THEN ss[i] ELSE g[i - 1] \o ss[i]]
           e(i) == IF i = 1 THEN ss[i] ELSE f[i - 1] \o ss[i]
           k == [i \in 1..L |-> f[i]]
<1>1. L \in Nat /\ \A i \in 1..L : ss[i] \in Seq(T)
  OBVIOUS
<1>2. /\ f \in [0..L -> Seq(T)] /\ f[0] = <<>>
      /\ \A i \in 1..L : f[i] = f[i - 1] \o ss[i]
  BY DEF JoinUpTo
<1>3. CASE L = 0
  BY <1>2, <1>3 DEF FlattenSeq
<1>4. CASE L # 0
  <2>1. FlattenSeq(ss) = h[L]
    BY <1>4, Zenon DEF FlattenSeq
  <2> HIDE DEF L
  <2>2. f[1] = ss[1]
    <3>1. 1 \in 1..L /\ 1 - 1 = 0
      BY <1>1, <1>4
    <3>2. f[1] = <<>> \o ss[1] /\ ss[1] \in Seq(T)
      BY <1>1, <1>2, <3>1
    <3> QED BY <3>2
  <2>3. k = [i \in 1..L |-> IF i = 1 THEN ss[i] ELSE k[i - 1] \o ss[i]]
    <3>1. ASSUME NEW i \in 1..L PROVE k[i] = IF i = 1 THEN ss[i] ELSE k[i - 1] \o ss[i]
      <4>1. CASE i = 1
        BY <2>2, <4>1
      <4>2. CASE i # 1
        <5>1. i - 1 \in 1..L
          BY <1>1, <4>2
        <5>2. k[i - 1] = f[i - 1] /\ k[i] = f[i]
          BY <5>1
        <5> HIDE DEF k
        <5> QED BY <1>2, <4>2, <5>2
      <4> QED BY <4>1, <4>2
    <3>2. \A i \in 1..L : f[i] = IF i = 1 THEN ss[i] ELSE k[i - 1] \o ss[i]
      BY <3>1
    <3> DEFINE d(i) == IF i = 1 THEN ss[i] ELSE k[i - 1] \o ss[i]
    <3>3. \A i \in 1..L : f[i] = d(i)
      BY <3>2
    <3> HIDE DEF d
    <3>4. k = [i \in 1..L |-> d(i)]
      BY <3>3
    <3> QED BY <3>4, Zenon DEF d
  <2> HIDE DEF k
  <2>4. h = [i \in 1..L |-> IF i = 1 THEN ss[i] ELSE h[i - 1] \o ss[i]]
    BY <2>3, Zenon
  <2> HIDE DEF h
  <2>5. \A i \in 1..L : h[i] = IF i = 1 THEN ss[i] ELSE h[i - 1] \o ss[i]
    BY <2>4, Zenon
  <2> DEFINE S == {m \in Nat : m + 1 <= L => f[m + 1] = h[m + 1]}
  <2>6. 0 \in S
    <3>1. 1 \in 1..L
      BY <1>1, <1>4
    <3>2. h[1] = ss[1]
      BY <2>5, <3>1
    <3> QED BY <2>2, <3>2
  <2>7. ASSUME NEW m \in S PROVE m + 1 \in S
    <3>1. m \in Nat /\ m + 1 \in Nat
      OBVIOUS
    <3>2. SUFFICES ASSUME (m + 1) + 1 <= L PROVE f[(m + 1) + 1] = h[(m + 1) + 1]
      BY <3>1
    <3>3. f[m + 1] = h[m + 1]
      BY <1>1, <3>1, <3>2
    <3> HIDE DEF S
    <3>4. (m + 1) + 1 \in 1..L /\ (m + 1) + 1 # 1 /\ ((m + 1) + 1) - 1 = m + 1
      BY <1>1, <3>1, <3>2
    <3>5. f[(m + 1) + 1] = f[m + 1] \o ss[(m + 1) + 1]
      BY <1>2, <3>4
    <3>6. h[(m + 1) + 1] = h[m + 1] \o ss[(m + 1) + 1]
      BY <2>5, <3>4
    <3> QED BY <3>3, <3>5, <3>6
  <2>8. S = Nat
    <3>1. S \in SUBSET Nat /\ Inductive(S)
      BY <2>6, <2>7 DEF Inductive
    <3> HIDE DEF S
    <3> QED BY <3>1, Induction
  <2>9. L - 1 \in Nat /\ (L - 1) + 1 = L
    BY <1>1, <1>4
  <2>10. f[L] = h[L]
    <3>1. L - 1 \in S
      BY <2>8, <2>9
    <3> QED BY <1>1, <2>9, <3>1
  <2> QED BY <2>1, <2>10 DEF L
<1> QED BY <1>3, <1>4

LEMMA JoinTyped ==
  ASSUME NEW T, NEW ss \in Seq(Seq(T))
  PROVE  FlattenSeq(ss) \in Seq(T)
<1>1. PICK f : JoinUpTo(f, Len(ss), ss, T)
  BY JoinsExist
<1>2. f[Len(ss)] \in Seq(T)
  BY <1>1 DEF JoinUpTo
<1> QED BY <1>1, <1>2, JoinIs

LEMMA ConcatRange ==
  ASSUME NEW T, NEW s \in Seq(T), NEW t \in Seq(T)
  PROVE  ToSet(s \o t) = ToSet(s) \cup ToSet(t)
<1>1. /\ Len(s) \in Nat /\ Len(t) \in Nat /\ DOMAIN s = 1..Len(s) /\ DOMAIN t = 1..Len(t)
      /\ DOMAIN (s \o t) = 1..(Len(s) + Len(t))
      /\ \A i \in 1..Len(s) : (s \o t)[i] = s[i]
      /\ \A i \in 1..Len(t) : (s \o t)[Len(s) + i] = t[i]
  OBVIOUS
<1>2. ASSUME NEW i \in DOMAIN (s \o t) PROVE (s \o t)[i] \in ToSet(s) \cup ToSet(t)
  <2>1. CASE i \in 1..Len(s)
    BY <1>1, <2>1 DEF ToSet
  <2>2. CASE i \notin 1..Len(s)
    <3>1. i - Len(s) \in 1..Len(t) /\ Len(s) + (i - Len(s)) = i
      BY <1>1, <2>2
    <3>2. (s \o t)[i] = t[i - Len(s)]
      BY <1>1, <3>1
    <3> QED BY <1>1, <3>1, <3>2 DEF ToSet
  <2> QED BY <2>1, <2>2
<1>3. \A i \in 1..Len(s) : i \in 1..(Len(s) + Len(t))
  BY <1>1
<1>4. \A i \in 1..Len(t) : Len(s) + i \in 1..(Len(s) + Len(t))
  BY <1>1
<1> QED BY <1>1, <1>2, <1>3, <1>4 DEF ToSet

LEMMA JoinRange ==
  ASSUME NEW T, NEW ss \in Seq(Seq(T))
  PROVE  ToSet(FlattenSeq(ss)) = UNION {ToSet(ss[i]) : i \in DOMAIN ss}
<1> DEFINE L == Len(ss)
           all(m) == UNION {ToSet(ss[i]) : i \in 1..m}
<1>0. L \in Nat /\ DOMAIN ss = 1..L /\ \A i \in 1..L : ss[i] \in Seq(T)
  OBVIOUS
<1>1. PICK f : JoinUpTo(f, L, ss, T)
  BY JoinsExist
<1>2. FlattenSeq(ss) = f[L]
  BY <1>1, JoinIs
<1> HIDE DEF L
<1>3. /\ f \in [0..L -> Seq(T)] /\ f[0] = <<>>
      /\ \A i \in 1..L : f[i] = f[i - 1] \o ss[i]
  BY <1>1 DEF JoinUpTo
<1> DEFINE S == {m \in Nat : m <= L => ToSet(f[m]) = all(m)}
<1>4. 0 \in S
  BY <1>3 DEF ToSet
<1>5. ASSUME NEW m \in S PROVE m + 1 \in S
  <2>1. m \in Nat /\ m + 1 \in Nat
    OBVIOUS
  <2>2. SUFFICES ASSUME m + 1 <= L PROVE ToSet(f[m + 1]) = all(m + 1)
    BY <2>1
  <2>3. ToSet(f[m]) = all(m)
    BY <1>0, <2>1, <2>2
  <2> HIDE DEF S
  <2>4. m \in 0..L /\ m + 1 \in 1..L /\ (m + 1) - 1 = m
    BY <1>0, <2>1, <2>2
  <2>5. f[m] \in Seq(T) /\ ss[m + 1] \in Seq(T) /\ f[m + 1] = f[m] \o ss[m + 1]
    BY <1>0, <1>3, <2>4
  <2>6. ToSet(f[m] \o ss[m + 1]) = ToSet(f[m]) \cup ToSet(ss[m + 1])
    BY <2>5, ConcatRange
  <2>7. all(m + 1) = all(m) \cup ToSet(ss[m + 1])
    <3>1. 1..(m + 1) = 1..m \cup {m + 1}
      BY <2>1
    <3> QED BY <3>1
  <2> QED BY <2>3, <2>5, <2>6, <2>7
<1>6. S = Nat
  <2>1. S \in SUBSET Nat /\ Inductive(S)
    BY <1>4, <1>5 DEF Inductive
  <2> HIDE DEF S
  <2> QED BY <2>1, Induction
<1>7. ToSet(f[L]) = all(L)
  <2>1. L \in S
    BY <1>0, <1>6
  <2> QED BY <1>0, <2>1
<1> QED BY <1>0, <1>2, <1>7

-----------------------------------------------------------------------------
(* Links: from the sources to the links to check.                          *)

LEMMA OwnRange ==
  ASSUME NEW T, NEW s \in Seq(T)
  PROVE  s \in Seq(ToSet(s)) /\ ToSet(s) \subseteq T
<1>1. Len(s) \in Nat /\ DOMAIN s = 1..Len(s) /\ s \in [1..Len(s) -> T]
  BY LenProperties
<1>2. s \in [1..Len(s) -> ToSet(s)]
  BY <1>1 DEF ToSet
<1> QED BY <1>1, <1>2, FunSeq DEF ToSet

(* The words of a line, the links in it.                                   *)
LEMMA ExtractedTyped ==
  ASSUME NEW line, NEW T, line.words \in Seq(T)
  PROVE  /\ Extracted(line) \in Seq(T \cup {Cleaned(w) : w \in T})
         /\ ToSet(Extracted(line)) \subseteq
              {w \in ToSet(line.words) : w.form = "hostport"}
              \cup {Cleaned(w) : w \in {x \in ToSet(line.words) : IsLink(x)}}
<1> DEFINE W == ToSet(line.words)
           found == Only(line.words, {w \in W : IsLink(w)})
           cleaned == [i \in DOMAIN found |-> Cleaned(found[i])]
           Both == T \cup {Cleaned(w) : w \in T}
<1>1. found \in Seq(T) /\ ToSet(found) = W \cap {w \in W : IsLink(w)}
  BY OnlyProperties
<1>2. W \subseteq T
  BY OwnRange
<1>3. Len(found) \in Nat /\ DOMAIN found = 1..Len(found)
  BY <1>1, LenProperties
<1>4. \A i \in DOMAIN found : found[i] \in T /\ found[i] \in ToSet(found)
  BY <1>1, <1>3, ElementOfSeq DEF ToSet
<1> HIDE DEF found
<1>5. cleaned \in Seq(Both) /\ Len(cleaned) = Len(found)
  <2>1. cleaned \in [1..Len(found) -> Both]
    BY <1>3, <1>4
  <2> QED BY <1>3, <2>1, FunSeq
<1>6. ToSet(cleaned) \subseteq {Cleaned(w) : w \in {x \in W : IsLink(x)}}
  BY <1>1, <1>4 DEF ToSet
<1>7. line.words \in Seq(Both)
  BY SeqMonotonic
<1>8. <<>> \in Seq(Both) /\ ToSet(<<>>) = {}
  BY EmptySeq DEF ToSet
<1>9. CASE line.comment
  BY <1>8, <1>9 DEF Extracted
<1>10. CASE ~line.comment /\ found # <<>>
  BY <1>5, <1>6, <1>10 DEF Extracted, found
<1>11. CASE ~line.comment /\ found = <<>>
  <2>1. CASE Len(line.words) = 1 /\ line.words[1].form = "hostport" /\ PlainHost(line.words[1].host)
    <3>1. Extracted(line) = line.words
      BY <1>11, <2>1 DEF Extracted, found
    <3>2. DOMAIN line.words = {1}
      <4>1. DOMAIN line.words = 1..1
        BY <2>1, LenProperties
      <4> QED BY <4>1
    <3>3. \A w \in W : w.form = "hostport"
      BY <2>1, <3>2 DEF ToSet
    <3> QED BY <1>7, <3>1, <3>3
  <2>2. CASE ~(Len(line.words) = 1 /\ line.words[1].form = "hostport" /\ PlainHost(line.words[1].host))
    <3>1. Extracted(line) = <<>>
      BY <1>11, <2>2 DEF Extracted, found
    <3> QED BY <1>8, <3>1
  <2> QED BY <2>1, <2>2
<1> QED BY <1>9, <1>10, <1>11

LEMMA ExtractProperties ==
  ASSUME NEW lines, NEW L, lines \in Seq(L), NEW T, \A l \in ToSet(lines) : l.words \in Seq(T)
  PROVE  /\ Extract(lines) \in Seq(T \cup {Cleaned(w) : w \in T})
         /\ ToSet(Extract(lines)) = UNION {ToSet(Extracted(lines[i])) : i \in DOMAIN lines}
<1> DEFINE Both == T \cup {Cleaned(w) : w \in T}
           ss == [i \in DOMAIN lines |-> Extracted(lines[i])]
<1>1. Len(lines) \in Nat /\ DOMAIN lines = 1..Len(lines)
  BY LenProperties
<1>2. \A i \in DOMAIN lines : lines[i].words \in Seq(T)
  BY DEF ToSet
<1>3. \A i \in DOMAIN lines : Extracted(lines[i]) \in Seq(Both)
  BY <1>2, ExtractedTyped
<1>4. ss \in [1..Len(lines) -> Seq(Both)]
  BY <1>1, <1>3
<1>5. ss \in Seq(Seq(Both)) /\ DOMAIN ss = DOMAIN lines
  BY <1>1, <1>4, FunSeq
<1>6. \A i \in DOMAIN lines : ss[i] = Extracted(lines[i])
  OBVIOUS
<1>7. Extract(lines) = FlattenSeq(ss)
  BY DEF Extract
<1> HIDE DEF ss, Both
<1>8. FlattenSeq(ss) \in Seq(Both)
  BY <1>5, JoinTyped
<1>9. ToSet(FlattenSeq(ss)) = UNION {ToSet(ss[i]) : i \in DOMAIN ss}
  BY <1>5, JoinRange
<1>10. UNION {ToSet(ss[i]) : i \in DOMAIN ss} = UNION {ToSet(Extracted(lines[i])) : i \in DOMAIN lines}
  BY <1>5, <1>6
<1> QED BY <1>7, <1>8, <1>9, <1>10 DEF Both

(* What is read from a source are words, cleaned or not.                   *)
LEMMA LinesTyped ==
  ASSUME NEW given \in Inputs, NEW s \in ToSet(given)
  PROVE  LinesOf(s) \in Seq(AllLinks)
<1>1. LinesOf(s) \in Seq(ToSet(LinesOf(s)))
  <2>1. s.lines \in Seq(ToSet(s.lines))
    BY InputsAssumption
  <2>2. CASE s.from = "args"
    BY <2>1, <2>2 DEF LinesOf
  <2>3. CASE s.from # "args"
    <3> DEFINE T == UNION {ToSet(l.words) : l \in ToSet(s.lines)}
    <3>1. ASSUME NEW l \in ToSet(s.lines) PROVE l.words \in Seq(T)
      <4>1. l.words \in Seq(ToSet(l.words))
        BY <2>3, InputsAssumption
      <4>2. ToSet(l.words) \subseteq T
        OBVIOUS
      <4> HIDE DEF T
      <4> QED BY <4>1, <4>2, SeqMonotonic
    <3> HIDE DEF T
    <3>2. Extract(s.lines) \in Seq(T \cup {Cleaned(w) : w \in T})
      BY <2>1, <3>1, ExtractProperties
    <3>3. Extract(s.lines) \in Seq(ToSet(Extract(s.lines)))
      BY <3>2, OwnRange
    <3> QED BY <2>3, <3>3 DEF LinesOf
  <2> QED BY <2>2, <2>3
<1>2. ToSet(LinesOf(s)) \subseteq AllLinks
  BY DEF AllLinks
<1> QED BY <1>1, <1>2, SeqMonotonic

LEMMA CleanedForm ==
  ASSUME NEW w, WellFormed(w), IsLink(w)
  PROVE  Cleaned(w).form = "url"
<1>1. w.form = "url"
  BY DEF IsLink
<1>2. "form" \in DOMAIN w
  BY DEF WellFormed
<1>3. Cleaned(w).form = w.form
  BY <1>2 DEF Cleaned
<1> QED BY <1>1, <1>3

LEMMA LinksAreWords ==
  ASSUME NEW l \in AllLinks
  PROVE  l.form \in {"url", "hostport", "other"} /\ l # NoLink
<1>0. PICK given \in Inputs : l \in UNION {ToSet(LinesOf(s)) : s \in ToSet(given)}
  BY DEF AllLinks
<1>1. PICK s \in ToSet(given) : l \in ToSet(LinesOf(s))
  BY <1>0
<1>2. s.lines \in Seq(ToSet(s.lines))
  BY InputsAssumption
<1>3. CASE s.from = "args"
  <2>1. WellFormed(l)
    BY <1>1, <1>3, InputsAssumption DEF LinesOf
  <2> QED BY <2>1 DEF WellFormed, NoLink
<1>4. CASE s.from # "args"
  <2> DEFINE T == UNION {ToSet(k.words) : k \in ToSet(s.lines)}
  <2>1. ASSUME NEW k \in ToSet(s.lines)
        PROVE  k.words \in Seq(T) /\ \A w \in ToSet(k.words) : WellFormed(w)
    <3>1. k.words \in Seq(ToSet(k.words)) /\ \A w \in ToSet(k.words) : WellFormed(w)
      BY <1>4, InputsAssumption
    <3>2. ToSet(k.words) \subseteq T
      OBVIOUS
    <3> HIDE DEF T
    <3> QED BY <3>1, <3>2, SeqMonotonic
  <2> HIDE DEF T
  <2>2. ToSet(Extract(s.lines)) = UNION {ToSet(Extracted(s.lines[i])) : i \in DOMAIN s.lines}
    BY <1>2, <2>1, ExtractProperties
  <2>3. PICK i \in DOMAIN s.lines : l \in ToSet(Extracted(s.lines[i]))
    BY <1>1, <1>4, <2>2 DEF LinesOf
  <2>4. s.lines[i] \in ToSet(s.lines)
    BY DEF ToSet
  <2>5. l \in {w \in ToSet(s.lines[i].words) : w.form = "hostport"}
              \cup {Cleaned(w) : w \in {x \in ToSet(s.lines[i].words) : IsLink(x)}}
    BY <2>1, <2>3, <2>4, ExtractedTyped
  <2>6. CASE l.form = "hostport"
    BY <2>6 DEF NoLink
  <2>7. CASE l.form # "hostport"
    <3>1. PICK w \in ToSet(s.lines[i].words) : IsLink(w) /\ l = Cleaned(w)
      BY <2>5, <2>7
    <3>2. l.form = "url"
      BY <2>1, <2>4, <3>1, CleanedForm
    <3> QED BY <3>2 DEF NoLink
  <2> QED BY <2>6, <2>7
<1> QED BY <1>3, <1>4

-----------------------------------------------------------------------------
(* The inductive invariant                                                 *)

Stages == {"collect", "filter", "check", "select", "emit", "save", "end"}

Succeeded == exit \in {"0", "1"}

(* What is left to read, and how the program stands.                       *)
Reading ==
  /\ cfg \in Settings
  /\ sources \in Seq(UNION {ToSet(given) : given \in Inputs})
  /\ collected \in Seq(AllLinks)
  /\ pc \in Stages /\ exit \in {"none", "0", "1", "2"}
  /\ pc = "end" <=> exit # "none"

(* The links to check are the collected ones without duplicates and        *)
(* without what the filters reject.                                        *)
Linked ==
  /\ pc = "filter" => links = Dedup(collected)
  /\ Filtered \/ Succeeded => links = Links(Dedup(collected), cfg)

(* What Run may return for ls.                                             *)
Runs(ls) == {rs \in [DOMAIN ls -> (UNION {ResultsOf(l) : l \in ToSet(ls)}) \cup {Zero}] :
               \A i \in DOMAIN ls : rs[i] \in ResultsOf(ls[i]) \cup {Zero}}

Arranges ==
  /\ pc = "select" => results \in Runs(links)
  /\ Arrived => /\ \E run \in Runs(links) : results = Arranged(run, cfg)
                /\ shown = Selected(results, cfg)

Written == Len(cfg.saves) - Len(saves)

IsLast(i) == \A j \in 1..Written : cfg.saves[j].path = cfg.saves[i].path => j <= i

(* The files the saves before the next one have written hold what the last *)
(* of those with their path was to save, and no others were touched.       *)
Filed ==
  /\ saves \in Seq(ToSet(cfg.saves)) /\ Len(saves) <= Len(cfg.saves)
  /\ \A k \in 1..Len(saves) : saves[k] = cfg.saves[Written + k]
  /\ DOMAIN files = Paths
  /\ pc \notin {"save", "end"} => saves = cfg.saves
  /\ exit # "2" => /\ \A i \in 1..Written : IsLast(i) =>
                        files[cfg.saves[i].path] = Content(cfg.saves[i])
                   /\ \A p \in Paths : (\A i \in 1..Written : cfg.saves[i].path # p)
                                        => files[p] = Held
  /\ Succeeded => /\ saves = <<>>
                  /\ exit = "0" <=> \E r \in ToSet(results) : Live(r)

IInv == Reading /\ Linked /\ Arranges /\ Filed /\ FailureStopsSaves

LEMMA InitIInv == Init => IInv
<1> SUFFICES ASSUME Init PROVE IInv
  OBVIOUS
<1>1. Reading
  <2>1. <<>> \in Seq(AllLinks)
    BY EmptySeq
  <2>2. sources \in Seq(UNION {ToSet(given) : given \in Inputs})
    <3>1. sources \in Inputs /\ sources \in Seq(ToSet(sources))
      BY InputsAssumption DEF Init
    <3>2. ToSet(sources) \subseteq UNION {ToSet(given) : given \in Inputs}
      BY <3>1
    <3> QED BY <3>1, <3>2, SeqMonotonic
  <2> QED BY <2>1, <2>2 DEF Init, Reading, Stages
<1>2. Linked /\ Arranges /\ FailureStopsSaves
  BY DEF Init, Linked, Filtered, Succeeded, Arranges, Arrived, FailureStopsSaves
<1>3. Filed
  <2>1. saves = cfg.saves /\ saves \in Seq(ToSet(cfg.saves))
    BY SettingsAssumption DEF Init
  <2>2. Len(saves) \in Nat /\ Written = 0
    BY <2>1, LenProperties DEF Written
  <2> QED BY <2>1, <2>2 DEF Init, Filed, Succeeded
<1> QED BY <1>1, <1>2, <1>3 DEF IInv

LEMMA ReadingStep == IInv /\ [Next]_vars => Reading'
<1> SUFFICES ASSUME Reading, [Next]_vars PROVE Reading'
  BY DEF IInv
<1> DEFINE Sources == UNION {ToSet(given) : given \in Inputs}
<1>1. CASE ReadSource
  <2>1. sources \in Seq(Sources) /\ sources # <<>>
    BY <1>1 DEF Reading, ReadSource
  <2> HIDE DEF Sources
  <2>2. Head(sources) \in Sources /\ Tail(sources) \in Seq(Sources)
    BY <2>1, HeadTailProperties
  <2>3. PICK given \in Inputs : Head(sources) \in ToSet(given)
    BY <2>2 DEF Sources
  <2>4. LinesOf(Head(sources)) \in Seq(AllLinks)
    BY <2>3, LinesTyped
  <2>5. collected' \in Seq(AllLinks)
    <3>1. collected' = collected \o LinesOf(Head(sources)) /\ collected \in Seq(AllLinks)
      BY <1>1 DEF ReadSource, Reading
    <3> QED BY <2>4, <3>1, ConcatProperties
  <2> QED BY <1>1, <2>2, <2>5 DEF Reading, ReadSource, GoTo, Stages, Sources
<1>2. CASE SourceFails \/ Collected \/ ApplyFilter \/ FilterFails
  BY <1>2 DEF Reading, SourceFails, Collected, ApplyFilter, FilterFails, Quit, GoTo, Stages
<1>3. CASE Run \/ Select \/ Emit \/ EmitFails
  BY <1>3 DEF Reading, Run, Select, Emit, EmitFails, Quit, GoTo, Stages
<1>4. CASE Save \/ SaveFails \/ Finish
  BY <1>4 DEF Reading, Save, SaveFails, Finish, Quit, GoTo, Stages
<1>5. CASE UNCHANGED vars
  BY <1>5 DEF Reading, vars
<1> QED BY <1>1, <1>2, <1>3, <1>4, <1>5 DEF Next

LEMMA LinkedStep == IInv /\ [Next]_vars => Linked'
<1> SUFFICES ASSUME Reading, Linked, [Next]_vars PROVE Linked'
  BY DEF IInv
<1> USE DEF Linked, Filtered, Succeeded, Quit, GoTo
<1>1. CASE ReadSource \/ SourceFails
  BY <1>1 DEF ReadSource, SourceFails, Reading
<1>2. CASE Collected
  BY <1>2 DEF Collected, Reading
<1>3. CASE ApplyFilter
  <2>1. links' = Links(links, cfg) /\ links = Dedup(collected) /\ UNCHANGED <<cfg, collected>>
        /\ pc' # "filter"
    BY <1>3 DEF ApplyFilter
  <2> QED BY <2>1
<1>4. CASE FilterFails \/ EmitFails \/ SaveFails
  BY <1>4 DEF FilterFails, EmitFails, SaveFails
<1>5. CASE Run \/ Select \/ Emit \/ Save
  BY <1>5 DEF Run, Select, Emit, Save, Reading
<1>6. CASE Finish
  BY <1>6 DEF Finish
<1>7. CASE UNCHANGED vars
  BY <1>7 DEF vars
<1> QED BY <1>1, <1>2, <1>3, <1>4, <1>5, <1>6, <1>7 DEF Next

LEMMA ArrangesStep == IInv /\ [Next]_vars => Arranges'
<1> SUFFICES ASSUME Reading, Arranges, [Next]_vars PROVE Arranges'
  BY DEF IInv
<1> USE DEF Arranges, Arrived, Quit, GoTo
<1>1. CASE ReadSource \/ SourceFails \/ Collected \/ ApplyFilter \/ FilterFails
  BY <1>1 DEF ReadSource, SourceFails, Collected, ApplyFilter, FilterFails, Reading
<1>2. CASE Run
  <2>1. results' \in Runs(links) /\ links' = links /\ pc' = "select" /\ exit' = exit /\ pc = "check"
    BY <1>2 DEF Run, Runs
  <2> QED BY <2>1 DEF Reading
<1>3. CASE Select
  <2>1. /\ results \in Runs(links) /\ results' = Arranged(results, cfg) /\ links' = links
        /\ shown' = Selected(results', cfg) /\ cfg' = cfg /\ pc' = "emit"
    BY <1>3 DEF Select
  <2> QED BY <2>1
<1>4. CASE Emit \/ Save \/ Finish
  <2>1. /\ Arrived /\ UNCHANGED <<results, shown, cfg, links>> /\ pc' # "select"
    BY <1>4 DEF Emit, Save, Finish
  <2> QED BY <2>1
<1>5. CASE EmitFails \/ SaveFails
  BY <1>5 DEF EmitFails, SaveFails
<1>6. CASE UNCHANGED vars
  BY <1>6 DEF vars
<1> QED BY <1>1, <1>2, <1>3, <1>4, <1>5, <1>6 DEF Next

LEMMA SavesFacts ==
  ASSUME Reading, Filed
  PROVE  /\ Len(cfg.saves) \in Nat /\ DOMAIN cfg.saves = 1..Len(cfg.saves)
         /\ Len(saves) \in Nat /\ Written \in 0..Len(cfg.saves)
         /\ \A i \in DOMAIN cfg.saves : cfg.saves[i].path \in Paths
         /\ saves # <<>> => /\ Written + 1 \in DOMAIN cfg.saves
                            /\ Head(saves) = cfg.saves[Written + 1]
                            /\ Head(saves).path \in Paths
<1>1. cfg.saves \in Seq(ToSet(cfg.saves)) /\ saves \in Seq(ToSet(cfg.saves)) /\ cfg \in Settings
  BY SettingsAssumption DEF Reading, Filed
<1>2. Len(cfg.saves) \in Nat /\ DOMAIN cfg.saves = 1..Len(cfg.saves) /\ Len(saves) \in Nat
  BY <1>1, LenProperties
<1>3. Len(saves) <= Len(cfg.saves) /\ \A k \in 1..Len(saves) : saves[k] = cfg.saves[Written + k]
  BY DEF Filed
<1>4. Written \in 0..Len(cfg.saves)
  BY <1>2, <1>3 DEF Written
<1>5. \A i \in DOMAIN cfg.saves : cfg.saves[i].path \in Paths
  BY <1>1 DEF Paths, ToSet
<1>6. ASSUME saves # <<>>
      PROVE  Written + 1 \in DOMAIN cfg.saves /\ Head(saves) = cfg.saves[Written + 1]
  <2>1. Len(saves) # 0 /\ Head(saves) = saves[1]
    BY <1>1, <1>6, EmptySeq, HeadTailProperties
  <2>2. 1 \in 1..Len(saves)
    BY <1>2, <2>1
  <2> QED BY <1>2, <1>3, <2>1, <2>2 DEF Written
<1> QED BY <1>2, <1>4, <1>5, <1>6

(* Until the first save nothing was written.                               *)
LEMMA NothingWritten ==
  ASSUME Reading, Filed, pc \notin {"save", "end"}
  PROVE  Written = 0 /\ saves = cfg.saves /\ \A p \in Paths : files[p] = Held
<1>1. saves = cfg.saves /\ exit # "2"
  BY DEF Filed, Reading
<1>2. Written = 0
  BY <1>1, SavesFacts DEF Written
<1> QED BY <1>1, <1>2 DEF Filed

LEMMA FailureStep == IInv /\ [Next]_vars => FailureStopsSaves'
<1> SUFFICES ASSUME Reading, Filed, FailureStopsSaves, [Next]_vars PROVE FailureStopsSaves'
  BY DEF IInv
<1> USE DEF Quit, GoTo
<1>1. CASE SourceFails \/ Collected \/ ApplyFilter \/ FilterFails \/ EmitFails
  <2>1. pc \notin {"save", "end"} /\ UNCHANGED <<cfg, saves, files>>
    BY <1>1 DEF SourceFails, Collected, ApplyFilter, FilterFails, EmitFails
  <2> QED BY <2>1, NothingWritten DEF FailureStopsSaves
<1>2. CASE SaveFails
  <2>1. /\ saves # <<>> /\ UNCHANGED <<cfg, saves>> /\ exit # "2"
        /\ \E left \in {files[Head(saves).path], Torn} :
             files' = [files EXCEPT ![Head(saves).path] = left]
    BY <1>2 DEF SaveFails, Reading
  <2>2. \A p \in Paths : p # Head(saves).path => files'[p] = files[p]
    BY <2>1 DEF Filed
  <2>3. \A p \in Paths : (\A i \in 1..Written : cfg.saves[i].path # p) => files[p] = Held
    BY <2>1 DEF Filed
  <2>4. ASSUME NEW p \in Paths,
               \A i \in 1..(Written + 1) : i \in DOMAIN cfg.saves => cfg.saves[i].path # p
        PROVE  files'[p] = Held
    <3>1. Head(saves).path # p
      BY <2>1, <2>4, SavesFacts
    <3>2. \A i \in 1..Written : i \in DOMAIN cfg.saves /\ i \in 1..(Written + 1)
      BY SavesFacts
    <3> QED BY <2>2, <2>3, <2>4, <3>1, <3>2
  <2> QED BY <2>1, <2>4 DEF FailureStopsSaves, Written
<1>3. CASE ReadSource \/ Run \/ Select \/ Emit \/ Save \/ Finish
  BY <1>3 DEF ReadSource, Run, Select, Emit, Save, Finish, FailureStopsSaves, Reading
<1>4. CASE UNCHANGED vars
  BY <1>4 DEF vars, FailureStopsSaves
<1> QED BY <1>1, <1>2, <1>3, <1>4 DEF Next

LEMMA FiledSaved ==
  ASSUME Reading, Filed, Save
  PROVE  Filed'
<1> DEFINE new == Head(saves)
           W == Written
<1>1. /\ saves # <<>> /\ saves' = Tail(saves) /\ UNCHANGED <<cfg, results, shown, exit>>
      /\ files' = [files EXCEPT ![new.path] = Content(new)] /\ pc' = "save"
      /\ exit = "none" /\ exit # "2"
  BY DEF Save, GoTo, Reading
<1>2. /\ Len(cfg.saves) \in Nat /\ Len(saves) \in Nat /\ W \in 0..Len(cfg.saves)
      /\ DOMAIN cfg.saves = 1..Len(cfg.saves)
      /\ W + 1 \in DOMAIN cfg.saves /\ new = cfg.saves[W + 1] /\ new.path \in Paths
      /\ \A i \in DOMAIN cfg.saves : cfg.saves[i].path \in Paths
  BY <1>1, SavesFacts
<1>3. saves \in Seq(ToSet(cfg.saves))
  BY DEF Filed
<1>4. /\ saves' \in Seq(ToSet(cfg.saves)) /\ Len(saves') = Len(saves) - 1
      /\ \A k \in 1..Len(saves') : saves'[k] = saves[k + 1]
  BY <1>1, <1>3, HeadTailProperties
<1>5. Written' = W + 1
  BY <1>1, <1>2, <1>4 DEF Written
<1>6. \A k \in 1..Len(saves') : saves'[k] = cfg.saves[(W + 1) + k]
  <2>1. \A k \in 1..Len(saves) : saves[k] = cfg.saves[W + k]
    BY DEF Filed
  <2>2. ASSUME NEW k \in 1..Len(saves') PROVE saves'[k] = cfg.saves[(W + 1) + k]
    <3>1. k + 1 \in 1..Len(saves) /\ W + (k + 1) = (W + 1) + k
      BY <1>2, <1>4
    <3> QED BY <1>4, <2>1, <3>1
  <2> QED BY <2>2
<1>7. DOMAIN files' = Paths /\ files'[new.path] = Content(new)
      /\ \A p \in Paths : p # new.path => files'[p] = files[p]
  BY <1>1, <1>2 DEF Filed
<1>8. \A f : Content(f)' = Content(f)
  BY <1>1 DEF Content, Chosen
<1> HIDE DEF W, new
<1>9. /\ \A i \in 1..W : IsLast(i) => files[cfg.saves[i].path] = Content(cfg.saves[i])
      /\ \A p \in Paths : (\A i \in 1..W : cfg.saves[i].path # p) => files[p] = Held
  BY <1>1 DEF Filed, W
<1>10. ASSUME NEW i \in 1..(W + 1),
              \A j \in 1..(W + 1) : cfg.saves[j].path = cfg.saves[i].path => j <= i
       PROVE  files'[cfg.saves[i].path] = Content(cfg.saves[i])
  <2>1. W + 1 \in 1..(W + 1) /\ i \in DOMAIN cfg.saves
    BY <1>2
  <2>2. CASE cfg.saves[i].path = new.path
    <3>1. i = W + 1
      BY <1>2, <1>10, <2>1, <2>2
    <3> QED BY <1>2, <1>7, <3>1
  <2>3. CASE cfg.saves[i].path # new.path
    <3>1. i \in 1..W
      BY <1>2, <2>3
    <3>2. \A j \in 1..W : j \in 1..(W + 1)
      BY <1>2
    <3>3. IsLast(i)
      BY <1>10, <3>2 DEF IsLast, W
    <3> QED BY <1>2, <1>7, <1>9, <2>1, <2>3, <3>1, <3>3
  <2> QED BY <2>2, <2>3
<1>11. ASSUME NEW p \in Paths, \A i \in 1..(W + 1) : cfg.saves[i].path # p
       PROVE  files'[p] = Held
  <2>1. W + 1 \in 1..(W + 1) /\ \A i \in 1..W : i \in 1..(W + 1)
    BY <1>2
  <2> QED BY <1>2, <1>7, <1>9, <1>11, <2>1
<1>12. \A i \in 1..Written' : IsLast(i)' => (files[cfg.saves[i].path] = Content(cfg.saves[i]))'
  <2>1. \A i : IsLast(i)' <=> \A j \in 1..(W + 1) : cfg.saves[j].path = cfg.saves[i].path => j <= i
    BY <1>1, <1>5 DEF IsLast
  <2>2. cfg' = cfg
    BY <1>1
  <2> QED BY <1>5, <1>8, <1>10, <2>1, <2>2
<1>13. cfg' = cfg /\ pc' = "save" /\ ~Succeeded'
  BY <1>1 DEF Succeeded
<1>14. Len(saves') <= Len(cfg.saves)
  <2>1. Len(saves) <= Len(cfg.saves)
    BY DEF Filed
  <2> QED BY <1>2, <1>4, <2>1
<1> QED BY <1>4, <1>5, <1>6, <1>7, <1>11, <1>12, <1>13, <1>14 DEF Filed

LEMMA FiledStep == IInv /\ [Next]_vars => Filed'
<1> SUFFICES ASSUME Reading, Filed, [Next]_vars PROVE Filed'
  BY DEF IInv
<1> USE DEF Quit, GoTo
<1>1. ASSUME pc \notin {"save", "end"}, UNCHANGED <<cfg, saves, files>>, exit' \in {exit, "2"}
      PROVE  Filed'
  <2>1. Written' = 0 /\ saves' = cfg'.saves /\ \A p \in Paths : files'[p] = Held
    BY <1>1, NothingWritten DEF Written
  <2>2. ~Succeeded'
    BY <1>1 DEF Succeeded, Reading
  <2>3. 1..Written' = {}
    BY <2>1
  <2>4. \A k \in 1..Len(saves') : saves'[k] = cfg'.saves[Written' + k]
    <3>1. Len(saves) \in Nat /\ saves' = saves
      BY <1>1, SavesFacts
    <3>2. \A k \in 1..Len(saves) : Written' + k = k
      BY <2>1, <3>1
    <3> QED BY <2>1, <3>1, <3>2
  <2>5. /\ saves' \in Seq(ToSet(cfg'.saves)) /\ Len(saves') <= Len(cfg'.saves)
        /\ DOMAIN files' = Paths
    BY <1>1 DEF Filed
  <2> QED BY <2>1, <2>2, <2>3, <2>4, <2>5 DEF Filed
<1>2. CASE ReadSource \/ SourceFails \/ Collected \/ ApplyFilter \/ FilterFails
  BY <1>1, <1>2 DEF ReadSource, SourceFails, Collected, ApplyFilter, FilterFails
<1>3. CASE Run \/ Select \/ Emit \/ EmitFails
  BY <1>1, <1>3 DEF Run, Select, Emit, EmitFails
<1>4. CASE Save
  BY <1>4, FiledSaved
<1>5. CASE SaveFails
  <2>1. /\ UNCHANGED <<cfg, saves>> /\ exit' = "2" /\ pc' = "end" /\ DOMAIN files' = DOMAIN files
    BY <1>5 DEF SaveFails
  <2> QED BY <2>1 DEF Filed, Written, Succeeded
<1>6. CASE Finish
  <2>1. /\ UNCHANGED <<cfg, saves, files, results, shown>> /\ saves = <<>> /\ exit # "2"
        /\ exit' = IF \E r \in ToSet(results) : Live(r) THEN "0" ELSE "1"
        /\ pc' = "end"
    BY <1>6 DEF Finish, Reading
  <2>2. \A f : Content(f)' = Content(f)
    BY <2>1 DEF Content, Chosen
  <2>3. Written' = Written /\ \A i : IsLast(i)' <=> IsLast(i)
    BY <2>1 DEF Written, IsLast
  <2>4. exit' # "2" /\ Succeeded' /\ (exit' = "0" <=> \E r \in ToSet(results') : Live(r))
    BY <2>1 DEF Succeeded
  <2> QED BY <2>1, <2>2, <2>3, <2>4 DEF Filed
<1>7. CASE UNCHANGED vars
  <2>1. UNCHANGED <<cfg, saves, files, results, shown, pc, exit>>
    BY <1>7 DEF vars
  <2>2. \A f : Content(f)' = Content(f)
    BY <2>1 DEF Content, Chosen
  <2> QED BY <2>1, <2>2 DEF Filed, Written, IsLast, Succeeded
<1> QED BY <1>2, <1>3, <1>4, <1>5, <1>6, <1>7 DEF Next

LEMMA Invariance == Spec => []IInv
<1>1. IInv /\ [Next]_vars => IInv'
  BY ReadingStep, LinkedStep, ArrangesStep, FiledStep, FailureStep DEF IInv
<1> QED BY InitIInv, <1>1, PTL DEF Spec

(* A run that fails while saving has touched no file after the one that    *)
(* failed, and one that fails before has touched none.                     *)
THEOREM FailuresStop == Spec => []FailureStopsSaves
<1>1. IInv => FailureStopsSaves
  BY DEF IInv
<1> QED BY <1>1, Invariance, PTL

LEMMA Greatest ==
  ASSUME NEW n \in Nat, NEW S \in SUBSET (1..n), S # {}
  PROVE  \E x \in S : \A y \in S : y <= x
<1> DEFINE D == {n - y : y \in S}
<1>1. D \in SUBSET Nat /\ D # {}
  <2>1. \A y \in S : n - y \in Nat
    OBVIOUS
  <2> QED BY <2>1
<1>2. PICK d \in D : \A e \in D : d <= e
  <2> HIDE DEF D
  <2> QED BY <1>1, LeastNat
<1>3. PICK x \in S : d = n - x
  BY <1>2
<1>4. \A y \in S : n - y \in D /\ y \in Int
  <2>1. \A y \in S : y \in Int
    OBVIOUS
  <2>2. \A y \in S : n - y \in D
    BY Zenon
  <2> QED BY <2>1, <2>2
<1> HIDE DEF D
<1>5. \A y \in S : n - x <= n - y
  BY <1>2, <1>3, <1>4
<1>6. \A y \in S : y <= x
  BY <1>3, <1>4, <1>5
<1> QED BY <1>6

LEMMA LastSaveIs ==
  ASSUME Reading, Filed, NEW p \in SavedPaths
  PROVE  /\ LastSave(p) \in DOMAIN cfg.saves /\ cfg.saves[LastSave(p)].path = p
         /\ \A j \in DOMAIN cfg.saves : cfg.saves[j].path = p => j <= LastSave(p)
<1> DEFINE n == Len(cfg.saves)
           S == {i \in DOMAIN cfg.saves : cfg.saves[i].path = p}
<1>1. n \in Nat /\ DOMAIN cfg.saves = 1..n
  BY SavesFacts
<1>2. S \in SUBSET (1..n) /\ S # {}
  BY <1>1 DEF SavedPaths, ToSet
<1> HIDE DEF n
<1>3. PICK x \in S : \A y \in S : y <= x
  <2> HIDE DEF S
  <2> QED BY <1>1, <1>2, Greatest
<1> QED BY <1>3 DEF LastSave

(* When the program ends with 0 or 1, each file holds what the last save   *)
(* with its path was to write.                                             *)
LEMMA FilesWhole ==
  ASSUME IInv, Succeeded, NEW p \in SavedPaths
  PROVE  files[p] = Content(cfg.saves[LastSave(p)])
<1> DEFINE l == LastSave(p)
<1>1. Reading /\ Filed /\ saves = <<>> /\ exit # "2"
  BY DEF IInv, Filed, Succeeded
<1>2. /\ l \in DOMAIN cfg.saves /\ cfg.saves[l].path = p
      /\ \A j \in DOMAIN cfg.saves : cfg.saves[j].path = p => j <= l
  BY <1>1, LastSaveIs
<1> HIDE DEF l
<1>3. Written = Len(cfg.saves) /\ DOMAIN cfg.saves = 1..Written
  <2>1. Len(saves) = 0
    BY <1>1, EmptySeq
  <2> QED BY <1>1, <2>1, SavesFacts DEF Written
<1>4. IsLast(l)
  BY <1>2, <1>3 DEF IsLast
<1>5. files[cfg.saves[l].path] = Content(cfg.saves[l])
  BY <1>1, <1>2, <1>3, <1>4 DEF Filed
<1> QED BY <1>2, <1>5 DEF l

(* Exit codes 0 and 1 promise that every file asked for was written whole, *)
(* and tell whether a live proxy passed the filters.                       *)
THEOREM ExitIsHonest == Spec => []ExitHonest
<1>1. IInv => ExitHonest
  <2> SUFFICES ASSUME IInv, Succeeded PROVE ExitHonest
    BY DEF ExitHonest, Succeeded
  <2>1. \A p \in SavedPaths : files[p] = Content(cfg.saves[LastSave(p)])
    BY FilesWhole
  <2>2. exit = "0" <=> \E r \in ToSet(results) : Live(r)
    BY DEF IInv, Filed
  <2> QED BY <2>1, <2>2 DEF ExitHonest
<1> QED BY <1>1, Invariance, PTL

-----------------------------------------------------------------------------
(* Duplicates and filters                                                  *)

LEMMA FirstExists ==
  ASSUME NEW T, NEW ws \in Seq(T), NEW l \in ToSet(ws)
  PROVE  \E i \in DOMAIN ws : /\ DedupKey(ws[i]) = DedupKey(l)
                              /\ \A j \in 1..(i - 1) : DedupKey(ws[j]) # DedupKey(l)
<1> DEFINE S == {i \in DOMAIN ws : DedupKey(ws[i]) = DedupKey(l)}
<1>1. Len(ws) \in Nat /\ DOMAIN ws = 1..Len(ws)
  BY LenProperties
<1>2. S \in SUBSET Nat /\ S # {}
  BY <1>1 DEF ToSet
<1>3. PICK i \in S : \A j \in S : i <= j
  <2> HIDE DEF S
  <2> QED BY <1>2, LeastNat
<1>4. ASSUME NEW j \in 1..(i - 1) PROVE DedupKey(ws[j]) # DedupKey(l)
  <2>1. i \in 1..Len(ws)
    BY <1>1
  <2>2. j \in DOMAIN ws /\ ~(i <= j)
    BY <1>1, <2>1
  <2> QED BY <1>3, <2>2
<1> QED BY <1>4

(* Of the links with the key of l, Dedup keeps one: the first.             *)
LEMMA DedupKeepsFirst ==
  ASSUME NEW T, NEW ws \in Seq(T), NEW i \in DOMAIN ws,
         \A j \in 1..(i - 1) : DedupKey(ws[j]) # DedupKey(ws[i])
  PROVE  \E d \in DOMAIN Dedup(ws) : Dedup(ws)[d] = ws[i]
<1>1. ws[i] \in ToSet(Dedup(ws))
  BY DedupProperties
<1> QED BY <1>1 DEF ToSet

(* The links to check have keys of their own.                              *)
LEMMA LinksDistinct ==
  ASSUME NEW T, NEW ws \in Seq(T), NEW c
  PROVE  LET ls == Links(Dedup(ws), c)
         IN  /\ ls \in Seq(T)
             /\ \A i, j \in DOMAIN ls : DedupKey(ls[i]) = DedupKey(ls[j]) => i = j
<1> DEFINE D == Dedup(ws)
           good == {l \in ToSet(D) : Kept(l, c)}
           I == {i \in DOMAIN D : D[i] \in good}
           ls == Links(D, c)
<1>1. /\ D \in Seq(T)
      /\ \A i, j \in DOMAIN D : DedupKey(D[i]) = DedupKey(D[j]) => i = j
  BY DedupProperties
<1>2. ls = Only(D, good)
  BY DEF Links
<1> HIDE DEF D, ls, good
<1>3. ls \in Seq(T) /\ \E pos : Keeps(ls, D, I, pos)
  BY <1>1, <1>2, OnlyProperties
<1>4. PICK pos : Keeps(ls, D, I, pos)
  BY <1>3
<1>5. DOMAIN ls = 1..Len(ls) /\ Len(ls) \in Nat /\ I \subseteq DOMAIN D /\ DOMAIN D \subseteq Int
  BY <1>1, <1>3, LenProperties
<1>6. ASSUME NEW i \in DOMAIN ls, NEW j \in DOMAIN ls, DedupKey(ls[i]) = DedupKey(ls[j])
      PROVE  i = j
  <2>1. pos[i] \in DOMAIN D /\ pos[j] \in DOMAIN D /\ ls[i] = D[pos[i]] /\ ls[j] = D[pos[j]]
    BY <1>4, <1>5 DEF Keeps
  <2>2. pos[i] = pos[j]
    BY <1>1, <1>6, <2>1
  <2>3. i < j => pos[i] < pos[j]
    BY <1>4, <1>5 DEF Keeps
  <2>4. j < i => pos[j] < pos[i]
    BY <1>4, <1>5 DEF Keeps
  <2>5. pos[i] \in Int /\ i \in Int /\ j \in Int
    BY <1>5, <2>1
  <2> QED BY <2>2, <2>3, <2>4, <2>5
<1> QED BY <1>3, <1>6 DEF ls, D

LEMMA OncePerKey ==
  ASSUME NEW T, NEW ws \in Seq(T), NEW c, NEW i \in DOMAIN ws,
         \A j \in 1..(i - 1) : DedupKey(ws[j]) # DedupKey(ws[i])
  PROVE  LET ls   == Links(Dedup(ws), c)
             mine == {m \in DOMAIN ls : DedupKey(ls[m]) = DedupKey(ws[i])}
         IN  IF Kept(ws[i], c) THEN \E k \in mine : mine = {k} /\ ls[k] = ws[i]
                               ELSE mine = {}
<1> DEFINE D == Dedup(ws)
           ls == Links(D, c)
           mine == {m \in DOMAIN ls : DedupKey(ls[m]) = DedupKey(ws[i])}
<1>1. D \in Seq(T) /\ \A a, b \in DOMAIN D : DedupKey(D[a]) = DedupKey(D[b]) => a = b
  BY DedupProperties
<1>2. PICK d \in DOMAIN D : D[d] = ws[i]
  BY DedupKeepsFirst
<1>3. \A a, b \in DOMAIN ls : DedupKey(ls[a]) = DedupKey(ls[b]) => a = b
  BY LinksDistinct
<1>4. ToSet(ls) = ToSet(D) \cap {l \in ToSet(D) : Kept(l, c)}
  BY <1>1, OnlyProperties DEF Links
<1> HIDE DEF D, ls
<1>5. CASE Kept(ws[i], c)
  <2>1. ws[i] \in ToSet(ls)
    BY <1>2, <1>4, <1>5 DEF ToSet
  <2>2. PICK k \in DOMAIN ls : ls[k] = ws[i]
    BY <2>1 DEF ToSet
  <2>3. mine = {k}
    BY <1>3, <2>2
  <2> QED BY <1>5, <2>2, <2>3 DEF ls, D
<1>6. CASE ~Kept(ws[i], c)
  <2>1. ASSUME NEW m \in mine PROVE FALSE
    <3>1. ls[m] \in ToSet(D) /\ Kept(ls[m], c)
      BY <1>4 DEF ToSet
    <3>2. PICK a \in DOMAIN D : D[a] = ls[m]
      BY <3>1 DEF ToSet
    <3>3. a = d
      BY <1>1, <1>2, <3>2
    <3> QED BY <1>2, <1>6, <3>1, <3>2, <3>3
  <2> QED BY <1>6, <2>1 DEF ls, D
<1> QED BY <1>5, <1>6

(* Every proxy found in the sources is checked exactly once, in the        *)
(* spelling that came first, unless the user's filters reject that one.    *)
THEOREM EveryProxyOnce == Spec => []OncePerProxy
<1>1. IInv => OncePerProxy
  <2> SUFFICES ASSUME IInv, Filtered, NEW l \in ToSet(collected)
               PROVE  LET mine == {i \in DOMAIN links : DedupKey(links[i]) = DedupKey(l)}
                      IN  IF Kept(First(l), cfg) THEN \E i \in mine : mine = {i} /\ links[i] = First(l)
                                                 ELSE mine = {}
    BY DEF OncePerProxy
  <2>1. links = Links(Dedup(collected), cfg) /\ collected \in Seq(AllLinks)
    BY DEF IInv, Linked, Reading
  <2> DEFINE f == CHOOSE i \in DOMAIN collected :
                    /\ DedupKey(collected[i]) = DedupKey(l)
                    /\ \A j \in 1..(i - 1) : DedupKey(collected[j]) # DedupKey(l)
  <2>2. /\ f \in DOMAIN collected /\ DedupKey(collected[f]) = DedupKey(l)
        /\ \A j \in 1..(f - 1) : DedupKey(collected[j]) # DedupKey(l)
    BY <2>1, FirstExists
  <2>3. First(l) = collected[f]
    BY DEF First
  <2> HIDE DEF f
  <2>4. LET mine == {m \in DOMAIN links : DedupKey(links[m]) = DedupKey(collected[f])}
        IN  IF Kept(collected[f], cfg) THEN \E k \in mine : mine = {k} /\ links[k] = collected[f]
                                       ELSE mine = {}
    BY <2>1, <2>2, OncePerKey
  <2> QED BY <2>2, <2>3, <2>4
<1> QED BY <1>1, Invariance, PTL

-----------------------------------------------------------------------------
(* Results: sorting and selecting                                          *)

Timed(rs) == \A i \in DOMAIN rs : rs[i].latency \in Nat

(* Live results come first, the faster ones before the slower ones.        *)
Sorted(rs) ==
  \A a, b \in DOMAIN rs : a < b /\ Live(rs[b]) => Live(rs[a]) /\ rs[a].latency <= rs[b].latency

(* a is made of elements of s, none taken twice.                           *)
Picks(a, s, pos) ==
  /\ pos \in [DOMAIN a -> DOMAIN s]
  /\ \A k \in DOMAIN a : a[k] = s[pos[k]]
  /\ \A k, m \in DOMAIN a : pos[k] = pos[m] => k = m

LEMMA PrecedesIsOrder ==
  ASSUME NEW T, NEW rs \in Seq(T), Timed(rs), NEW R,
         R = {ij \in (DOMAIN rs) \X (DOMAIN rs) : Precedes(rs, ij[1], ij[2])}
  PROVE  StrictOrder(R, DOMAIN rs)
<1> DEFINE I == DOMAIN rs
<1>1. I \subseteq Int
  BY LenProperties
<1>2. \A i \in I : rs[i].latency \in Nat /\ Live(rs[i]) \in BOOLEAN
  BY DEF Timed, Live
<1>3. \A i, j \in I : <<i, j>> \in R <=> Precedes(rs, i, j)
  OBVIOUS
<1> HIDE DEF I
<1>4. ASSUME NEW i \in I, NEW j \in I
      PROVE  Precedes(rs, i, j) <=>
               \/ Live(rs[i]) /\ ~Live(rs[j])
               \/ Live(rs[i]) /\ Live(rs[j]) /\ rs[i].latency < rs[j].latency
               \/ Live(rs[i]) /\ Live(rs[j]) /\ rs[i].latency = rs[j].latency /\ i < j
               \/ ~Live(rs[i]) /\ ~Live(rs[j]) /\ i < j
  BY <1>1, <1>2 DEF Precedes
<1>5. \A i \in I : <<i, i>> \notin R
  BY <1>1, <1>2, <1>3, <1>4
<1>6. ASSUME NEW i \in I, NEW j \in I, NEW k \in I, <<i, j>> \in R, <<j, k>> \in R
      PROVE  <<i, k>> \in R
  <2>1. Precedes(rs, i, j) /\ Precedes(rs, j, k)
    BY <1>3, <1>6
  <2>2. i \in Int /\ j \in Int /\ k \in Int
    BY <1>1
  <2>3. /\ rs[i].latency \in Nat /\ rs[j].latency \in Nat /\ rs[k].latency \in Nat
    BY <1>2
  <2>4. Precedes(rs, i, k)
    BY <1>4, <2>1, <2>2, <2>3
  <2> QED BY <1>3, <2>4
<1>7. ASSUME NEW i \in I, NEW j \in I, i # j PROVE <<i, j>> \in R \/ <<j, i>> \in R
  <2>1. /\ i \in Int /\ j \in Int /\ rs[i].latency \in Nat /\ rs[j].latency \in Nat
        /\ Live(rs[i]) \in BOOLEAN /\ Live(rs[j]) \in BOOLEAN
    BY <1>1, <1>2
  <2>2. Precedes(rs, i, j) \/ Precedes(rs, j, i)
    BY <1>4, <1>7, <2>1
  <2> QED BY <1>3, <2>2
<1> QED BY <1>5, <1>6, <1>7 DEF StrictOrder, I

LEMMA SortProperties ==
  ASSUME NEW T, NEW rs \in Seq(T), Timed(rs)
  PROVE  /\ SortByLatency(rs) \in Seq(T) /\ Len(SortByLatency(rs)) = Len(rs)
         /\ Sorted(SortByLatency(rs))
         /\ \E pos : Picks(SortByLatency(rs), rs, pos)
<1> DEFINE I == DOMAIN rs
           R == {ij \in (DOMAIN rs) \X (DOMAIN rs) : Precedes(rs, ij[1], ij[2])}
           a == SortByLatency(rs)
<1>1. Len(rs) \in Nat /\ I = 1..Len(rs) /\ \A i \in I : rs[i] \in T
  BY LenProperties, ElementOfSeq
<1>2. IsFiniteSet(I) /\ Cardinality(I) = Len(rs)
  <2>1. IsFiniteSet(1..Len(rs)) /\ Cardinality(1..Len(rs)) = Len(rs)
    BY <1>1, FS_Interval
  <2> QED BY <1>1, <2>1
<1>3. \A i, j \in I : <<i, j>> \in R => Precedes(rs, i, j)
  OBVIOUS
<1>4. StrictOrder(R, I)
  BY PrecedesIsOrder
<1>5. a = Arrange(rs, I, R)
  BY DEF SortByLatency
<1> HIDE DEF R, a, I
<1>6. a \in Seq(T) /\ Len(a) = Cardinality(I) /\ \E pos : Places(a, rs, I, R, pos)
  BY <1>1, <1>2, <1>4, <1>5, ArrangeProperties
<1>7. PICK pos : Places(a, rs, I, R, pos)
  BY <1>6
<1>8. DOMAIN a = 1..Len(a) /\ Len(a) \in Nat
  BY <1>6, LenProperties
<1>9. Sorted(a)
  <2> SUFFICES ASSUME NEW k \in DOMAIN a, NEW m \in DOMAIN a, k < m, Live(a[m])
               PROVE  Live(a[k]) /\ a[k].latency <= a[m].latency
    BY DEF Sorted
  <2>1. pos[k] \in I /\ pos[m] \in I /\ a[k] = rs[pos[k]] /\ a[m] = rs[pos[m]] /\ <<pos[k], pos[m]>> \in R
    BY <1>7, <1>8 DEF Places
  <2>2. Precedes(rs, pos[k], pos[m])
    BY <1>3, <2>1
  <2>3. rs[pos[k]].latency \in Nat /\ rs[pos[m]].latency \in Nat
    BY <2>1 DEF Timed, I
  <2> QED BY <2>1, <2>2, <2>3 DEF Precedes
<1>10. ASSUME NEW k \in DOMAIN a, NEW m \in DOMAIN a, pos[k] = pos[m]
       PROVE  k = m
  <2>1. k < m => <<pos[k], pos[m]>> \in R
    BY <1>7, <1>8 DEF Places
  <2>2. m < k => <<pos[m], pos[k]>> \in R
    BY <1>7, <1>8 DEF Places
  <2>3. <<pos[k], pos[k]>> \notin R
    BY <1>4, <1>7, <1>8 DEF StrictOrder, Places
  <2> QED BY <1>8, <1>10, <2>1, <2>2, <2>3
<1>11. Picks(a, rs, pos)
  BY <1>7, <1>8, <1>10 DEF Picks, Places, I
<1> QED BY <1>2, <1>6, <1>9, <1>11 DEF a

(* What is left when some results are dropped.                             *)
LEMMA FilterProperties ==
  ASSUME NEW T, NEW rs \in Seq(T), NEW good
  PROVE  /\ Only(rs, good) \in Seq(T)
         /\ \E pos : Picks(Only(rs, good), rs, pos)
         /\ Sorted(rs) => Sorted(Only(rs, good))
<1> DEFINE I == {i \in DOMAIN rs : rs[i] \in good}
           a == Only(rs, good)
<1>1. a \in Seq(T) /\ \E pos : Keeps(a, rs, I, pos)
  BY OnlyProperties
<1> HIDE DEF a
<1>2. PICK pos : Keeps(a, rs, I, pos)
  BY <1>1
<1>3. DOMAIN a = 1..Len(a) /\ Len(a) \in Nat
  BY <1>1, LenProperties
<1>4. DOMAIN rs \subseteq Int
  BY LenProperties
<1>5. \A k \in DOMAIN a : pos[k] \in DOMAIN rs /\ pos[k] \in Int /\ a[k] = rs[pos[k]]
  BY <1>2, <1>3, <1>4 DEF Keeps
<1>6. \A k, m \in DOMAIN a : k < m => pos[k] < pos[m]
  BY <1>2, <1>3 DEF Keeps
<1>7. \A k, m \in DOMAIN a : pos[k] = pos[m] => k = m
  BY <1>3, <1>5, <1>6
<1>8. pos \in [DOMAIN a -> DOMAIN rs]
  BY <1>2, <1>3 DEF Keeps
<1>9. Picks(a, rs, pos)
  BY <1>5, <1>7, <1>8 DEF Picks
<1>10. ASSUME Sorted(rs) PROVE Sorted(a)
  BY <1>5, <1>6, <1>10 DEF Sorted
<1> QED BY <1>1, <1>9, <1>10 DEF a

LEMMA PicksCompose ==
  ASSUME NEW a, NEW b, NEW c, NEW p, NEW q, Picks(b, a, p), Picks(c, b, q)
  PROVE  \E r : Picks(c, a, r)
<1> DEFINE r == [k \in DOMAIN c |-> p[q[k]]]
<1>1. Picks(c, a, r)
  BY DEF Picks
<1> QED BY <1>1

LEMMA PicksItself ==
  ASSUME NEW a
  PROVE  \E p : Picks(a, a, p)
<1>1. Picks(a, a, [k \in DOMAIN a |-> k])
  BY DEF Picks
<1> QED BY <1>1

(* --sort and --country: what spec.Results leaves of what Run returned.    *)
LEMMA ArrangedProperties ==
  ASSUME NEW T, NEW run \in Seq(T), Timed(run), NEW c
  PROVE  /\ Arranged(run, c) \in Seq(T)
         /\ \E pos : Picks(Arranged(run, c), run, pos)
         /\ c.countries = {} => Len(Arranged(run, c)) = Len(run)
         /\ c.sort => Sorted(Arranged(run, c))
<1> DEFINE base == IF c.sort THEN SortByLatency(run) ELSE run
<1>1. base \in Seq(T) /\ Len(base) = Len(run) /\ (c.sort => Sorted(base))
  BY SortProperties
<1>2. PICK p : Picks(base, run, p)
  BY SortProperties, PicksItself
<1>3. Arranged(run, c) = IF c.countries = {} THEN base
                         ELSE Only(base, {r \in ToSet(base) : r.country \in c.countries})
  BY DEF Arranged, InCountries
<1> HIDE DEF base
<1>4. CASE c.countries = {}
  BY <1>1, <1>2, <1>3, <1>4
<1>5. CASE c.countries # {}
  <2> DEFINE good == {r \in ToSet(base) : r.country \in c.countries}
             a == Only(base, good)
  <2>1. Arranged(run, c) = a
    BY <1>3, <1>5
  <2> HIDE DEF good
  <2>2. a \in Seq(T) /\ (Sorted(base) => Sorted(a)) /\ \E q : Picks(a, base, q)
    BY <1>1, FilterProperties
  <2>3. PICK q : Picks(a, base, q)
    BY <2>2
  <2> HIDE DEF a
  <2>4. \E r : Picks(a, run, r)
    BY <1>2, <2>3, PicksCompose
  <2> QED BY <1>1, <1>5, <2>1, <2>2, <2>4
<1> QED BY <1>4, <1>5

(* What Run returns for ls is a list of results with a latency.            *)
LEMMA RunsTyped ==
  ASSUME NEW T, NEW ls \in Seq(T), NEW run \in Runs(ls)
  PROVE  /\ run \in Seq((UNION {ResultsOf(l) : l \in ToSet(ls)}) \cup {Zero})
         /\ DOMAIN run = DOMAIN ls /\ Len(run) = Len(ls)
         /\ Timed(run)
<1> DEFINE Rs == (UNION {ResultsOf(l) : l \in ToSet(ls)}) \cup {Zero}
<1>1. Len(ls) \in Nat /\ DOMAIN ls = 1..Len(ls)
  BY LenProperties
<1>2. run \in [DOMAIN ls -> Rs]
  BY DEF Runs
<1>3. run \in Seq(Rs) /\ Len(run) = Len(ls)
  <2> HIDE DEF Rs
  <2> QED BY <1>1, <1>2, FunSeq
<1>4. ASSUME NEW r \in Rs PROVE r.latency \in Nat
  <2>1. CASE r = Zero
    BY <2>1 DEF Zero
  <2>2. CASE r # Zero
    <3>1. PICK l \in ToSet(ls) : r \in ResultsOf(l)
      BY <2>2
    <3>2. CASE Parses(l)
      BY <3>1, <3>2, ReportsAssumption DEF ResultsOf
    <3>3. CASE ~Parses(l)
      BY <3>1, <3>3 DEF ResultsOf, Invalid
    <3> QED BY <3>2, <3>3
  <2> QED BY <2>1, <2>2
<1> QED BY <1>1, <1>2, <1>3, <1>4 DEF Timed

(* A result of a link names that link.                                     *)
LEMMA ResultsName ==
  ASSUME NEW l, NEW r \in ResultsOf(l) \cup {Zero}
  PROVE  r # Zero => r.link = l
BY DEF ResultsOf, Invalid

(* --alive-only and --top: what is left out is no better than what is      *)
(* shown.                                                                  *)
LEMMA SelectedProperties ==
  ASSUME NEW T, NEW rs \in Seq(T), NEW c, c.top \in Int
  PROVE  /\ Selected(rs, c) \in Seq(T)
         /\ ToSet(Selected(rs, c)) \subseteq ToSet(rs)
         /\ Sorted(rs) =>
              \A r \in ToSet(rs) \ ToSet(Selected(rs, c)), s \in ToSet(Selected(rs, c)) :
                Live(r) => Live(s) /\ s.latency <= r.latency
<1> DEFINE base == IF c.aliveOnly THEN Alive(rs) ELSE rs
           top == Top(base, c.top)
<1>1. base \in Seq(T) /\ (Sorted(rs) => Sorted(base))
  BY FilterProperties DEF Alive
<1>2. ToSet(base) \subseteq ToSet(rs) /\ \A r \in ToSet(rs) : Live(r) => r \in ToSet(base)
  BY OnlyProperties DEF Alive
<1>3. Selected(rs, c) = top
  BY DEF Selected
<1> HIDE DEF base
<1>4. Len(base) \in Nat /\ DOMAIN base = 1..Len(base)
  BY <1>1, LenProperties
<1>5. PICK n \in 0..Len(base) : /\ top \in Seq(T) /\ DOMAIN top = 1..n
                                 /\ \A k \in 1..n : top[k] = base[k]
  <2>1. CASE c.top > 0 /\ Len(base) > c.top
    <3>1. top = SubSeq(base, 1, c.top)
      BY <2>1 DEF Top
    <3>2. c.top \in 0..Len(base)
      BY <1>4, <2>1
    <3>3. \A k \in 1..c.top : base[k] \in T
      BY <1>1, <1>4, <3>2, ElementOfSeq
    <3>4. Len(top) = c.top /\ \A k \in 1..c.top : top[k] = base[k]
      <4> HIDE DEF top
      <4> QED BY <1>1, <1>4, <2>1, <3>1, <3>2, SubSeqProperties
    <3>5. top \in Seq(T) /\ DOMAIN top = 1..c.top
      <4>1. top \in Seq(T)
        <5> HIDE DEF top
        <5> QED BY <1>1, <1>4, <2>1, <3>1, <3>2, <3>3, SubSeqProperties
      <4> QED BY <3>4, <4>1, LenProperties
    <3> QED BY <3>2, <3>4, <3>5
  <2>2. CASE ~(c.top > 0 /\ Len(base) > c.top)
    <3>1. top = base
      BY <2>2 DEF Top
    <3>2. Len(base) \in 0..Len(base)
      BY <1>4
    <3> HIDE DEF top
    <3> QED BY <1>1, <1>4, <3>1, <3>2
  <2> QED BY <2>1, <2>2
<1> HIDE DEF top
<1>6. ToSet(top) \subseteq ToSet(base)
  BY <1>4, <1>5 DEF ToSet
<1>7. ASSUME Sorted(rs), NEW r \in ToSet(rs) \ ToSet(top), NEW s \in ToSet(top), Live(r)
      PROVE  Live(s) /\ s.latency <= r.latency
  <2>1. PICK i \in 1..Len(base) : base[i] = r
    BY <1>2, <1>4, <1>7 DEF ToSet
  <2>2. PICK k \in 1..n : base[k] = s
    BY <1>5 DEF ToSet
  <2>3. i \notin 1..n
    BY <1>5, <2>1 DEF ToSet
  <2>4. k < i /\ k \in 1..Len(base)
    BY <1>4, <1>5, <2>3
  <2> QED BY <1>1, <1>4, <1>7, <2>1, <2>2, <2>4 DEF Sorted
<1> QED BY <1>2, <1>3, <1>5, <1>6, <1>7

(* The results left name links to check, each its own.                     *)
LEMMA ResultsOwn ==
  ASSUME IInv, Arrived
  PROVE  /\ \E T : results \in Seq(T)
         /\ \A i \in DOMAIN results : results[i] # Zero => results[i].link \in ToSet(links)
         /\ \A i, j \in DOMAIN results :
              results[i].link = results[j].link /\ results[i] # Zero => i = j
         /\ cfg.countries = {} => Len(results) = Len(links)
         /\ cfg.sort => Sorted(results)
<1>1. links = Links(Dedup(collected), cfg) /\ collected \in Seq(AllLinks)
  BY DEF IInv, Linked, Reading, Filtered, Arrived, Succeeded
<1>2. /\ links \in Seq(AllLinks)
      /\ \A i, j \in DOMAIN links : DedupKey(links[i]) = DedupKey(links[j]) => i = j
  BY <1>1, LinksDistinct
<1>3. PICK run \in Runs(links) : results = Arranged(run, cfg)
  BY DEF IInv, Arranges
<1> DEFINE T == (UNION {ResultsOf(l) : l \in ToSet(links)}) \cup {Zero}
<1>4. run \in Seq(T) /\ DOMAIN run = DOMAIN links /\ Len(run) = Len(links) /\ Timed(run)
  BY <1>2, RunsTyped
<1> HIDE DEF T
<1>5. /\ results \in Seq(T) /\ \E pos : Picks(results, run, pos)
      /\ cfg.countries = {} => Len(results) = Len(run)
      /\ cfg.sort => Sorted(results)
  BY <1>3, <1>4, ArrangedProperties
<1>6. PICK pos : Picks(results, run, pos)
  BY <1>5
<1>7. \A i \in DOMAIN results : /\ pos[i] \in DOMAIN links
                                /\ results[i] \in ResultsOf(links[pos[i]]) \cup {Zero}
  <2>1. \A k \in DOMAIN links : run[k] \in ResultsOf(links[k]) \cup {Zero}
    BY DEF Runs
  <2> QED BY <1>4, <1>6, <2>1 DEF Picks
<1>8. \A i \in DOMAIN results : results[i] # Zero => results[i].link = links[pos[i]]
  BY <1>7, ResultsName
<1>9. \A k \in DOMAIN links : links[k] # NoLink
  <2>1. \A k \in DOMAIN links : links[k] \in AllLinks
    BY <1>2, LenProperties, ElementOfSeq
  <2> QED BY <2>1, LinksAreWords
<1>10. ASSUME NEW i \in DOMAIN results, NEW j \in DOMAIN results,
              results[i].link = results[j].link, results[i] # Zero
       PROVE  i = j
  <2>1. results[i].link = links[pos[i]] /\ pos[i] \in DOMAIN links /\ pos[j] \in DOMAIN links
    BY <1>7, <1>8, <1>10
  <2>2. results[j] # Zero
    <3>1. Zero.link = NoLink
      BY DEF Zero
    <3> QED BY <1>9, <1>10, <2>1, <3>1
  <2>3. links[pos[i]] = links[pos[j]]
    BY <1>8, <1>10, <2>1, <2>2
  <2>4. pos[i] = pos[j]
    BY <1>2, <2>1, <2>3
  <2> QED BY <1>6, <2>4 DEF Picks
<1>11. \A i \in DOMAIN results : results[i] # Zero => results[i].link \in ToSet(links)
  BY <1>7, <1>8 DEF ToSet
<1> QED BY <1>4, <1>5, <1>10, <1>11

(* Sorting and selecting neither lose, repeat nor reassign a result, and   *)
(* with --sort, --top shows the best.                                      *)
THEOREM ResultsAreRight == Spec => []ShownIsRight
<1>1. IInv => ShownIsRight
  <2> SUFFICES ASSUME IInv, Arrived PROVE ShownIsRight
    BY DEF ShownIsRight
  <2>1. PICK T : results \in Seq(T)
    BY ResultsOwn
  <2>2. shown = Selected(results, cfg) /\ cfg.top \in Int
    BY SettingsAssumption DEF IInv, Arranges, Reading
  <2>3. Sorted(results) =>
          \A r \in ToSet(results) \ ToSet(shown), s \in ToSet(shown) :
            Live(r) => Live(s) /\ s.latency <= r.latency
    BY <2>1, <2>2, SelectedProperties
  <2> QED BY <2>3, ResultsOwn DEF ShownIsRight
<1> QED BY <1>1, Invariance, PTL

-----------------------------------------------------------------------------
(* Reading back what was saved                                             *)

(* A proxy as Parse returns it; its secret has no punctuation to lose.     *)
Proxy(t) ==
  /\ t = [kind |-> t.kind, host |-> t.host, port |-> t.port,
          secret |-> t.secret, user |-> t.user, pass |-> t.pass]
  /\ t.kind \in {"mtproto", "webproxy", "socks5", "tcp"}
  /\ t.host # Absent /\ ValidPort(t.port)
  /\ HasSecret(t.kind) => ValidSecret(t.secret) /\ Undotted(t.secret) = t.secret
  /\ t.kind = "tcp" => t.secret = Absent

(* The word a later run finds in a line with the link of t.                *)
Found(t) == IF t.kind = "tcp" THEN Canonical(t) ELSE Cleaned(Canonical(t))

Recognised(t) == t.kind = "tcp" => PlainHost(t.host)

Trimmed(q) ==
  IF q.pass # Absent THEN [q EXCEPT !.pass = Undotted(@)]
  ELSE IF q.user # Absent THEN [q EXCEPT !.user = Undotted(@)]
  ELSE IF q.secret # Absent THEN [q EXCEPT !.secret = Undotted(@)] ELSE q

(* What the parameters s, p, c, u, w of a tg:// link stand for.            *)
Asked(s, p, c, u, w) == [server |-> s, port |-> p, secret |-> c, user |-> u, pass |-> w]

LEMMA ParseGivesProxy ==
  ASSUME NEW l \in AllLinks, Parses(l)
  PROVE  Proxy(Parse(l))
<1>1. l.form \in {"url", "hostport", "other"}
  BY LinksAreWords
<1>2. HasSecret(Parse(l).kind) => Undotted(Parse(l).secret) = Parse(l).secret
  BY SecretsAssumption
<1>3. CASE l.form = "url"
  <2> DEFINE kind == KindOf(l)
             host == IF Direct(l) THEN l.host ELSE Query(l).server
             port == IF kind = "webproxy" /\ (IF Direct(l) THEN l.port ELSE Query(l).port) = NoPort
                     THEN 443 ELSE (IF Direct(l) THEN l.port ELSE Query(l).port)
             user == IF Direct(l) /\ l.account # <<>> THEN l.account[1] ELSE Query(l).user
             pass == IF Direct(l) /\ Len(l.account) = 2 THEN l.account[2] ELSE Query(l).pass
  <2>1. kind \in {"mtproto", "webproxy", "socks5", "tcp"}
        /\ (kind = "tcp" => Query(l).secret = Absent)
    BY DEF KindOf
  <2>2. /\ Parse(l) = [kind |-> kind, host |-> host, port |-> port,
                       secret |-> Query(l).secret, user |-> user, pass |-> pass]
        /\ host # Absent /\ ValidPort(port) /\ (HasSecret(kind) => ValidSecret(Query(l).secret))
    BY <1>3 DEF Parse, Parses, FromURL
  <2> HIDE DEF kind, host, port, user, pass
  <2> QED BY <1>2, <2>1, <2>2 DEF Proxy
<1>4. CASE l.form = "hostport"
  <2>1. /\ Parse(l) = [kind |-> "tcp", host |-> l.host, port |-> l.port,
                       secret |-> Absent, user |-> Absent, pass |-> Absent]
        /\ l.host # Absent /\ ValidPort(l.port)
    BY <1>4 DEF Parse, Parses, FromHostPort
  <2> QED BY <2>1 DEF Proxy, HasSecret
<1>5. CASE l.form = "other"
  BY <1>5 DEF Parse, Parses
<1> QED BY <1>1, <1>3, <1>4, <1>5

(* A tg:// link with a server: its topic names the kind, unless it takes a *)
(* secret to tell.                                                         *)
LEMMA ParseTgLink ==
  ASSUME NEW topic \in {"proxy", "webproxy", "socks"}, NEW s, NEW p, NEW c, NEW u, NEW w,
         s # Absent
  PROVE  LET l    == TgLink(topic, Asked(s, p, c, u, w))
             kind == CASE topic = "socks" -> "socks5"
                       [] topic = "webproxy" -> "webproxy"
                       [] topic = "proxy" -> IF c # Absent THEN "mtproto" ELSE "tcp"
             port == IF kind = "webproxy" /\ p = NoPort THEN 443 ELSE p
         IN  /\ IsLink(l)
             /\ Cleaned(l) = TgLink(topic, Trimmed(Asked(s, p, c, u, w)))
             /\ ValidPort(port) /\ (HasSecret(kind) => ValidSecret(c)) =>
                  Parse(l) = [kind |-> kind, host |-> s, port |-> port,
                              secret |-> c, user |-> u, pass |-> w]
<1> DEFINE q == Asked(s, p, c, u, w)
           l == TgLink(topic, q)
           kind == CASE topic = "socks" -> "socks5"
                     [] topic = "webproxy" -> "webproxy"
                     [] topic = "proxy" -> IF c # Absent THEN "mtproto" ELSE "tcp"
           port == IF kind = "webproxy" /\ p = NoPort THEN 443 ELSE p
<1>1. /\ l.form = "url" /\ l.scheme = "tg" /\ l.host = topic /\ l.port = NoPort
      /\ l.path = Absent /\ l.query = q /\ l.escapes = 0
  BY DEF TgLink
<1>2. Lower("tg") = "tg" /\ Lower(topic) = topic
  BY LowerAssumption
<1>3. IsLink(l)
  BY <1>1, <1>2 DEF IsLink
<1>4. Query(l) = q
  BY <1>1 DEF Query
<1>5. q.server = s /\ q.port = p /\ q.secret = c /\ q.user = u /\ q.pass = w
  BY DEF Asked
<1>6. Cleaned(l) = TgLink(topic, Trimmed(q))
  <2>1. Cleaned(l) = [l EXCEPT !.query = Trimmed(q), !.escapes = 0]
    BY <1>1 DEF Cleaned, Trimmed
  <2> QED BY <2>1 DEF TgLink
<1>7. Topic(l) = topic
  BY <1>1, <1>2 DEF Topic
<1>8. KindOf(l) = kind
  BY <1>1, <1>2, <1>4, <1>5, <1>7 DEF KindOf, SocksSchemes
<1>9. ~Direct(l)
  BY <1>4, <1>5 DEF Direct
<1>10. Parse(l) = FromURL(l)
  BY <1>1 DEF Parse
<1> HIDE DEF l, q, kind
<1>11. ASSUME ValidPort(port), HasSecret(kind) => ValidSecret(c)
       PROVE  Parse(l) = [kind |-> kind, host |-> s, port |-> port,
                          secret |-> c, user |-> u, pass |-> w]
  BY <1>4, <1>5, <1>8, <1>9, <1>10, <1>11 DEF FromURL
<1> QED BY <1>3, <1>6, <1>11 DEF l, q, kind

LEMMA AskedExtends ==
  ASSUME NEW r, r = [k \in DOMAIN r |-> r[k]],
         DOMAIN r = {"server", "port", "secret", "user", "pass"}
  PROVE  r = Asked(r.server, r.port, r.secret, r.user, r.pass)
BY DEF Asked

LEMMA CanonicalIs ==
  ASSUME NEW t
  PROVE  /\ t.kind = "mtproto" =>
              Canonical(t) = TgLink("proxy", Asked(t.host, t.port, t.secret, Absent, Absent))
         /\ t.kind = "webproxy" =>
              Canonical(t) = TgLink("webproxy", Asked(t.host, NoPort, t.secret, Absent, Absent))
         /\ t.kind = "socks5" =>
              Canonical(t) = TgLink("socks", Asked(t.host, t.port, Absent, t.user, t.pass))
<1>1. [NoQuery EXCEPT !.server = t.host, !.port = t.port, !.secret = t.secret]
        = Asked(t.host, t.port, t.secret, Absent, Absent)
  <2> DEFINE r == [NoQuery EXCEPT !.server = t.host, !.port = t.port, !.secret = t.secret]
  <2>1. r = [k \in DOMAIN r |-> r[k]] /\ DOMAIN r = {"server", "port", "secret", "user", "pass"}
    BY DEF NoQuery
  <2>2. r.server = t.host /\ r.port = t.port /\ r.secret = t.secret /\ r.user = Absent /\ r.pass = Absent
    BY DEF NoQuery
  <2> HIDE DEF r
  <2>3. r = Asked(t.host, t.port, t.secret, Absent, Absent)
    BY <2>1, <2>2, AskedExtends
  <2> QED BY <2>3 DEF r
<1>2. [NoQuery EXCEPT !.server = t.host, !.secret = t.secret]
        = Asked(t.host, NoPort, t.secret, Absent, Absent)
  <2> DEFINE r == [NoQuery EXCEPT !.server = t.host, !.secret = t.secret]
  <2>1. r = [k \in DOMAIN r |-> r[k]] /\ DOMAIN r = {"server", "port", "secret", "user", "pass"}
    BY DEF NoQuery
  <2>2. r.server = t.host /\ r.port = NoPort /\ r.secret = t.secret /\ r.user = Absent /\ r.pass = Absent
    BY DEF NoQuery
  <2> HIDE DEF r
  <2>3. r = Asked(t.host, NoPort, t.secret, Absent, Absent)
    BY <2>1, <2>2, AskedExtends
  <2> QED BY <2>3 DEF r
<1>3. [NoQuery EXCEPT !.server = t.host, !.port = t.port, !.user = t.user, !.pass = t.pass]
        = Asked(t.host, t.port, Absent, t.user, t.pass)
  <2> DEFINE r == [NoQuery EXCEPT !.server = t.host, !.port = t.port, !.user = t.user, !.pass = t.pass]
  <2>1. r = [k \in DOMAIN r |-> r[k]] /\ DOMAIN r = {"server", "port", "secret", "user", "pass"}
    BY DEF NoQuery
  <2>2. r.server = t.host /\ r.port = t.port /\ r.secret = Absent /\ r.user = t.user /\ r.pass = t.pass
    BY DEF NoQuery
  <2> HIDE DEF r
  <2>3. r = Asked(t.host, t.port, Absent, t.user, t.pass)
    BY <2>1, <2>2, AskedExtends
  <2> QED BY <2>3 DEF r
<1> QED BY <1>1, <1>2, <1>3 DEF Canonical

(* The link found is of the same kind and host; it is the same proxy's if  *)
(* the link carries it.                                                    *)
LEMMA FoundParses ==
  ASSUME NEW t, Proxy(t)
  PROVE  /\ Parses(Found(t)) /\ Parse(Found(t)).kind = t.kind /\ Parse(Found(t)).host = t.host
         /\ Carries(t) => Parse(Found(t)) = t
         /\ t.kind # "tcp" => IsLink(Canonical(t))
         /\ t.kind = "tcp" => Canonical(t).form = "hostport" /\ Canonical(t).host = t.host
<1>0. /\ t.host # Absent /\ ValidPort(t.port)
      /\ t = [kind |-> t.kind, host |-> t.host, port |-> t.port,
              secret |-> t.secret, user |-> t.user, pass |-> t.pass]
      /\ t.kind \in {"mtproto", "webproxy", "socks5", "tcp"}
  BY DEF Proxy
<1>1. CASE t.kind = "mtproto"
  <2>1. Canonical(t) = TgLink("proxy", Asked(t.host, t.port, t.secret, Absent, Absent))
    BY <1>1, CanonicalIs
  <2>2. t.secret # Absent /\ ValidSecret(t.secret) /\ Undotted(t.secret) = t.secret
    BY <1>1 DEF Proxy, HasSecret, ValidSecret
  <2>3. Trimmed(Asked(t.host, t.port, t.secret, Absent, Absent))
          = Asked(t.host, t.port, t.secret, Absent, Absent)
    BY <2>2 DEF Trimmed, Asked
  <2>4. /\ IsLink(Canonical(t)) /\ Found(t) = Canonical(t)
        /\ Parse(Canonical(t)) = [kind |-> "mtproto", host |-> t.host, port |-> t.port,
                                  secret |-> t.secret, user |-> Absent, pass |-> Absent]
    BY <1>0, <1>1, <2>1, <2>2, <2>3, ParseTgLink DEF Found
  <2>5. Carries(t) => t.user = Absent /\ t.pass = Absent
    BY <1>1 DEF Carries
  <2> QED BY <1>0, <1>1, <2>4, <2>5 DEF Parses, NoTarget
<1>2. CASE t.kind = "webproxy"
  <2>1. Canonical(t) = TgLink("webproxy", Asked(t.host, NoPort, t.secret, Absent, Absent))
    BY <1>2, CanonicalIs
  <2>2. t.secret # Absent /\ ValidSecret(t.secret) /\ Undotted(t.secret) = t.secret
    BY <1>2 DEF Proxy, HasSecret, ValidSecret
  <2>3. Trimmed(Asked(t.host, NoPort, t.secret, Absent, Absent))
          = Asked(t.host, NoPort, t.secret, Absent, Absent)
    BY <2>2 DEF Trimmed, Asked
  <2>4. /\ IsLink(Canonical(t)) /\ Found(t) = Canonical(t)
        /\ Parse(Canonical(t)) = [kind |-> "webproxy", host |-> t.host, port |-> 443,
                                  secret |-> t.secret, user |-> Absent, pass |-> Absent]
    <3>1. ValidPort(443)
      BY DEF ValidPort
    <3> QED BY <1>0, <1>2, <2>1, <2>2, <2>3, <3>1, ParseTgLink DEF Found
  <2>5. Carries(t) => t.user = Absent /\ t.pass = Absent /\ t.port = 443
    BY <1>2 DEF Carries
  <2> QED BY <1>0, <1>2, <2>4, <2>5 DEF Parses, NoTarget
<1>3. CASE t.kind = "socks5"
  <2> DEFINE user == IF t.pass = Absent /\ t.user # Absent THEN Undotted(t.user) ELSE t.user
             pass == IF t.pass # Absent THEN Undotted(t.pass) ELSE t.pass
  <2>1. Canonical(t) = TgLink("socks", Asked(t.host, t.port, Absent, t.user, t.pass))
    BY <1>3, CanonicalIs
  <2>2. Trimmed(Asked(t.host, t.port, Absent, t.user, t.pass))
          = Asked(t.host, t.port, Absent, user, pass)
    BY DEF Trimmed, Asked
  <2>3. Carries(t) => t.secret = Absent /\ user = t.user /\ pass = t.pass
    BY <1>3 DEF Carries
  <2> HIDE DEF user, pass
  <2>4. IsLink(Canonical(t)) /\ Found(t) = TgLink("socks", Asked(t.host, t.port, Absent, user, pass))
    BY <1>0, <1>3, <2>1, <2>2, ParseTgLink DEF Found
  <2>5. Parse(Found(t)) = [kind |-> "socks5", host |-> t.host, port |-> t.port,
                           secret |-> Absent, user |-> user, pass |-> pass]
    BY <1>0, <2>4, ParseTgLink DEF HasSecret
  <2> QED BY <1>0, <1>3, <2>3, <2>4, <2>5 DEF Parses, NoTarget
<1>4. CASE t.kind = "tcp"
  <2>1. Canonical(t) = [form |-> "hostport", host |-> t.host, port |-> t.port]
        /\ Found(t) = Canonical(t)
    BY <1>4 DEF Canonical, Found
  <2>2. Parse(Found(t)) = [kind |-> "tcp", host |-> t.host, port |-> t.port,
                           secret |-> Absent, user |-> Absent, pass |-> Absent]
    BY <1>0, <2>1 DEF Parse, FromHostPort
  <2>3. Carries(t) => t.secret = Absent /\ t.user = Absent /\ t.pass = Absent
    BY <1>4 DEF Carries, Proxy
  <2> QED BY <1>0, <1>4, <2>1, <2>2, <2>3 DEF Parses, NoTarget
<1> QED BY <1>0, <1>1, <1>2, <1>3, <1>4

(* A line with nothing but the link of t.                                  *)
LEMMA FoundInLine ==
  ASSUME NEW t, Proxy(t), NEW line, line = [comment |-> FALSE, words |-> <<Canonical(t)>>]
  PROVE  ToSet(Extracted(line)) = IF Recognised(t) THEN {Found(t)} ELSE {}
<1> DEFINE c == Canonical(t)
           found == Only(line.words, {w \in ToSet(line.words) : IsLink(w)})
<1>1. line.words = <<c>> /\ ~line.comment
  OBVIOUS
<1> HIDE DEF c
<1>2. /\ line.words \in Seq({c}) /\ ToSet(line.words) = {c} /\ Len(line.words) = 1
      /\ line.words[1] = c
  BY <1>1 DEF ToSet
<1>3. found \in Seq({c}) /\ ToSet(found) = {w \in {c} : IsLink(w)}
  <2> DEFINE ws == line.words
             good == {w \in ToSet(ws) : IsLink(w)}
  <2>1. found = Only(ws, good) /\ ws \in Seq({c}) /\ ToSet(ws) = {c}
    BY <1>2
  <2>2. \A w : w \in good <=> w \in ToSet(ws) /\ IsLink(w)
    OBVIOUS
  <2> HIDE DEF ws, good, found
  <2>3. found \in Seq({c}) /\ ToSet(found) = ToSet(ws) \cap good
    BY <2>1, OnlyProperties
  <2> QED BY <2>1, <2>2, <2>3
<1>4. DOMAIN found = 1..Len(found) /\ Len(found) \in Nat
  BY <1>3, LenProperties
<1>5. CASE t.kind = "tcp"
  <2>1. c.form = "hostport" /\ c.host = t.host /\ Found(t) = c
    BY <1>5, FoundParses DEF c, Found
  <2>2. ~IsLink(c)
    BY <2>1 DEF IsLink
  <2>3. found = <<>>
    <3>1. ToSet(found) = {}
      BY <1>3, <2>2
    <3> HIDE DEF found
    <3>2. \A k \in 1..Len(found) : found[k] \in ToSet(found)
      BY <1>4 DEF ToSet
    <3>3. Len(found) = 0
      BY <1>4, <3>1, <3>2
    <3> QED BY <1>3, <3>3, EmptySeq
  <2>4. Extracted(line) = IF PlainHost(t.host) THEN line.words ELSE <<>>
    BY <1>1, <1>2, <2>1, <2>3 DEF Extracted
  <2>5. ToSet(<<>>) = {}
    BY DEF ToSet
  <2> QED BY <1>2, <1>5, <2>1, <2>4, <2>5 DEF Recognised
<1>6. CASE t.kind # "tcp"
  <2>1. IsLink(c) /\ Found(t) = Cleaned(c)
    BY <1>6, FoundParses DEF c, Found
  <2>2. ToSet(found) = {c}
    BY <1>3, <2>1
  <2>3. found # <<>>
    BY <2>2 DEF ToSet
  <2>4. Extracted(line) = [i \in DOMAIN found |-> Cleaned(found[i])]
    BY <1>1, <2>3 DEF Extracted
  <2>5. ToSet(Extracted(line)) = {Cleaned(w) : w \in ToSet(found)}
    <3> HIDE DEF found
    <3>1. DOMAIN Extracted(line) = DOMAIN found
          /\ \A i \in DOMAIN found : Extracted(line)[i] = Cleaned(found[i])
      BY <2>4
    <3> QED BY <3>1 DEF ToSet
  <2>6. Recognised(t)
    BY <1>6 DEF Recognised
  <2>7. {Cleaned(w) : w \in {c}} = {Cleaned(c)}
    OBVIOUS
  <2> HIDE DEF found
  <2> QED BY <2>1, <2>2, <2>5, <2>6, <2>7
<1> QED BY <1>5, <1>6

(* A file of links: the words found in it are those of the proxies saved   *)
(* whose link is recognised.                                               *)
LEMMA FoundInFile ==
  ASSUME NEW T, NEW rs \in Seq(T), \A t \in Targets(rs) : Proxy(t)
  PROVE  /\ \E U : Extract(LinkLines(rs)) \in Seq(U)
         /\ ToSet(Extract(LinkLines(rs))) = {Found(t) : t \in {x \in Targets(rs) : Recognised(x)}}
<1> DEFINE good == {r \in ToSet(rs) : r # Zero /\ Parses(r.link)}
           known == Only(rs, good)
           lineOf(t) == [comment |-> FALSE, words |-> <<Canonical(t)>>]
           L == {lineOf(t) : t \in Targets(rs)}
           U == {Canonical(t) : t \in Targets(rs)}
           lines == LinkLines(rs)
<1>1. known \in Seq(T) /\ ToSet(known) = good
  <2>1. good \subseteq ToSet(rs)
    OBVIOUS
  <2> HIDE DEF good
  <2>2. known \in Seq(T) /\ ToSet(known) = ToSet(rs) \cap good
    BY OnlyProperties
  <2> HIDE DEF known
  <2> QED BY <2>1, <2>2
<1>2. Len(known) \in Nat /\ DOMAIN known = 1..Len(known)
  BY <1>1, LenProperties
<1>3. lines = [i \in DOMAIN known |-> lineOf(Parse(known[i].link))]
  BY DEF LinkLines
<1>4. Targets(rs) = {Parse(r.link) : r \in good}
  BY DEF Targets
<1>5. Targets(rs) = {Parse(known[i].link) : i \in DOMAIN known}
  <2>1. good = {known[i] : i \in DOMAIN known}
    <3> HIDE DEF good, known
    <3> QED BY <1>1 DEF ToSet
  <2> HIDE DEF good, known
  <2> QED BY <1>4, <2>1
<1> HIDE DEF good, known, lines
<1>6. lines \in Seq(L) /\ DOMAIN lines = DOMAIN known
  <2>1. lines \in [1..Len(known) -> L]
    BY <1>2, <1>3, <1>5
  <2> HIDE DEF L
  <2> QED BY <1>2, <2>1, FunSeq, LenProperties
<1>7. \A l \in ToSet(lines) : l.words \in Seq(U)
  <2> SUFFICES ASSUME NEW i \in DOMAIN lines PROVE lines[i].words \in Seq(U)
    BY DEF ToSet
  <2>1. lines[i].words = <<Canonical(Parse(known[i].link))>>
    BY <1>3, <1>6
  <2>2. Canonical(Parse(known[i].link)) \in U
    BY <1>5, <1>6
  <2> HIDE DEF U
  <2> QED BY <2>1, <2>2
<1>8. /\ Extract(lines) \in Seq(U \cup {Cleaned(w) : w \in U})
      /\ ToSet(Extract(lines)) = UNION {ToSet(Extracted(lines[i])) : i \in DOMAIN lines}
  <2> HIDE DEF L, U
  <2> QED BY <1>6, <1>7, ExtractProperties
<1>9. \A i \in DOMAIN lines :
        ToSet(Extracted(lines[i])) = IF Recognised(Parse(known[i].link))
                                     THEN {Found(Parse(known[i].link))} ELSE {}
  <2> SUFFICES ASSUME NEW i \in DOMAIN lines
               PROVE  ToSet(Extracted(lines[i])) = IF Recognised(Parse(known[i].link))
                                                   THEN {Found(Parse(known[i].link))} ELSE {}
    OBVIOUS
  <2>1. Proxy(Parse(known[i].link))
    BY <1>5, <1>6
  <2>2. lines[i] = [comment |-> FALSE, words |-> <<Canonical(Parse(known[i].link))>>]
    BY <1>3, <1>6
  <2> QED BY <2>1, <2>2, FoundInLine
<1>10. ToSet(Extract(lines)) = {Found(t) : t \in {x \in Targets(rs) : Recognised(x)}}
  <2> DEFINE p == [i \in DOMAIN lines |-> Parse(known[i].link)]
  <2>1. Targets(rs) = {p[i] : i \in DOMAIN lines}
    BY <1>5, <1>6
  <2>2. \A i \in DOMAIN lines : ToSet(Extracted(lines[i])) = IF Recognised(p[i]) THEN {Found(p[i])} ELSE {}
    BY <1>9
  <2> HIDE DEF p
  <2>3. \A w : w \in ToSet(Extract(lines)) <=> \E i \in DOMAIN lines : w \in ToSet(Extracted(lines[i]))
    BY <1>8
  <2>4. \A w : w \in ToSet(Extract(lines)) <=> \E i \in DOMAIN lines : Recognised(p[i]) /\ w = Found(p[i])
    BY <2>2, <2>3
  <2> QED BY <2>1, <2>4
<1> QED BY <1>8, <1>10 DEF lines

(* The results to save are results the run came back with, and proxies of  *)
(* their own.                                                              *)
LEMMA SavedOwn ==
  ASSUME IInv, Arrived, NEW what \in {"shown", "live", "dead"}
  PROVE  /\ \E T : Chosen(what) \in Seq(T)
         /\ \A t \in Targets(Chosen(what)) : Proxy(t)
         /\ \A s, t \in Targets(Chosen(what)) : Key(s) = Key(t) => s = t
<1>1. PICK T : results \in Seq(T)
  BY ResultsOwn
<1>2. /\ shown = Selected(results, cfg) /\ cfg.top \in Int
      /\ links = Links(Dedup(collected), cfg) /\ collected \in Seq(AllLinks)
  BY SettingsAssumption DEF IInv, Arranges, Reading, Linked, Filtered, Succeeded, Arrived
<1>3. /\ links \in Seq(AllLinks)
      /\ \A i, j \in DOMAIN links : DedupKey(links[i]) = DedupKey(links[j]) => i = j
  BY <1>2, LinksDistinct
<1>4. Chosen(what) \in Seq(T) /\ ToSet(Chosen(what)) \subseteq ToSet(results)
  <2>1. CASE what = "shown"
    <3>1. Selected(results, cfg) \in Seq(T)
      BY <1>1, <1>2, SelectedProperties
    <3> QED BY <1>1, <1>2, <2>1, <3>1, SelectedProperties DEF Chosen
  <2>2. CASE what = "live"
    BY <1>1, <2>2, OnlyProperties DEF Chosen, Alive
  <2>3. CASE what = "dead"
    BY <1>1, <2>3, OnlyProperties DEF Chosen
  <2> QED BY <2>1, <2>2, <2>3
<1>5. \A t \in Targets(Chosen(what)) : \E l \in ToSet(links) : Parses(l) /\ t = Parse(l)
  <2> SUFFICES ASSUME NEW r \in ToSet(Chosen(what)), r # Zero, Parses(r.link)
               PROVE  r.link \in ToSet(links)
    BY DEF Targets
  <2>1. PICK i \in DOMAIN results : r = results[i]
    BY <1>4 DEF ToSet
  <2> QED BY <2>1, ResultsOwn
<1>6. ToSet(links) \subseteq AllLinks
  BY <1>3, OwnRange
<1>7. \A t \in Targets(Chosen(what)) : Proxy(t)
  BY <1>5, <1>6, ParseGivesProxy
<1>8. ASSUME NEW s \in Targets(Chosen(what)), NEW t \in Targets(Chosen(what)), Key(s) = Key(t)
      PROVE  s = t
  <2>1. PICK k \in ToSet(links) : Parses(k) /\ s = Parse(k)
    BY <1>5
  <2>2. PICK l \in ToSet(links) : Parses(l) /\ t = Parse(l)
    BY <1>5
  <2>3. DedupKey(k) = DedupKey(l)
    BY <1>8, <2>1, <2>2 DEF DedupKey
  <2>4. k = l
    BY <1>3, <2>3 DEF ToSet
  <2> QED BY <2>1, <2>2, <2>4
<1> QED BY <1>4, <1>7, <1>8

(* What is read back of the proxies saved, Found(t) for each: of two words *)
(* with one key Dedup keeps one, which stands for the same proxy if both   *)
(* were carried.                                                           *)
LEMMA ReadBackOf ==
  ASSUME NEW U, NEW ws \in Seq(U), NEW saved,
         \A t \in saved : Proxy(t),
         \A s, t \in saved : Key(s) = Key(t) => s = t,
         ToSet(ws) = {Found(t) : t \in {x \in saved : Recognised(x)}}
  PROVE  LET read     == {Parse(w) : w \in ToSet(Dedup(ws))}
             faithful == {t \in saved : \A s \in saved :
                                          s.kind = t.kind /\ s.host = t.host => Carries(s)}
         IN  faithful \subseteq read /\ (faithful = saved => read = saved)
<1> DEFINE read == {Parse(w) : w \in ToSet(Dedup(ws))}
           faithful == {t \in saved : \A s \in saved :
                                        s.kind = t.kind /\ s.host = t.host => Carries(s)}
<1>1. \A t \in saved : /\ Parses(Found(t)) /\ Parse(Found(t)).kind = t.kind
                       /\ Parse(Found(t)).host = t.host
                       /\ Carries(t) => Parse(Found(t)) = t /\ Recognised(t)
  BY FoundParses DEF Carries, Recognised
<1>2. \A t \in faithful : t \in saved /\ Carries(t)
  OBVIOUS
<1>3. ToSet(Dedup(ws)) \subseteq ToSet(ws)
  <2>1. \A w \in ToSet(Dedup(ws)) : \E k \in DOMAIN ws : w = ws[k]
    BY DedupProperties
  <2> QED BY <2>1 DEF ToSet
<1>4. ASSUME NEW t \in faithful PROVE t \in read
  <2>1. Found(t) \in ToSet(ws)
    BY <1>1, <1>2
  <2>2. PICK i \in DOMAIN ws : /\ DedupKey(ws[i]) = DedupKey(Found(t))
                               /\ \A j \in 1..(i - 1) : DedupKey(ws[j]) # DedupKey(Found(t))
    BY <2>1, FirstExists
  <2>3. ws[i] \in ToSet(Dedup(ws))
    BY <2>2, DedupProperties
  <2>4. PICK s \in saved : ws[i] = Found(s)
    BY DEF ToSet
  <2>5. Key(Parse(Found(s))) = Key(Parse(Found(t)))
    BY <1>1, <1>2, <2>2, <2>4 DEF DedupKey
  <2>6. s.kind = t.kind /\ s.host = t.host
    BY <1>1, <1>2, <2>5 DEF Key
  <2>7. Parse(Found(s)) = s /\ Parse(Found(t)) = t
    BY <1>1, <1>2, <2>6
  <2>8. s = t
    BY <1>2, <2>5, <2>7
  <2> QED BY <2>3, <2>4, <2>7, <2>8
<1>5. ASSUME faithful = saved, NEW w \in ToSet(Dedup(ws)) PROVE Parse(w) \in saved
  <2>1. PICK s \in saved : w = Found(s)
    BY <1>3
  <2> QED BY <1>1, <1>2, <1>5, <2>1
<1> HIDE DEF faithful
<1> QED BY <1>4, <1>5 DEF faithful

(* What --save-links or --out live.txt writes, a later run reads back as   *)
(* the same proxies, except for those another of their kind and host may   *)
(* be taken for.                                                           *)
THEOREM SavedListsReadBack == Spec => []SavedReadsBack
<1>1. IInv => SavedReadsBack
  <2> SUFFICES ASSUME IInv, Succeeded, NEW p \in SavedPaths,
                      cfg.saves[LastSave(p)].format = "links"
               PROVE  LET saved    == Targets(Chosen(cfg.saves[LastSave(p)].what))
                          faithful == {t \in saved : \A s \in saved :
                                         s.kind = t.kind /\ s.host = t.host => Carries(s)}
                      IN  /\ faithful \subseteq ReadBack(p)
                          /\ faithful = saved => ReadBack(p) = saved
    BY DEF SavedReadsBack, Succeeded
  <2> DEFINE save == cfg.saves[LastSave(p)]
             rs == Chosen(save.what)
  <2>1. save.what \in {"shown", "live", "dead"}
    <3>1. LastSave(p) \in DOMAIN cfg.saves /\ cfg \in Settings
      BY LastSaveIs DEF IInv, Reading
    <3>2. save \in ToSet(cfg.saves)
      BY <3>1 DEF ToSet
    <3> QED BY <3>1, <3>2, SettingsAssumption
  <2>2. files[p] = LinkLines(rs)
    BY FilesWhole DEF Content
  <2> HIDE DEF save
  <2>3. Arrived
    BY DEF Arrived, Succeeded
  <2>4. /\ \E T : rs \in Seq(T)
        /\ \A t \in Targets(rs) : Proxy(t)
        /\ \A s, t \in Targets(rs) : Key(s) = Key(t) => s = t
    BY <2>1, <2>3, SavedOwn
  <2> HIDE DEF rs
  <2>5. PICK T : rs \in Seq(T)
    BY <2>4
  <2>6. /\ \E U : Extract(files[p]) \in Seq(U)
        /\ ToSet(Extract(files[p])) = {Found(t) : t \in {x \in Targets(rs) : Recognised(x)}}
    BY <2>2, <2>4, <2>5, FoundInFile
  <2>7. PICK U : Extract(files[p]) \in Seq(U)
    BY <2>6
  <2> QED BY <2>4, <2>6, <2>7, ReadBackOf DEF ReadBack, rs, save
<1> QED BY <1>1, Invariance, PTL

-----------------------------------------------------------------------------
(* The score                                                               *)

LEMMA DivMonotone ==
  ASSUME NEW d \in Nat \ {0}, NEW x \in Int, NEW y \in Int, x <= y
  PROVE  x \div d \in Int /\ y \div d \in Int /\ x \div d <= y \div d
<1> DEFINE p == x \div d
           q == y \div d
           r == x % d
           s == y % d
<1>1. p \in Int /\ q \in Int /\ r \in 0..(d - 1) /\ s \in 0..(d - 1)
  OBVIOUS
<1>2. x = d * p + r /\ y = d * q + s
  OBVIOUS
<1> HIDE DEF p, q, r, s
<1>3. p <= q
  <2> SUFFICES ASSUME q + 1 <= p PROVE FALSE
    BY <1>1
  <2>1. d * (q + 1) <= d * p
    BY <1>1
  <2>2. d * (q + 1) = d * q + d /\ d * q \in Int /\ d * p \in Int
    BY <1>1
  <2> QED BY <1>1, <1>2, <2>1, <2>2
<1> QED BY <1>1, <1>3 DEF p, q

(* What was measured of a live proxy.                                      *)
Measurement(m) ==
  /\ m.ping \in Nat /\ m.respq \in Nat /\ m.total \in Nat /\ m.jitter \in Nat /\ m.loss \in Nat
  /\ m.attempts \in Nat \ {0} /\ m.successes \in 0..m.attempts

(* The sum of the terms of the score, cut to 0..100 points, in its unit.   *)
Points(m) ==
  LET failed == IF m.attempts > 1 THEN 200 * (m.attempts - m.successes) ELSE 0
      sum == m.attempts * (Base(LatencyOf(m)) - 2 * m.jitter - 15 * m.loss) - failed
  IN  IF sum < 0 THEN 0 ELSE IF sum > 1000 * m.attempts THEN 1000 * m.attempts ELSE sum

LEMMA ScoreOfPoints ==
  ASSUME NEW m, Measurement(m)
  PROVE  /\ Points(m) \in 0..(1000 * m.attempts)
         /\ Score(m) = (2 * Points(m) + 10 * m.attempts) \div (20 * m.attempts)
<1> DEFINE a == m.attempts
           gain == Base(LatencyOf(m)) - 2 * m.jitter - 15 * m.loss
           failed == IF a > 1 THEN 200 * (a - m.successes) ELSE 0
           sum == a * gain - failed
<1>1. a \in Nat \ {0} /\ gain \in Int /\ failed \in Int
  BY DEF Measurement, Base, LatencyOf
<1>2. 100 * (10 * a) = 1000 * a /\ 2 * (10 * a) = 20 * a
  BY <1>1
<1>3. Points(m) = IF sum < 0 THEN 0 ELSE IF sum > 1000 * a THEN 1000 * a ELSE sum
  BY DEF Points
<1>4. Score(m) = (2 * (IF sum < 0 THEN 0 ELSE IF sum > 100 * (10 * a) THEN 100 * (10 * a) ELSE sum)
                  + 10 * a) \div (2 * (10 * a))
  BY DEF Score
<1> HIDE DEF gain, failed
<1>5. sum \in Int
  BY <1>1
<1> HIDE DEF a, sum
<1>6. Points(m) \in 0..(1000 * a)
  BY <1>1, <1>3, <1>5
<1>7. Score(m) = (2 * Points(m) + 10 * a) \div (20 * a)
  BY <1>2, <1>3, <1>4
<1> QED BY <1>6, <1>7 DEF a

(* A proxy that is no faster, no steadier, loses no less and failed no     *)
(* fewer of as many attempts than another has no better score, and no A if *)
(* the other has none: rate() takes off for everything it takes off for,   *)
(* and rounding, clamping and the thresholds keep the order.               *)
THEOREM NoWorseNoLess ==
  ASSUME NEW m, NEW n, Measurement(m), Measurement(n),
         LatencyOf(m) <= LatencyOf(n), m.jitter <= n.jitter, m.loss <= n.loss,
         m.attempts = n.attempts, m.successes >= n.successes
  PROVE  /\ Score(m) \in 0..100 /\ Score(n) <= Score(m)
         /\ Grade(Score(n)) = "A" => Grade(Score(m)) = "A"
<1> DEFINE a == m.attempts
           gain(k) == Base(LatencyOf(k)) - 2 * k.jitter - 15 * k.loss
           failed(k) == IF a > 1 THEN 200 * (a - k.successes) ELSE 0
<1>1. /\ a \in Nat \ {0} /\ gain(m) \in Int /\ gain(n) \in Int
      /\ failed(m) \in Int /\ failed(n) \in Int
  BY DEF Measurement, Base, LatencyOf
<1>2. Base(LatencyOf(n)) <= Base(LatencyOf(m))
  <2>1. LatencyOf(m) \in Nat /\ LatencyOf(n) \in Nat
    BY DEF Measurement, LatencyOf
  <2> QED BY <2>1 DEF Base
<1>3. gain(n) <= gain(m) /\ failed(m) <= failed(n)
  <2>1. Base(LatencyOf(m)) \in Int /\ Base(LatencyOf(n)) \in Int
    BY DEF Measurement, Base, LatencyOf
  <2> QED BY <1>1, <1>2, <2>1 DEF Measurement
<1>4. /\ Points(m) = LET sum == a * gain(m) - failed(m)
                     IN  IF sum < 0 THEN 0 ELSE IF sum > 1000 * a THEN 1000 * a ELSE sum
      /\ Points(n) = LET sum == a * gain(n) - failed(n)
                     IN  IF sum < 0 THEN 0 ELSE IF sum > 1000 * a THEN 1000 * a ELSE sum
  BY DEF Points
<1>5. /\ Points(m) \in 0..(1000 * a) /\ Points(n) \in 0..(1000 * a)
      /\ Score(m) = (2 * Points(m) + 10 * a) \div (20 * a)
      /\ Score(n) = (2 * Points(n) + 10 * a) \div (20 * a)
  BY ScoreOfPoints
<1> HIDE DEF a, gain, failed
<1>6. Points(n) <= Points(m)
  <2>1. a * gain(n) <= a * gain(m)
    BY <1>1, <1>3
  <2>2. a * gain(n) \in Int /\ a * gain(m) \in Int
    BY <1>1
  <2> QED BY <1>1, <1>3, <1>4, <2>1, <2>2
<1>7. 20 * a \in Nat \ {0}
  BY <1>1
<1>8. Score(n) \in Int /\ Score(m) \in Int /\ Score(n) <= Score(m)
  <2>1. 2 * Points(n) + 10 * a <= 2 * Points(m) + 10 * a
        /\ 2 * Points(n) + 10 * a \in Int /\ 2 * Points(m) + 10 * a \in Int
    BY <1>1, <1>5, <1>6
  <2> QED BY <1>5, <1>7, <2>1, DivMonotone
<1>9. Score(m) \in 0..100
  <2> DEFINE d == 20 * a
             x == 2 * Points(m) + 10 * a
             q == x \div d
             r == x % d
  <2>1. x \in 0..(100 * d + 10 * a) /\ 10 * a < d
    BY <1>1, <1>5
  <2>2. d \in Nat \ {0}
    BY <1>7
  <2> HIDE DEF d, x
  <2>3. q \in Int /\ r \in 0..(d - 1) /\ x = d * q + r
    BY <2>1, <2>2
  <2>4. Score(m) = q
    BY <1>5 DEF d, x
  <2> HIDE DEF q, r
  <2>5. q >= 0
    <3> SUFFICES ASSUME q <= -1 PROVE FALSE
      BY <2>3
    <3>1. d * (q + 1) <= 0 /\ d * (q + 1) = d * q + d /\ d * q \in Int
      BY <2>2, <2>3
    <3> QED BY <2>1, <2>2, <2>3, <3>1
  <2>6. q <= 100
    <3> SUFFICES ASSUME q >= 101 PROVE FALSE
      BY <2>3
    <3>1. d * q >= d * 101 /\ d * q \in Int
      BY <2>2, <2>3
    <3> QED BY <1>1, <2>1, <2>2, <2>3, <3>1
  <2> QED BY <2>3, <2>4, <2>5, <2>6
<1>10. Grade(Score(n)) = "A" => Grade(Score(m)) = "A"
  BY <1>8 DEF Grade
<1> QED BY <1>8, <1>9, <1>10

=============================================================================
