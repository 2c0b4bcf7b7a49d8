-------------------------- MODULE WebCarrier_proofs --------------------------
(***************************************************************************)
(* Proofs about WebCarrier, for any bounds, window and number of attempts: *)
(* flow control, the order of the uplink, Close, the end of the stream,    *)
(* and that the carrier implements ByteStream.                             *)
(*                                                                         *)
(* Inv accounts for the way up by numbers: a ghost function adds up the    *)
(* credit and the units of the batches 1..n, whatever became of them.      *)
(* Content says which unit is where: on the way up another function gives  *)
(* the unit each batch brings; on the way down a function cuts what the    *)
(* relay sent into the pieces that lie on the socket and in the message    *)
(* being collected, and what was read is a beginning of it.                *)
(***************************************************************************)
EXTENDS WebCarrier, WellFoundedInduction, SequenceTheorems, TLAPS

-----------------------------------------------------------------------------
(* Induction over the naturals, for a set: every non-empty one has a least  *)
(* element.                                                                 *)
LEMMA LeastNat ==
  ASSUME NEW T \in SUBSET Nat, T # {}
  PROVE  \E x \in T : \A y \in T : x <= y
<1> DEFINE R == {ss \in Nat \X Nat : ss[1] < ss[2]}
<1>1. IsWellFoundedOn(R, Nat)
  BY NatLessThanWellFounded DEF OpToRel
<1>2. \A x, y \in Nat : y < x => <<y, x>> \in R
  OBVIOUS
<1> HIDE DEF R
<1>3. PICK x \in T : \A y \in T : ~(<<y, x>> \in R)
  BY <1>1, WFMin, ZenonT(40)
<1>4. \A y \in T : ~(y < x)
  BY <1>2, <1>3
<1> QED BY <1>4

Inductive(S) == 0 \in S /\ \A n \in S : n + 1 \in S

LEMMA Induction ==
  ASSUME NEW S \in SUBSET Nat, Inductive(S)
  PROVE  S = Nat
<1>0. 0 \in S /\ \A n \in S : n + 1 \in S
  BY DEF Inductive
<1>1. SUFFICES ASSUME Nat \ S # {} PROVE FALSE
  OBVIOUS
<1>2. PICK x \in Nat \ S : \A y \in Nat \ S : x <= y
  BY <1>1, LeastNat
<1>3. x # 0 /\ x - 1 \in Nat
  BY <1>0, <1>2
<1>4. x - 1 \in S
  BY <1>2, <1>3
<1>5. (x - 1) + 1 = x
  BY <1>2
<1>6. (x - 1) + 1 \in S
  BY <1>0, <1>4
<1> QED BY <1>2, <1>5, <1>6

(* Total: the sum of a sequence, by a function that adds it up. *)
SumsTo(f, m, ns) == f \in [0..m -> Nat] /\ f[0] = 0 /\ \A i \in 1..m : f[i] = f[i - 1] + ns[i]

LEMMA SumsExist == ASSUME NEW ns \in Seq(Nat) PROVE \E f : SumsTo(f, Len(ns), ns)
<1> DEFINE L == Len(ns)
           S == {m \in Nat : m <= L => \E f : SumsTo(f, m, ns)}
<1>1. L \in Nat /\ \A i \in 1..L : ns[i] \in Nat
  OBVIOUS
<1> HIDE DEF L
<1>2. 0 \in S
  <2> DEFINE f == [i \in 0..0 |-> 0]
  <2>1. SumsTo(f, 0, ns)
    BY DEF SumsTo
  <2> HIDE DEF f
  <2> QED BY <2>1
<1>3. ASSUME NEW m \in S PROVE m + 1 \in S
  <2>1. SUFFICES ASSUME m + 1 <= L PROVE \E f : SumsTo(f, m + 1, ns)
    OBVIOUS
  <2>2. PICK f : SumsTo(f, m, ns)
    BY <1>1, <2>1
  <2> DEFINE g == [i \in 0..(m + 1) |-> IF i = m + 1 THEN f[m] + ns[m + 1] ELSE f[i]]
  <2>3. SumsTo(g, m + 1, ns)
    <3>1. f \in [0..m -> Nat] /\ f[0] = 0 /\ \A i \in 1..m : f[i] = f[i - 1] + ns[i]
      BY <2>2 DEF SumsTo
    <3>2. ns[m + 1] \in Nat /\ m \in Nat
      BY <1>1, <2>1
    <3>3. g \in [0..(m + 1) -> Nat]
      BY <3>1, <3>2
    <3>4. g[0] = 0 /\ g[m + 1] = f[m] + ns[m + 1] /\ \A i \in 0..m : g[i] = f[i]
      BY <3>1, <3>2
    <3> HIDE DEF g
    <3>5. ASSUME NEW i \in 1..(m + 1) PROVE g[i] = g[i - 1] + ns[i]
      <4>1. CASE i = m + 1
        <5>1. i - 1 = m /\ m \in 0..m
          BY <3>2, <4>1
        <5> QED BY <3>4, <4>1, <5>1
      <4>2. CASE i # m + 1
        <5>1. i \in 1..m /\ i \in 0..m /\ i - 1 \in 0..m
          BY <3>2, <4>2
        <5> QED BY <3>1, <3>4, <5>1
      <4> QED BY <4>1, <4>2
    <3> QED BY <3>3, <3>4, <3>5 DEF SumsTo
  <2> HIDE DEF g
  <2> QED BY <2>3
<1>4. S = Nat
  <2>1. S \in SUBSET Nat /\ Inductive(S)
    BY <1>2, <1>3 DEF Inductive
  <2> HIDE DEF S
  <2> QED BY <2>1, Induction
<1> QED BY <1>1, <1>4 DEF L

LEMMA SumsUnique ==
  ASSUME NEW ns \in Seq(Nat), NEW f, SumsTo(f, Len(ns), ns), NEW g, SumsTo(g, Len(ns), ns)
  PROVE  f[Len(ns)] = g[Len(ns)]
<1> DEFINE L == Len(ns)
           S == {m \in Nat : m <= L => f[m] = g[m]}
<1>1. L \in Nat
  OBVIOUS
<1> HIDE DEF L
<1>2. /\ f[0] = 0 /\ \A i \in 1..L : f[i] = f[i - 1] + ns[i]
      /\ g[0] = 0 /\ \A i \in 1..L : g[i] = g[i - 1] + ns[i]
  BY DEF SumsTo, L
<1>3. 0 \in S
  BY <1>1, <1>2
<1>4. \A m \in S : m + 1 \in S
  BY <1>1, <1>2
<1>5. S = Nat
  BY <1>3, <1>4, Induction DEF Inductive
<1> QED BY <1>1, <1>5 DEF L

LEMMA TotalIs == ASSUME NEW ns \in Seq(Nat), NEW f, SumsTo(f, Len(ns), ns) PROVE Total(ns) = f[Len(ns)]
<1> DEFINE h == CHOOSE g : g = [i \in 0..Len(ns) |-> IF i = 0 THEN 0 ELSE g[i - 1] + ns[i]]
           e(i) == IF i = 0 THEN 0 ELSE f[i - 1] + ns[i]
<1>1. Total(ns) = h[Len(ns)]
  BY DEF Total
<1>2. f = [i \in 0..Len(ns) |-> e(i)]
  <2>1. f \in [0..Len(ns) -> Nat] /\ \A i \in 0..Len(ns) : f[i] = e(i)
    BY DEF SumsTo
  <2> HIDE DEF e
  <2> QED BY <2>1
<1>3. h = [i \in 0..Len(ns) |-> IF i = 0 THEN 0 ELSE h[i - 1] + ns[i]]
  BY <1>2, Zenon
<1> HIDE DEF h, e
<1>4. /\ DOMAIN h = 0..Len(ns)
      /\ \A i \in 0..Len(ns) : h[i] = IF i = 0 THEN 0 ELSE h[i - 1] + ns[i]
  BY <1>3, Zenon
<1>5. h[Len(ns)] = f[Len(ns)]
  <2> DEFINE L == Len(ns)
             S == {m \in Nat : m <= L => f[m] = h[m]}
  <2>1. L \in Nat
    OBVIOUS
  <2>2. /\ f[0] = 0 /\ \A i \in 1..L : f[i] = f[i - 1] + ns[i]
        /\ h[0] = 0 /\ \A i \in 1..L : h[i] = h[i - 1] + ns[i]
    BY <1>4 DEF SumsTo
  <2> HIDE DEF L
  <2>3. 0 \in S
    BY <2>1, <2>2
  <2>4. \A m \in S : m + 1 \in S
    BY <2>1, <2>2
  <2>5. S = Nat
    BY <2>3, <2>4, Induction DEF Inductive
  <2> QED BY <2>1, <2>5 DEF L
<1> QED BY <1>1, <1>5

LEMMA TotalTyped ==
  ASSUME NEW ns \in Seq(Nat)
  PROVE  Total(ns) \in Nat
<1>1. PICK f : SumsTo(f, Len(ns), ns)
  BY SumsExist
<1> QED BY <1>1, TotalIs DEF SumsTo

LEMMA TotalOfNone == Total(<<>>) = 0
<1> DEFINE f == [i \in 0..0 |-> 0]
<1>1. <<>> \in Seq(Nat) /\ Len(<<>>) = 0
  OBVIOUS
<1>2. SumsTo(f, 0, <<>>) /\ f[0] = 0
  BY DEF SumsTo
<1> HIDE DEF f
<1> QED BY <1>1, <1>2, TotalIs

LEMMA TotalOfAppend ==
  ASSUME NEW ns \in Seq(Nat), NEW n \in Nat
  PROVE  Total(Append(ns, n)) = Total(ns) + n
<1> DEFINE L == Len(ns)
           more == Append(ns, n)
<1>1. PICK f : SumsTo(f, L + 1, more)
  <2>1. more \in Seq(Nat) /\ Len(more) = L + 1
    OBVIOUS
  <2> QED BY <2>1, SumsExist
<1>2. /\ more \in Seq(Nat) /\ Len(more) = L + 1 /\ more[L + 1] = n
      /\ \A i \in 1..L : more[i] = ns[i]
      /\ L \in Nat
  OBVIOUS
<1>3. Total(more) = f[L + 1]
  BY <1>1, <1>2, TotalIs
<1> HIDE DEF L, more
<1> DEFINE g == [i \in 0..L |-> f[i]]
<1>4. f[L + 1] = f[L] + n
  BY <1>1, <1>2 DEF SumsTo
<1>5. SumsTo(g, L, ns)
  <2>1. f \in [0..(L + 1) -> Nat] /\ f[0] = 0 /\ \A i \in 1..(L + 1) : f[i] = f[i - 1] + more[i]
    BY <1>1 DEF SumsTo
  <2> QED BY <1>2, <2>1 DEF SumsTo
<1>6. Total(ns) = f[L]
  <2>1. g[L] = f[L]
    BY <1>2
  <2> HIDE DEF g
  <2> QED BY <1>5, <2>1, TotalIs DEF L
<1> QED BY <1>3, <1>4, <1>6 DEF more

LEMMA TotalOfTail ==
  ASSUME NEW ns \in Seq(Nat), ns # <<>>
  PROVE  Total(ns) = ns[1] + Total(Tail(ns))
<1> DEFINE L == Len(ns)
           rest == Tail(ns)
<1>1. PICK f : SumsTo(f, L, ns)
  BY SumsExist
<1>2. /\ rest \in Seq(Nat) /\ Len(rest) = L - 1 /\ L \in Nat /\ L >= 1
      /\ \A i \in 1..(L - 1) : rest[i] = ns[i + 1]
      /\ ns[1] \in Nat
  OBVIOUS
<1>3. Total(ns) = f[L]
  BY <1>1, TotalIs
<1>4. \A i \in 1..L : f[i] \in Nat /\ f[i] = f[i - 1] + ns[i]
  BY <1>1 DEF SumsTo
<1>5. f[0] = 0
  BY <1>1 DEF SumsTo
<1>6. \A i \in 1..L : ns[i] \in Nat
  OBVIOUS
<1> HIDE DEF L, rest
<1>7. \A i \in 0..(L - 1) : f[i + 1] - ns[1] \in Nat
  <2> DEFINE S == {m \in Nat : m <= L - 1 => f[m + 1] - ns[1] \in Nat}
  <2>1. 0 \in S
    BY <1>2, <1>4, <1>5
  <2>2. ASSUME NEW m \in S PROVE m + 1 \in S
    <3>1. SUFFICES ASSUME m + 1 <= L - 1 PROVE f[m + 2] - ns[1] \in Nat
      <4>1. m \in Nat /\ (m + 1) + 1 = m + 2
        OBVIOUS
      <4> QED BY <4>1
    <3>2. m \in Nat /\ f[m + 1] - ns[1] \in Nat
      BY <1>2, <3>1
    <3> HIDE DEF S
    <3>3. m + 2 \in 1..L /\ m + 1 \in 1..L /\ (m + 2) - 1 = m + 1
      BY <1>2, <3>1, <3>2
    <3>4. f[m + 2] = f[m + 1] + ns[m + 2] /\ ns[m + 2] \in Nat /\ f[m + 1] \in Nat
      BY <1>4, <1>6, <3>3
    <3>5. ns[1] \in Nat
      BY <1>2
    <3> QED BY <3>2, <3>4, <3>5
  <2>3. S = Nat
    <3>1. S \in SUBSET Nat /\ Inductive(S)
      BY <2>1, <2>2 DEF Inductive
    <3> HIDE DEF S
    <3> QED BY <3>1, Induction
  <2>4. L \in Nat
    BY <1>2
  <2>5. ASSUME NEW i \in 0..(L - 1) PROVE f[i + 1] - ns[1] \in Nat
    <3>1. i \in Nat /\ i <= L - 1
      BY <2>4
    <3>2. i \in S
      BY <2>3, <3>1
    <3> QED BY <3>1, <3>2
  <2> QED BY <2>5, ZenonT(40)
<1> DEFINE g == [i \in 0..(L - 1) |-> f[i + 1] - ns[1]]
<1>8. SumsTo(g, L - 1, rest)
  <2>1. g \in [0..(L - 1) -> Nat]
    BY <1>7
  <2>2. g[0] = 0
    BY <1>2, <1>4, <1>5
  <2>3. ASSUME NEW i \in 1..(L - 1) PROVE g[i] = g[i - 1] + rest[i]
    <3>1. /\ i + 1 \in 1..L /\ (i + 1) - 1 = i /\ i \in 1..L
          /\ i \in 0..(L - 1) /\ i - 1 \in 0..(L - 1) /\ (i - 1) + 1 = i
      BY <1>2
    <3>2. f[i + 1] = f[i] + ns[i + 1] /\ f[i] \in Nat /\ ns[i + 1] \in Nat
      BY <1>4, <1>6, <3>1
    <3>3. g[i] = f[i + 1] - ns[1] /\ g[i - 1] = f[i] - ns[1]
      BY <3>1
    <3>4. rest[i] = ns[i + 1]
      BY <1>2
    <3> HIDE DEF g
    <3> QED BY <1>2, <3>2, <3>3, <3>4, SMTT(30)
  <2> HIDE DEF g
  <2> QED BY <2>1, <2>2, <2>3 DEF SumsTo
<1>9. g[L - 1] = f[L] - ns[1] /\ f[L] \in Nat
  BY <1>2, <1>4
<1> HIDE DEF g
<1>10. Total(rest) = g[L - 1]
  BY <1>2, <1>8, TotalIs
<1> QED BY <1>2, <1>3, <1>9, <1>10 DEF rest

FrameType == [kind : {"OPEN", "WINDOW", "DATA", "PONG", "CLOSE", "PING", "BYE"}, val : Nat]

(* UnitsOf: what the DATA frames of a batch carry. *)
Plus(u, f) == IF f.kind = "DATA" THEN Append(u, f.val) ELSE u

UnitsUpTo(h, m, frames) ==
  /\ h \in [0..m -> Seq(Nat)]
  /\ h[0] = <<>>
  /\ \A i \in 1..m : h[i] = Plus(h[i - 1], frames[i])

LEMMA UnitsExist ==
  ASSUME NEW frames \in Seq(FrameType)
  PROVE  \E h : UnitsUpTo(h, Len(frames), frames)
<1> DEFINE L == Len(frames)
           S == {m \in Nat : m <= L => \E h : UnitsUpTo(h, m, frames)}
<1>1. L \in Nat /\ \A i \in 1..L : frames[i] \in FrameType
  OBVIOUS
<1> HIDE DEF L
<1>2. 0 \in S
  <2> DEFINE h == [i \in 0..0 |-> <<>>]
  <2>1. h \in [0..0 -> Seq(Nat)] /\ h[0] = <<>>
    OBVIOUS
  <2> HIDE DEF h
  <2>2. UnitsUpTo(h, 0, frames)
    BY <2>1 DEF UnitsUpTo
  <2> QED BY <2>2
<1>3. ASSUME NEW m \in S PROVE m + 1 \in S
  <2>1. SUFFICES ASSUME m + 1 <= L PROVE \E h : UnitsUpTo(h, m + 1, frames)
    OBVIOUS
  <2>2. m \in Nat /\ m + 1 \in Nat
    OBVIOUS
  <2>3. PICK h : UnitsUpTo(h, m, frames)
    BY <1>1, <2>1
  <2> HIDE DEF S
  <2> DEFINE new == Plus(h[m], frames[m + 1])
             g == [i \in 0..(m + 1) |-> IF i = m + 1 THEN new ELSE h[i]]
  <2>4. h \in [0..m -> Seq(Nat)] /\ h[0] = <<>> /\ \A i \in 1..m : h[i] = Plus(h[i - 1], frames[i])
    BY <2>3 DEF UnitsUpTo
  <2>5. new \in Seq(Nat)
    <3>1. m \in 0..m /\ m + 1 \in 1..L
      BY <1>1, <2>1, <2>2
    <3>2. h[m] \in Seq(Nat) /\ frames[m + 1].val \in Nat
      BY <1>1, <2>4, <3>1 DEF FrameType
    <3> QED BY <3>2 DEF Plus
  <2> HIDE DEF new
  <2>6. g \in [0..(m + 1) -> Seq(Nat)]
    <3>1. \A i \in 0..(m + 1) : i = m + 1 \/ i \in 0..m
      BY <2>2
    <3>2. ASSUME NEW i \in 0..(m + 1) PROVE (IF i = m + 1 THEN new ELSE h[i]) \in Seq(Nat)
      BY <2>4, <2>5, <3>1
    <3> QED BY <3>2
  <2>7. g[0] = <<>> /\ g[m + 1] = new /\ \A i \in 0..m : g[i] = h[i]
    BY <2>2, <2>4
  <2> HIDE DEF g
  <2>8. ASSUME NEW i \in 1..(m + 1) PROVE g[i] = Plus(g[i - 1], frames[i])
    <3>1. CASE i = m + 1
      <4>1. i - 1 = m /\ m \in 0..m
        BY <2>2, <3>1
      <4> QED BY <2>7, <3>1, <4>1 DEF new
    <3>2. CASE i # m + 1
      <4>1. i \in 1..m /\ i \in 0..m /\ i - 1 \in 0..m
        BY <2>2, <3>2
      <4> QED BY <2>4, <2>7, <4>1
    <3> QED BY <3>1, <3>2
  <2>9. UnitsUpTo(g, m + 1, frames)
    BY <2>6, <2>7, <2>8 DEF UnitsUpTo
  <2> QED BY <2>9
<1>4. S = Nat
  <2>1. S \in SUBSET Nat /\ Inductive(S)
    BY <1>2, <1>3 DEF Inductive
  <2> HIDE DEF S
  <2> QED BY <2>1, Induction
<1> QED BY <1>1, <1>4 DEF L

LEMMA UnitsAre ==
  ASSUME NEW frames \in Seq(FrameType), NEW f, UnitsUpTo(f, Len(frames), frames)
  PROVE  UnitsOf(frames) = f[Len(frames)]
<1> DEFINE h == CHOOSE g : g = [i \in 0..Len(frames) |->
                                  IF i = 0 THEN <<>>
                                  ELSE IF frames[i].kind = "DATA"
                                       THEN Append(g[i - 1], frames[i].val) ELSE g[i - 1]]
           e(i) == IF i = 0 THEN <<>>
                   ELSE IF frames[i].kind = "DATA"
                        THEN Append(f[i - 1], frames[i].val) ELSE f[i - 1]
<1>1. UnitsOf(frames) = h[Len(frames)]
  BY DEF UnitsOf
<1>2. f = [i \in 0..Len(frames) |-> e(i)]
  <2>1. f \in [0..Len(frames) -> Seq(Nat)] /\ f[0] = <<>> /\ Len(frames) \in Nat
    BY DEF UnitsUpTo
  <2>2. ASSUME NEW i \in 1..Len(frames) PROVE f[i] = e(i)
    <3>1. f[i] = Plus(f[i - 1], frames[i]) /\ i # 0
      BY DEF UnitsUpTo
    <3> QED BY <3>1 DEF Plus
  <2>3. f[0] = e(0)
    BY <2>1
  <2>4. \A i \in 0..Len(frames) : i = 0 \/ i \in 1..Len(frames)
    BY <2>1
  <2> HIDE DEF e
  <2> QED BY <2>1, <2>2, <2>3, <2>4
<1>3. h = [i \in 0..Len(frames) |->
             IF i = 0 THEN <<>>
             ELSE IF frames[i].kind = "DATA"
                  THEN Append(h[i - 1], frames[i].val) ELSE h[i - 1]]
  BY <1>2, Zenon
<1> HIDE DEF h, e
<1> DEFINE L == Len(frames)
           S == {m \in Nat : m <= L => f[m] = h[m]}
<1>4. \A i \in 0..L : h[i] = IF i = 0 THEN <<>>
                             ELSE IF frames[i].kind = "DATA"
                                  THEN Append(h[i - 1], frames[i].val) ELSE h[i - 1]
  BY <1>3, Zenon
<1>5. L \in Nat
  OBVIOUS
<1>6. f[0] = <<>> /\ \A i \in 1..L : f[i] = Plus(f[i - 1], frames[i])
  BY DEF UnitsUpTo
<1> HIDE DEF L
<1>7. h[0] = <<>> /\ \A i \in 1..L : h[i] = Plus(h[i - 1], frames[i])
  BY <1>4, <1>5 DEF Plus
<1>8. 0 \in S
  BY <1>5, <1>6, <1>7
<1>9. ASSUME NEW m \in S PROVE m + 1 \in S
  <2>1. SUFFICES ASSUME m + 1 <= L PROVE f[m + 1] = h[m + 1]
    OBVIOUS
  <2>2. m \in Nat /\ m + 1 \in 1..L /\ (m + 1) - 1 = m /\ f[m] = h[m]
    BY <1>5, <2>1
  <2> HIDE DEF S
  <2> QED BY <1>6, <1>7, <2>2
<1>10. S = Nat
  <2>1. S \in SUBSET Nat /\ Inductive(S)
    BY <1>8, <1>9 DEF Inductive
  <2> HIDE DEF S
  <2> QED BY <2>1, Induction
<1>11. f[L] = h[L]
  BY <1>5, <1>10
<1> QED BY <1>1, <1>11 DEF L

LEMMA UnitsTyped ==
  ASSUME NEW frames \in Seq(FrameType)
  PROVE  UnitsOf(frames) \in Seq(Nat)
<1>1. PICK f : UnitsUpTo(f, Len(frames), frames)
  BY UnitsExist
<1>2. f[Len(frames)] \in Seq(Nat)
  BY <1>1 DEF UnitsUpTo
<1> QED BY <1>1, <1>2, UnitsAre

LEMMA UnitsOfNone == UnitsOf(<<>>) = <<>>
<1> DEFINE h == [i \in 0..0 |-> <<>>]
<1>1. h \in [0..0 -> Seq(Nat)] /\ h[0] = <<>>
  OBVIOUS
<1> HIDE DEF h
<1>2. UnitsUpTo(h, 0, <<>>)
  BY <1>1 DEF UnitsUpTo
<1>3. <<>> \in Seq(FrameType) /\ Len(<<>>) = 0
  OBVIOUS
<1> QED BY <1>1, <1>2, <1>3, UnitsAre

LEMMA UnitsOfAppend ==
  ASSUME NEW frames \in Seq(FrameType), NEW f \in FrameType
  PROVE  UnitsOf(Append(frames, f)) = Plus(UnitsOf(frames), f)
<1> DEFINE L == Len(frames)
           more == Append(frames, f)
<1>1. /\ more \in Seq(FrameType) /\ Len(more) = L + 1 /\ more[L + 1] = f
      /\ \A i \in 1..L : more[i] = frames[i]
      /\ L \in Nat
  OBVIOUS
<1>2. PICK h : UnitsUpTo(h, L + 1, more)
  <2> HIDE DEF L, more
  <2> QED BY <1>1, UnitsExist
<1>3. UnitsOf(more) = h[L + 1]
  <2> HIDE DEF L, more
  <2> QED BY <1>1, <1>2, UnitsAre
<1> HIDE DEF L, more
<1>4. h \in [0..(L + 1) -> Seq(Nat)] /\ h[0] = <<>> /\ \A i \in 1..(L + 1) : h[i] = Plus(h[i - 1], more[i])
  BY <1>2 DEF UnitsUpTo
<1> DEFINE g == [i \in 0..L |-> h[i]]
<1>5. g \in [0..L -> Seq(Nat)] /\ g[0] = <<>> /\ g[L] = h[L] /\ \A i \in 0..L : g[i] = h[i]
  BY <1>1, <1>4
<1> HIDE DEF g
<1>6. ASSUME NEW i \in 1..L PROVE g[i] = Plus(g[i - 1], frames[i])
  <2>1. i \in 1..(L + 1) /\ i \in 0..L /\ i - 1 \in 0..L
    BY <1>1
  <2> QED BY <1>1, <1>4, <1>5, <2>1
<1>7. UnitsOf(frames) = h[L]
  <2>1. UnitsUpTo(g, L, frames)
    BY <1>5, <1>6 DEF UnitsUpTo
  <2> QED BY <1>5, <2>1, UnitsAre DEF L
<1>8. h[L + 1] = Plus(h[L], f)
  <2>1. L + 1 \in 1..(L + 1) /\ (L + 1) - 1 = L
    BY <1>1
  <2> QED BY <1>1, <1>4, <2>1
<1> QED BY <1>3, <1>7, <1>8 DEF more

LEMMA AppendToConcat ==
  ASSUME NEW a \in Seq(Nat), NEW b \in Seq(Nat), NEW v \in Nat
  PROVE  Append(a \o b, v) = a \o Append(b, v)
<1>1. /\ Append(a \o b, v) \in Seq(Nat) /\ a \o Append(b, v) \in Seq(Nat)
      /\ Len(Append(a \o b, v)) = Len(a \o Append(b, v))
  OBVIOUS
<1>2. \A i \in 1..Len(Append(a \o b, v)) : Append(a \o b, v)[i] = (a \o Append(b, v))[i]
  OBVIOUS
<1> QED BY <1>1, <1>2, SeqEqual

(* By induction on the length of the second sequence. *)
LEMMA UnitsOfConcat ==
  ASSUME NEW s \in Seq(FrameType), NEW t \in Seq(FrameType)
  PROVE  UnitsOf(s \o t) = UnitsOf(s) \o UnitsOf(t)
<1> DEFINE Holds(u) == UnitsOf(s \o u) = UnitsOf(s) \o UnitsOf(u)
           S == {n \in Nat : \A u \in Seq(FrameType) : Len(u) = n => Holds(u)}
<1>1. 0 \in S
  <2>1. SUFFICES ASSUME NEW u \in Seq(FrameType), Len(u) = 0 PROVE Holds(u)
    OBVIOUS
  <2>2. u = <<>> /\ s \o u = s
    BY <2>1
  <2>3. UnitsOf(s) \in Seq(Nat)
    BY UnitsTyped
  <2>4. UnitsOf(s) \o <<>> = UnitsOf(s)
    BY <2>3
  <2> QED BY <2>2, <2>4, UnitsOfNone
<1>2. ASSUME NEW n \in S PROVE n + 1 \in S
  <2>1. n \in Nat /\ \A u \in Seq(FrameType) : Len(u) = n => Holds(u)
    OBVIOUS
  <2>2. SUFFICES ASSUME NEW u \in Seq(FrameType), Len(u) = n + 1 PROVE Holds(u)
    BY <2>1
  <2> HIDE DEF S
  <2> DEFINE front == SubSeq(u, 1, n)
             last == u[n + 1]
  <2>3. front \in Seq(FrameType) /\ last \in FrameType /\ Len(front) = n /\ u = Append(front, last)
    BY <2>1, <2>2
  <2> HIDE DEF front, last
  <2>4. Holds(front)
    BY <2>1, <2>3
  <2>5. s \o u = Append(s \o front, last) /\ s \o front \in Seq(FrameType)
    BY <2>3
  <2>6. UnitsOf(s \o u) = Plus(UnitsOf(s) \o UnitsOf(front), last)
    BY <2>3, <2>4, <2>5, UnitsOfAppend
  <2>7. UnitsOf(u) = Plus(UnitsOf(front), last)
    BY <2>3, UnitsOfAppend
  <2>8. UnitsOf(s) \in Seq(Nat) /\ UnitsOf(front) \in Seq(Nat) /\ last.val \in Nat
    BY <2>3, UnitsTyped DEF FrameType
  <2> QED BY <2>6, <2>7, <2>8, AppendToConcat DEF Plus
<1>3. S = Nat
  <2>1. S \in SUBSET Nat /\ Inductive(S)
    BY <1>1, <1>2 DEF Inductive
  <2> HIDE DEF S
  <2> QED BY <2>1, Induction
<1>4. Len(t) \in S /\ Len(t) = Len(t)
  BY <1>3
<1> QED BY <1>4

(* FlattenSeq: messages put together. *)
JoinUpTo(h, m, ss, T) ==
  /\ h \in [0..m -> Seq(T)]
  /\ h[0] = <<>>
  /\ \A i \in 1..m : h[i] = h[i - 1] \o ss[i]

LEMMA JoinsExist ==
  ASSUME NEW T, NEW ss \in Seq(Seq(T))
  PROVE  \E h : JoinUpTo(h, Len(ss), ss, T)
<1> DEFINE L == Len(ss)
           S == {m \in Nat : m <= L => \E h : JoinUpTo(h, m, ss, T)}
<1>1. L \in Nat /\ \A i \in 1..L : ss[i] \in Seq(T)
  OBVIOUS
<1> HIDE DEF L
<1>2. 0 \in S
  <2> DEFINE h == [i \in 0..0 |-> <<>>]
  <2>1. h \in [0..0 -> Seq(T)] /\ h[0] = <<>>
    OBVIOUS
  <2> HIDE DEF h
  <2>2. JoinUpTo(h, 0, ss, T)
    BY <2>1 DEF JoinUpTo
  <2> QED BY <2>2
<1>3. ASSUME NEW m \in S PROVE m + 1 \in S
  <2>1. SUFFICES ASSUME m + 1 <= L PROVE \E h : JoinUpTo(h, m + 1, ss, T)
    OBVIOUS
  <2>2. m \in Nat /\ m + 1 \in Nat
    OBVIOUS
  <2>3. PICK h : JoinUpTo(h, m, ss, T)
    BY <1>1, <2>1
  <2> HIDE DEF S
  <2> DEFINE new == h[m] \o ss[m + 1]
             g == [i \in 0..(m + 1) |-> IF i = m + 1 THEN new ELSE h[i]]
  <2>4. h \in [0..m -> Seq(T)] /\ h[0] = <<>> /\ \A i \in 1..m : h[i] = h[i - 1] \o ss[i]
    BY <2>3 DEF JoinUpTo
  <2>5. new \in Seq(T)
    <3>1. m \in 0..m /\ m + 1 \in 1..L
      BY <1>1, <2>1, <2>2
    <3>2. h[m] \in Seq(T) /\ ss[m + 1] \in Seq(T)
      BY <1>1, <2>4, <3>1
    <3> QED BY <3>2
  <2> HIDE DEF new
  <2>6. g \in [0..(m + 1) -> Seq(T)]
    <3>1. \A i \in 0..(m + 1) : i = m + 1 \/ i \in 0..m
      BY <2>2
    <3> QED BY <2>4, <2>5, <3>1
  <2>7. g[0] = <<>> /\ g[m + 1] = new /\ \A i \in 0..m : g[i] = h[i]
    BY <2>2, <2>4
  <2> HIDE DEF g
  <2>8. ASSUME NEW i \in 1..(m + 1) PROVE g[i] = g[i - 1] \o ss[i]
    <3>1. CASE i = m + 1
      <4>1. i - 1 = m /\ m \in 0..m
        BY <2>2, <3>1
      <4> QED BY <2>7, <3>1, <4>1 DEF new
    <3>2. CASE i # m + 1
      <4>1. i \in 1..m /\ i \in 0..m /\ i - 1 \in 0..m
        BY <2>2, <3>2
      <4> QED BY <2>4, <2>7, <4>1
    <3> QED BY <3>1, <3>2
  <2>9. JoinUpTo(g, m + 1, ss, T)
    BY <2>6, <2>7, <2>8 DEF JoinUpTo
  <2> QED BY <2>9
<1>4. S = Nat
  <2>1. S \in SUBSET Nat /\ Inductive(S)
    BY <1>2, <1>3 DEF Inductive
  <2> HIDE DEF S
  <2> QED BY <2>1, Induction
<1> QED BY <1>1, <1>4 DEF L

LEMMA JoinIs ==
  ASSUME NEW T, NEW ss \in Seq(Seq(T)), NEW f, JoinUpTo(f, Len(ss), ss, T)
  PROVE  FlattenSeq(ss) = f[Len(ss)]
<1> DEFINE L == Len(ss)
           h == CHOOSE g : g = [i \in 1..L |-> IF i = 1 THEN ss[i] ELSE g[i - 1] \o ss[i]]
           e(i) == IF i = 1 THEN ss[i] ELSE f[i - 1] \o ss[i]
           k == [i \in 1..L |-> f[i]]
<1>1. L \in Nat /\ \A i \in 1..L : ss[i] \in Seq(T)
  OBVIOUS
<1>2. /\ f \in [0..L -> Seq(T)] /\ f[0] = <<>>
      /\ \A i \in 1..L : f[i] = f[i - 1] \o ss[i]
  BY DEF JoinUpTo
<1>3. CASE L = 0
  BY <1>2, <1>3 DEF FlattenSeq
<1>4. CASE L # 0
  <2>1. FlattenSeq(ss) = h[L]
    BY <1>4, Zenon DEF FlattenSeq
  <2> HIDE DEF L
  <2>2. f[1] = ss[1]
    <3>1. 1 \in 1..L /\ 1 - 1 = 0
      BY <1>1, <1>4
    <3>2. f[1] = <<>> \o ss[1] /\ ss[1] \in Seq(T)
      BY <1>1, <1>2, <3>1
    <3> QED BY <3>2
  <2>3. k = [i \in 1..L |-> IF i = 1 THEN ss[i] ELSE k[i - 1] \o ss[i]]
    <3>1. ASSUME NEW i \in 1..L PROVE k[i] = IF i = 1 THEN ss[i] ELSE k[i - 1] \o ss[i]
      <4>1. CASE i = 1
        BY <2>2, <4>1
      <4>2. CASE i # 1
        <5>1. i - 1 \in 1..L
          BY <1>1, <4>2
        <5>2. k[i - 1] = f[i - 1] /\ k[i] = f[i]
          BY <5>1
        <5> HIDE DEF k
        <5> QED BY <1>2, <4>2, <5>2
      <4> QED BY <4>1, <4>2
    <3>2. \A i \in 1..L : f[i] = IF i = 1 THEN ss[i] ELSE k[i - 1] \o ss[i]
      BY <3>1
    <3> DEFINE d(i) == IF i = 1 THEN ss[i] ELSE k[i - 1] \o ss[i]
    <3>3. \A i \in 1..L : f[i] = d(i)
      BY <3>2
    <3> HIDE DEF d
    <3>4. k = [i \in 1..L |-> d(i)]
      BY <3>3
    <3> QED BY <3>4, Zenon DEF d
  <2> HIDE DEF k
  <2>4. h = [i \in 1..L |-> IF i = 1 THEN ss[i] ELSE h[i - 1] \o ss[i]]
    BY <2>3, Zenon
  <2> HIDE DEF h
  <2>5. \A i \in 1..L : h[i] = IF i = 1 THEN ss[i] ELSE h[i - 1] \o ss[i]
    BY <2>4, Zenon
  <2> DEFINE S == {m \in Nat : m + 1 <= L => f[m + 1] = h[m + 1]}
  <2>6. 0 \in S
    <3>1. 1 \in 1..L
      BY <1>1, <1>4
    <3>2. h[1] = ss[1]
      BY <2>5, <3>1
    <3> QED BY <2>2, <3>2
  <2>7. ASSUME NEW m \in S PROVE m + 1 \in S
    <3>1. m \in Nat /\ m + 1 \in Nat
      OBVIOUS
    <3>2. SUFFICES ASSUME (m + 1) + 1 <= L PROVE f[(m + 1) + 1] = h[(m + 1) + 1]
      BY <3>1
    <3>3. f[m + 1] = h[m + 1]
      BY <1>1, <3>1, <3>2
    <3> HIDE DEF S
    <3>4. (m + 1) + 1 \in 1..L /\ (m + 1) + 1 # 1 /\ ((m + 1) + 1) - 1 = m + 1
      BY <1>1, <3>1, <3>2
    <3>5. f[(m + 1) + 1] = f[m + 1] \o ss[(m + 1) + 1]
      BY <1>2, <3>4
    <3>6. h[(m + 1) + 1] = h[m + 1] \o ss[(m + 1) + 1]
      BY <2>5, <3>4
    <3> QED BY <3>3, <3>5, <3>6
  <2>8. S = Nat
    <3>1. S \in SUBSET Nat /\ Inductive(S)
      BY <2>6, <2>7 DEF Inductive
    <3> HIDE DEF S
    <3> QED BY <3>1, Induction
  <2>9. L - 1 \in Nat /\ (L - 1) + 1 = L
    BY <1>1, <1>4
  <2>10. f[L] = h[L]
    <3>1. L - 1 \in S
      BY <2>8, <2>9
    <3> QED BY <1>1, <2>9, <3>1
  <2> QED BY <2>1, <2>10 DEF L
<1> QED BY <1>3, <1>4

LEMMA JoinTyped ==
  ASSUME NEW T, NEW ss \in Seq(Seq(T))
  PROVE  FlattenSeq(ss) \in Seq(T)
<1>1. PICK f : JoinUpTo(f, Len(ss), ss, T)
  BY JoinsExist
<1>2. f[Len(ss)] \in Seq(T)
  BY <1>1 DEF JoinUpTo
<1> QED BY <1>1, <1>2, JoinIs

LEMMA JoinOfAppend ==
  ASSUME NEW T, NEW ss \in Seq(Seq(T)), NEW x \in Seq(T)
  PROVE  FlattenSeq(Append(ss, x)) = FlattenSeq(ss) \o x
<1> DEFINE L == Len(ss)
           more == Append(ss, x)
<1>1. /\ more \in Seq(Seq(T)) /\ Len(more) = L + 1 /\ more[L + 1] = x
      /\ \A i \in 1..L : more[i] = ss[i]
      /\ L \in Nat
  OBVIOUS
<1>2. PICK h : JoinUpTo(h, L + 1, more, T)
  <2> HIDE DEF L, more
  <2> QED BY <1>1, JoinsExist
<1>3. FlattenSeq(more) = h[L + 1]
  <2> HIDE DEF L, more
  <2> QED BY <1>1, <1>2, JoinIs
<1> HIDE DEF L, more
<1>4. h \in [0..(L + 1) -> Seq(T)] /\ h[0] = <<>> /\ \A i \in 1..(L + 1) : h[i] = h[i - 1] \o more[i]
  BY <1>2 DEF JoinUpTo
<1> DEFINE g == [i \in 0..L |-> h[i]]
<1>5. g \in [0..L -> Seq(T)] /\ g[0] = <<>> /\ g[L] = h[L] /\ \A i \in 0..L : g[i] = h[i]
  BY <1>1, <1>4
<1> HIDE DEF g
<1>6. ASSUME NEW i \in 1..L PROVE g[i] = g[i - 1] \o ss[i]
  <2>1. i \in 1..(L + 1) /\ i \in 0..L /\ i - 1 \in 0..L
    BY <1>1
  <2> QED BY <1>1, <1>4, <1>5, <2>1
<1>7. FlattenSeq(ss) = h[L]
  <2>1. JoinUpTo(g, L, ss, T)
    BY <1>5, <1>6 DEF JoinUpTo
  <2> QED BY <1>5, <2>1, JoinIs DEF L
<1>8. h[L + 1] = h[L] \o x
  <2>1. L + 1 \in 1..(L + 1) /\ (L + 1) - 1 = L
    BY <1>1
  <2> QED BY <1>1, <1>4, <2>1
<1> QED BY <1>3, <1>7, <1>8 DEF more

(* CreditOf: the window update of a batch, if it has one. *)
LEMMA CreditNone ==
  ASSUME NEW b, \A k \in 1..Len(b) : b[k].kind # "WINDOW"
  PROVE  CreditOf(b) = 0
BY DEF CreditOf

LEMMA CreditIs ==
  ASSUME NEW b, NEW k \in 1..Len(b), b[k].kind = "WINDOW",
         \A j \in 1..Len(b) : b[j].kind = "WINDOW" => j = k
  PROVE  CreditOf(b) = b[k].val
<1> DEFINE w == {j \in 1..Len(b) : b[j].kind = "WINDOW"}
<1>1. w = {k}
  OBVIOUS
<1> HIDE DEF w
<1>2. (CHOOSE j \in w : TRUE) = k
  BY <1>1
<1> QED BY <1>1, <1>2 DEF CreditOf, w

LEMMA CreditTyped ==
  ASSUME NEW b \in Seq(FrameType)
  PROVE  CreditOf(b) \in Nat
<1> DEFINE w == {j \in 1..Len(b) : b[j].kind = "WINDOW"}
<1>1. CASE w = {}
  BY <1>1 DEF CreditOf
<1>2. CASE w # {}
  <2>1. (CHOOSE j \in w : TRUE) \in w
    BY <1>2, Zenon
  <2> DEFINE c == CHOOSE j \in w : TRUE
  <2>2. CreditOf(b) = b[c].val
    BY <1>2 DEF CreditOf
  <2>3. c \in 1..Len(b)
    BY <2>1
  <2> HIDE DEF c
  <2>4. b[c] \in FrameType
    BY <2>3
  <2> QED BY <2>2, <2>4 DEF FrameType
<1> QED BY <1>1, <1>2

LEMMA UnitsOfOne ==
  ASSUME NEW f \in FrameType
  PROVE  UnitsOf(<<f>>) = IF f.kind = "DATA" THEN <<f.val>> ELSE <<>>
<1>1. <<>> \in Seq(FrameType) /\ Append(<<>>, f) = <<f>>
  OBVIOUS
<1>2. UnitsOf(Append(<<>>, f)) = Plus(<<>>, f)
  BY <1>1, UnitsOfAppend, UnitsOfNone
<1> QED BY <1>1, <1>2 DEF Plus

-----------------------------------------------------------------------------
(* What travels, and the types of the state.                                *)
Batch == Seq(FrameType)
UpReq == [kind : {"up"}, seq : Nat, frames : Batch]
DownReq == [kind : {"down"}, cursor : Nat]
DeleteReq == [kind : {"delete"}]
MessageReq == [kind : {"message"}, frames : Batch]
DownAnswer == [status : {"ok"}, cursor : Nat, frames : Batch, lane : BOOLEAN]
Piece == [op : {"data"}, final : BOOLEAN, begins : BOOLEAN, frames : Batch]
Control == [op : {"ping", "text", "close"}]
SocketType == [up : Seq(Batch), down : Seq(Piece \cup Control), fails : BOOLEAN, garbled : BOOLEAN]
RelayType == [session : {"none", "open", "deleted"}, seq : Nat, open : BOOLEAN, up : Seq(Nat),
              out : Batch, pushed : Nat, credit : Int, gap : BOOLEAN]
Dialing == {"bridge", "session", "transport", "upgrade", "failed"}

ClientTypes ==
  /\ inbox \in Batch /\ readBuf \in Seq(Nat) /\ got \in Seq(Nat)
  /\ debt \in Nat /\ upSeq \in Nat /\ cursor \in Nat /\ written \in Nat /\ faults \in Nat
  /\ acked \subseteq Nat
  /\ opened \in BOOLEAN /\ closed \in BOOLEAN /\ eof \in BOOLEAN
  /\ torn \in BOOLEAN /\ expired \in BOOLEAN /\ lost \in BOOLEAN
  /\ message \in Seq(Piece)

NetworkTypes ==
  /\ sock \in SocketType /\ relay \in RelayType
  /\ wire \subseteq UpReq \cup DownReq \cup DeleteReq

Types == ClientTypes /\ NetworkTypes

(* What the caller waits for, and what may have been answered. *)
Exchange ==
  /\ ~Exchanging => ex = Idle /\ answer = NoAnswer
  /\ Exchanging => \/ ex.req \in UpReq /\ mode # "ws"
                   \/ ex.req \in MessageReq /\ mode = "ws" /\ answer = NoAnswer
                   \/ ex.req \in DownReq /\ (answer.status = "ok" => answer \in DownAnswer)
                   \/ ex.req \in DeleteReq

-----------------------------------------------------------------------------
LEMMA PlainFrames ==
  /\ Frame("OPEN", 0) \in FrameType /\ Frame("PONG", 0) \in FrameType /\ Frame("CLOSE", 0) \in FrameType
  /\ \A n \in Nat : Frame("WINDOW", n) \in FrameType /\ Frame("DATA", n) \in FrameType
  /\ Frame("PING", 0) \in FrameType /\ Frame("BYE", 0) \in FrameType
BY DEF Frame, FrameType

(* The batch of a Write. *)
Chunk == (IF opened THEN <<>> ELSE <<Frame("OPEN", 0)>>) \o Grant \o <<Frame("DATA", written + 1)>>

LEMMA ChunkTyped == Types => Chunk \in Batch
<1> SUFFICES ASSUME Types PROVE Chunk \in Batch
  OBVIOUS
<1>1. debt \in Nat /\ written + 1 \in Nat
  BY DEF Types, ClientTypes
<1>2. (IF opened THEN <<>> ELSE <<Frame("OPEN", 0)>>) \in Batch
  BY PlainFrames DEF Batch
<1>3. Grant \in Batch
  BY <1>1, PlainFrames DEF Batch, Grant
<1>4. <<Frame("DATA", written + 1)>> \in Batch
  BY <1>1, PlainFrames DEF Batch
<1>5. \A a, b, c \in Batch : a \o b \o c \in Batch
  BY DEF Batch
<1> QED BY <1>2, <1>3, <1>4, <1>5, Zenon DEF Chunk

LEMMA AfterTyped ==
  ASSUME Types, NEW b \in Batch
  PROVE  /\ After(b) \in RelayType
         /\ After(b).session = relay.session /\ After(b).seq = relay.seq /\ After(b).out = relay.out
         /\ After(b).pushed = relay.pushed /\ After(b).gap = relay.gap
         /\ After(b).up = relay.up \o UnitsOf(b) /\ After(b).credit = relay.credit + CreditOf(b)
<1>1. relay \in RelayType
  BY DEF Types, NetworkTypes
<1>2. relay.up \o UnitsOf(b) \in Seq(Nat)
  <2>1. UnitsOf(b) \in Seq(Nat)
    BY UnitsTyped DEF Batch
  <2> QED BY <1>1, <2>1 DEF RelayType
<1>3. relay.credit + CreditOf(b) \in Int
  <2>1. CreditOf(b) \in Nat
    BY CreditTyped DEF Batch
  <2> QED BY <1>1, <2>1 DEF RelayType
<1>4. ((relay.open \/ Has(b, "OPEN")) /\ ~Has(b, "CLOSE")) \in BOOLEAN
  OBVIOUS
<1> DEFINE u == relay.up \o UnitsOf(b)
           c == relay.credit + CreditOf(b)
           o == (relay.open \/ Has(b, "OPEN")) /\ ~Has(b, "CLOSE")
<1>5. After(b) = [relay EXCEPT !.open = o, !.up = u, !.credit = c]
  BY DEF After
<1>6. u \in Seq(Nat) /\ c \in Int /\ o \in BOOLEAN
  BY <1>2, <1>3
<1> HIDE DEF u, c, o
<1>7. /\ After(b) \in RelayType
      /\ After(b).session = relay.session /\ After(b).seq = relay.seq /\ After(b).out = relay.out
      /\ After(b).pushed = relay.pushed /\ After(b).gap = relay.gap
      /\ After(b).up = u /\ After(b).credit = c
  BY <1>1, <1>5, <1>6 DEF RelayType
<1> QED BY <1>7 DEF u, c

(* How a step may treat the exchange. *)
LEMMA ExchangeKept ==
  ASSUME Exchange, pc' = pc, ex' = ex, answer' = answer, mode' = mode
  PROVE  Exchange'
BY DEF Exchange, Exchanging

LEMMA ExchangeOver ==
  ASSUME Settled, pc' # "wait"
  PROVE  Exchange'
BY DEF Exchange, Exchanging, Settled

LEMMA ExchangeNone ==
  ASSUME Exchange, pc # "wait", pc' # "wait", ex' = ex, answer' = answer
  PROVE  Exchange'
BY DEF Exchange, Exchanging

(* What the carrier has done when a batch is on its way. *)
SentMessage(b) ==
  /\ pc' = "wait" /\ answer' = NoAnswer
  /\ ex'.req = [kind |-> "message", frames |-> b] /\ ex'.req \in MessageReq
  /\ wire' = wire /\ upSeq' = upSeq
SentUp(b) ==
  /\ pc' = "wait" /\ answer' = NoAnswer
  /\ ex'.req = UpRequest(upSeq + 1, b) /\ ex'.req \in UpReq
  /\ wire' \in {wire, wire \cup {UpRequest(upSeq + 1, b)}}
  /\ upSeq' = upSeq + 1

LEMMA SendEffect ==
  ASSUME NEW cont, NEW b \in Batch, Send(cont, b), upSeq \in Nat
  PROVE  /\ ex'.cont = cont
         /\ (mode = "ws" /\ SentMessage(b)) \/ (mode # "ws" /\ SentUp(b))
<1>1. CASE mode = "ws"
  BY <1>1 DEF Send, SendSocket, MessageReq, SentMessage
<1>2. CASE mode # "ws"
  BY <1>2 DEF Send, SendHTTPS, Await, UpRequest, UpReq, SentUp
<1> QED BY <1>1, <1>2

LEMMA SendCounts ==
  ASSUME NEW cont, NEW b \in Batch, Send(cont, b), upSeq \in Nat
  PROVE  upSeq' \in Nat /\ wire' \subseteq wire \cup UpReq
<1>1. CASE SentMessage(b)
  BY <1>1 DEF SentMessage
<1>2. CASE SentUp(b)
  BY <1>2 DEF SentUp
<1> QED BY <1>1, <1>2, SendEffect, Zenon

LEMMA ExchangeSent ==
  ASSUME NEW cont, NEW b \in Batch, Send(cont, b), upSeq \in Nat, mode' = mode
  PROVE  Exchange'
<1>1. CASE mode = "ws" /\ SentMessage(b)
  BY <1>1 DEF SentMessage, Exchange, Exchanging
<1>2. CASE mode # "ws" /\ SentUp(b)
  BY <1>2 DEF SentUp, Exchange, Exchanging
<1> QED BY <1>1, <1>2, SendEffect, Zenon

LEMMA ExchangeReplied ==
  ASSUME Exchange, NEW req, NEW a, Reply(req, a),
         Exchanging /\ ex.req = req =>
           /\ req \notin MessageReq
           /\ req \in DownReq => (a.status = "ok" => a \in DownAnswer)
  PROVE  Exchange'
<1>1. pc' = pc /\ ex' = ex /\ mode' = mode /\ answer' = IF Exchanging /\ ex.req = req THEN a ELSE answer
  BY DEF Reply, socket, Exchanging
<1>2. CASE Exchanging /\ ex.req = req
  BY <1>1, <1>2 DEF Exchange, Exchanging
<1>3. CASE ~(Exchanging /\ ex.req = req)
  <2>1. answer' = answer
    BY <1>1, <1>3
  <2> QED BY <1>1, <2>1, ExchangeKept
<1> QED BY <1>2, <1>3

LEMMA WriteSends ==
  ASSUME Write
  PROVE  Send("write", Chunk)
BY Zenon DEF Write, Chunk

LEMMA ReadEffect ==
  ASSUME Types, NEW n \in 1..Len(readBuf), ReadBuffered(n)
  PROVE  /\ got' \in Seq(Nat) /\ readBuf' \in Seq(Nat) /\ Len(got') = Len(got) + n
         /\ n \in Nat /\ debt + n \in Nat /\ debt' \in Nat
         /\ <<Frame("WINDOW", debt + n)>> \in Batch
         /\ debt' = IF debt + n >= GrantMin THEN 0 ELSE debt + n
         /\ \/ /\ debt + n >= GrantMin /\ ~closed
               /\ Send("grant", <<Frame("WINDOW", debt + n)>>)
            \/ /\ debt + n >= GrantMin => closed
               /\ pc' = "idle" /\ UNCHANGED <<ex, answer, wire, upSeq>>
<1>1. got \in Seq(Nat) /\ readBuf \in Seq(Nat) /\ debt \in Nat
  BY DEF Types, ClientTypes
<1>2. n \in Nat /\ debt + n \in Nat
  BY <1>1
<1>3. /\ got' = got \o SubSeq(readBuf, 1, n)
      /\ readBuf' = SubSeq(readBuf, n + 1, Len(readBuf))
  BY DEF ReadBuffered
<1>4. /\ SubSeq(readBuf, 1, n) \in Seq(Nat) /\ Len(SubSeq(readBuf, 1, n)) = n
      /\ SubSeq(readBuf, n + 1, Len(readBuf)) \in Seq(Nat)
  BY <1>1
<1>5. got' \in Seq(Nat) /\ readBuf' \in Seq(Nat) /\ Len(got') = Len(got) + n
  BY <1>1, <1>3, <1>4
<1>6. <<Frame("WINDOW", debt + n)>> \in Batch
  BY <1>2, PlainFrames DEF Batch
<1>7. debt' = IF debt + n >= GrantMin THEN 0 ELSE debt + n
  BY DEF ReadBuffered
<1>8. \/ /\ debt + n >= GrantMin /\ ~closed
         /\ Send("grant", <<Frame("WINDOW", debt + n)>>)
      \/ /\ debt + n >= GrantMin => closed
         /\ pc' = "idle" /\ UNCHANGED <<ex, answer, wire, upSeq>>
  BY DEF ReadBuffered
<1>9. debt' \in Nat
  BY <1>2, <1>7
<1> QED BY <1>2, <1>5, <1>6, <1>7, <1>8, <1>9, Zenon

LEMMA CloseEffect ==
  ASSUME Close
  PROVE  /\ <<Frame("CLOSE", 0)>> \in Batch
         /\ \/ Send("close", <<Frame("CLOSE", 0)>>)
            \/ pc' = "closing" /\ UNCHANGED <<ex, answer, wire, upSeq>>
<1>1. <<Frame("CLOSE", 0)>> \in Batch
  BY PlainFrames DEF Batch
<1> QED BY <1>1 DEF Close

LEMMA PingEffect ==
  ASSUME Types, FilePing
  PROVE  /\ <<Frame("PONG", 0)>> \in Batch /\ Send("pong", <<Frame("PONG", 0)>>)
         /\ inbox # <<>> /\ inbox' = Tail(inbox) /\ inbox' \in Batch
<1>1. <<Frame("PONG", 0)>> \in Batch
  BY PlainFrames DEF Batch
<1>2. inbox \in Batch
  BY DEF Types, ClientTypes
<1> QED BY <1>1, <1>2 DEF FilePing, Batch

(* One turn of the loop of wsCarrier.receive. *)
LEMMA SocketReadsEffect ==
  ASSUME Types, SocketReads
  PROVE  LET f == Head(sock.down) IN
         /\ f \in Piece \cup Control /\ Tail(sock.down) \in Seq(Piece \cup Control)
         /\ sock.down # <<>> /\ ~sock.garbled
         /\ sock'.down = Tail(sock.down) /\ sock'.up = sock.up /\ sock'.garbled = sock.garbled
         /\ sock' \in SocketType /\ (sock.fails => sock'.fails)
         /\ \/ UNCHANGED <<pc, message, torn, inbox>> /\ f \in Control
            \/ /\ f \in Piece /\ ~f.final
               /\ message' = Append(message, f) /\ UNCHANGED <<pc, torn, inbox>>
            \/ f \in Piece /\ f.final /\ MessageDone(Append(message, f))
            \/ ReceiveFails /\ f \in Control
<1> DEFINE f == Head(sock.down)
           pongs == f.op = "ping" /\ ~expired /\ ~sock.fails
<1>1. sock \in SocketType /\ sock.down # <<>> /\ ~sock.garbled
  BY DEF Types, NetworkTypes, SocketReads
<1>2. sock.down \in Seq(Piece \cup Control)
  BY <1>1 DEF SocketType
<1>3. f \in Piece \cup Control /\ Tail(sock.down) \in Seq(Piece \cup Control)
  BY <1>1, <1>2
<1>4. (f \in Piece <=> f.op = "data") /\ (f \in Control <=> f.op # "data")
  BY <1>3 DEF Piece, Control
<1>5. /\ sock' = [sock EXCEPT !.down = Tail(@), !.fails = @ \/ (f.op = "ping" /\ ~pongs)]
      /\ pongs => UNCHANGED <<pc, message, torn, inbox>>
      /\ ~pongs /\ f.op = "data" /\ ~f.final => message' = Append(message, f) /\ UNCHANGED <<pc, torn, inbox>>
      /\ ~pongs /\ f.op = "data" /\ f.final => MessageDone(Append(message, f))
      /\ ~pongs /\ f.op # "data" => ReceiveFails
  BY DEF SocketReads
<1>6. pongs => f.op # "data"
  OBVIOUS
<1> DEFINE b == sock.fails \/ (f.op = "ping" /\ ~pongs)
<1>7. b \in BOOLEAN /\ (sock.fails => b)
  OBVIOUS
<1>8. sock' = [sock EXCEPT !.down = Tail(sock.down), !.fails = b]
  BY <1>1, <1>5 DEF SocketType
<1>9. f.op = "data" => f.final \in BOOLEAN
  BY <1>4 DEF Piece
<1> HIDE DEF b, pongs, f
<1>10. /\ sock'.down = Tail(sock.down) /\ sock'.up = sock.up /\ sock'.garbled = sock.garbled
       /\ sock' \in SocketType /\ (sock.fails => sock'.fails)
  BY <1>1, <1>3, <1>7, <1>8 DEF SocketType
<1>11. \/ UNCHANGED <<pc, message, torn, inbox>> /\ f \in Control
       \/ /\ f \in Piece /\ ~f.final
          /\ message' = Append(message, f) /\ UNCHANGED <<pc, torn, inbox>>
       \/ f \in Piece /\ f.final /\ MessageDone(Append(message, f))
       \/ ReceiveFails /\ f \in Control
  BY <1>4, <1>5, <1>6, Zenon
<1> QED BY <1>1, <1>3, <1>10, <1>11 DEF f

LEMMA MessageTyped ==
  ASSUME NEW fragments \in Seq(Piece)
  PROVE  FlattenSeq([i \in DOMAIN fragments |-> fragments[i].frames]) \in Batch
<1> DEFINE fs == [i \in DOMAIN fragments |-> fragments[i].frames]
<1>1. DOMAIN fragments = 1..Len(fragments) /\ Len(fragments) \in Nat
  OBVIOUS
<1>2. ASSUME NEW i \in 1..Len(fragments) PROVE fragments[i].frames \in Seq(FrameType)
  <2>1. fragments[i] \in Piece
    OBVIOUS
  <2> QED BY <2>1 DEF Piece, Batch
<1>3. fs = [i \in 1..Len(fragments) |-> fragments[i].frames]
  BY <1>1
<1>4. fs \in Seq(Seq(FrameType))
  BY <1>1, <1>2, <1>3
<1> HIDE DEF fs
<1>5. FlattenSeq(fs) \in Seq(FrameType)
  BY <1>4, JoinTyped
<1> QED BY <1>5 DEF fs, Batch

LEMMA MessageDoneEffect ==
  ASSUME NEW fragments \in Seq(Piece), inbox \in Batch, torn \in BOOLEAN, MessageDone(fragments)
  PROVE  /\ message' = <<>> /\ inbox' \in Batch /\ torn' \in BOOLEAN
         /\ pc' \in {"idle", "frames"}
BY MessageTyped, Zenon DEF MessageDone

LEMMA FragmentTyped ==
  ASSUME relay \in RelayType
  PROVE  \A from, upto \in Nat, final, begins \in BOOLEAN :
           upto <= Len(relay.out) => Fragment(from, upto, final, begins) \in Piece
<1> TAKE from, upto \in Nat, final, begins \in BOOLEAN
<1>1. relay.out \in Seq(FrameType)
  BY DEF RelayType, Batch
<1>2. SUFFICES ASSUME upto <= Len(relay.out) PROVE Fragment(from, upto, final, begins) \in Piece
  OBVIOUS
<1> DEFINE fs == SubSeq(relay.out, from + 1, upto)
<1>3. fs \in Seq(FrameType)
  BY <1>1, <1>2
<1> HIDE DEF fs
<1>4. [op |-> "data", final |-> final, begins |-> begins, frames |-> fs] \in Piece
  BY <1>3 DEF Piece, Batch
<1> QED BY <1>4, Zenon DEF Fragment, fs

LEMMA InsertTyped ==
  ASSUME NEW T, NEW s \in Seq(T), NEW i \in 1..(Len(s) + 1), NEW x \in T
  PROVE  InsertAt(s, i, x) \in Seq(T)
<1>1. SubSeq(s, 1, i - 1) \in Seq(T) /\ <<x>> \in Seq(T) /\ SubSeq(s, i, Len(s)) \in Seq(T)
  OBVIOUS
<1>2. \A a, b, c \in Seq(T) : a \o b \o c \in Seq(T)
  OBVIOUS
<1> QED BY <1>1, <1>2, Zenon DEF InsertAt

LEMMA ClientTypesStep ==
  ASSUME Types, Exchange, Next
  PROVE  ClientTypes'
<1>1. ASSUME NEW ok \in BOOLEAN, FetchBridge(ok) PROVE ClientTypes'
  BY <1>1 DEF FetchBridge, Types, ClientTypes, Settled, Reply, SendFails, client, history, socket
<1>2. ASSUME NEW o \in {"refused", "lost", "malformed", "welcome"}, CreateSession(o) PROVE ClientTypes'
  BY <1>2 DEF CreateSession, Types, ClientTypes, Settled, Reply, SendFails, client, history, socket
<1>3. ASSUME NEW m \in {"none", "https", "ws"}, ChooseTransport(m) PROVE ClientTypes'
  BY <1>3 DEF ChooseTransport, Types, ClientTypes, Settled, Reply, SendFails, client, history, socket
<1>4. ASSUME NEW ok \in BOOLEAN, Upgrade(ok) PROVE ClientTypes'
  BY <1>4 DEF Upgrade, Types, ClientTypes, Settled, Reply, SendFails, client, history, socket
<1>5. CASE Write
  <2>1. Chunk \in Batch /\ Send("write", Chunk)
    BY <1>5, ChunkTyped, WriteSends
  <2>2. upSeq' \in Nat
    BY <2>1, SendCounts DEF Types, ClientTypes
  <2> QED BY <1>5, <2>2 DEF Write, Types, ClientTypes, socket
<1>6. CASE Read
  BY <1>6 DEF Read, Types, ClientTypes, Settled, Reply, SendFails, client, history, socket
<1>7. ASSUME NEW n \in 1..Len(readBuf), ReadBuffered(n) PROVE ClientTypes'
  <2>1. upSeq \in Nat /\ debt \in Nat
    BY DEF Types, ClientTypes
  <2>2. upSeq' \in Nat
    <3>1. CASE Send("grant", <<Frame("WINDOW", debt + n)>>)
      BY <1>7, <2>1, <3>1, ReadEffect, SendCounts
    <3>2. CASE UNCHANGED <<ex, answer, wire, upSeq>>
      BY <2>1, <3>2
    <3> QED BY <1>7, <3>1, <3>2, ReadEffect, Zenon
  <2>3. debt' \in Nat /\ got' \in Seq(Nat) /\ readBuf' \in Seq(Nat)
    BY <1>7, ReadEffect, Zenon
  <2> QED BY <1>7, <2>2, <2>3 DEF ReadBuffered, Types, ClientTypes, socket
<1>8. CASE ReadEnds
  BY <1>8 DEF ReadEnds, Types, ClientTypes, Settled, Reply, SendFails, client, history, socket
<1>9. CASE Pump
  BY <1>9 DEF Pump, Types, ClientTypes, Settled, Reply, SendFails, client, history, socket
<1>10. CASE FilePing
  <2>1. upSeq' \in Nat /\ inbox' \in Batch
    <3>1. Send("pong", <<Frame("PONG", 0)>>) /\ <<Frame("PONG", 0)>> \in Batch /\ inbox' \in Batch
      BY <1>10, PingEffect, Zenon
    <3> QED BY <3>1, SendCounts DEF Types, ClientTypes
  <2> QED BY <1>10, <2>1 DEF FilePing, Types, ClientTypes, history, socket
<1>11. CASE FileFrame
  <2>1. inbox \in Seq(FrameType) /\ inbox # <<>> /\ readBuf \in Seq(Nat) /\ eof \in BOOLEAN
    BY <1>11 DEF FileFrame, Types, ClientTypes, Batch
  <2>2. Head(inbox) \in FrameType /\ Tail(inbox) \in Seq(FrameType)
    BY <2>1
  <2>3. inbox' \in Batch /\ readBuf' \in Seq(Nat) /\ eof' \in BOOLEAN
    BY <1>11, <2>1, <2>2 DEF FileFrame, FrameType, Batch
  <2> QED BY <1>11, <2>3 DEF FileFrame, Types, ClientTypes, history, socket
<1>12. CASE PumpDone
  BY <1>12 DEF PumpDone, Types, ClientTypes, Settled, Reply, SendFails, client, history, socket
<1>13. CASE Close
  <2>1. upSeq \in Nat
    BY DEF Types, ClientTypes
  <2>2. upSeq' \in Nat
    <3>1. CASE Send("close", <<Frame("CLOSE", 0)>>)
      BY <1>13, <2>1, <3>1, CloseEffect, SendCounts
    <3>2. CASE UNCHANGED <<ex, answer, wire, upSeq>>
      BY <2>1, <3>2
    <3> QED BY <1>13, <3>1, <3>2, CloseEffect, Zenon
  <2> QED BY <1>13, <2>2 DEF Close, Types, ClientTypes, history, socket
<1>14. CASE DeleteSession
  BY <1>14 DEF DeleteSession, Types, ClientTypes, Settled, Reply, SendFails, client, history, socket
<1>15. CASE SendDone
  BY <1>15 DEF SendDone, Types, ClientTypes, Settled, Reply, SendFails, client, history, socket
<1>16. CASE SendRefused
  BY <1>16 DEF SendRefused, Types, ClientTypes, Settled, Reply, SendFails, client, history, socket
<1>17. CASE SendBusy
  BY <1>17 DEF SendBusy, Types, ClientTypes, Settled, Reply, SendFails, client, history, socket
<1>18. CASE ReceiveDone
  <2>1. answer \in DownAnswer
    BY <1>18 DEF ReceiveDone, Exchange, Exchanging, UpReq, MessageReq, DeleteReq
  <2>2. answer.frames \in Batch /\ answer.cursor \in Nat /\ answer.lane \in BOOLEAN
    BY <2>1 DEF DownAnswer
  <2> QED BY <1>18, <2>2 DEF ReceiveDone, Types, ClientTypes, history, socket
<1>19. CASE ReceiveBusy
  BY <1>19 DEF ReceiveBusy, Types, ClientTypes, Settled, Reply, SendFails, client, history, socket
<1>20. CASE ReceiveRefused
  BY <1>20 DEF ReceiveRefused, Types, ClientTypes, Settled, Reply, SendFails, client, history, socket
<1>21. CASE DeleteDone
  BY <1>21 DEF DeleteDone, Types, ClientTypes, Settled, Reply, SendFails, client, history, socket
<1>22. ASSUME NEW arrives \in BOOLEAN, GiveUp(arrives) PROVE ClientTypes'
  <2>1. faults' \in Nat
    BY <1>22 DEF GiveUp, Types, ClientTypes
  <2>3. lost' = TRUE \/ lost' = lost
    BY <1>22 DEF GiveUp, SendFails
  <2>2. lost' \in BOOLEAN
    BY <2>3 DEF Types, ClientTypes
  <2> QED BY <1>22, <2>1, <2>2 DEF GiveUp, Types, ClientTypes, client, socket
<1>23. CASE DeadlinePasses
  BY <1>23 DEF DeadlinePasses, Types, ClientTypes, Settled, Reply, SendFails, client, history, socket
<1>24. CASE SocketWrites
  BY <1>24 DEF SocketWrites, Types, ClientTypes, Settled, Reply, SendFails, client, history, socket
<1>25. CASE SocketWriteFails
  BY <1>25 DEF SocketWriteFails, Types, ClientTypes, Settled, Reply, SendFails, client, history, socket
<1>26. CASE SocketReads
  <2>1. message \in Seq(Piece) /\ inbox \in Batch /\ torn \in BOOLEAN
    BY DEF Types, ClientTypes
  <2>2. \A f \in Piece : Append(message, f) \in Seq(Piece)
    BY <2>1
  <2>3. message' \in Seq(Piece) /\ inbox' \in Batch /\ torn' \in BOOLEAN
    <3>1. CASE UNCHANGED <<pc, message, torn, inbox>>
      BY <2>1, <3>1
    <3>2. CASE ReceiveFails
      BY <2>1, <3>2 DEF ReceiveFails
    <3>3. CASE /\ Head(sock.down) \in Piece
               /\ message' = Append(message, Head(sock.down)) /\ UNCHANGED <<pc, torn, inbox>>
      BY <2>1, <2>2, <3>3
    <3>4. CASE Head(sock.down) \in Piece /\ MessageDone(Append(message, Head(sock.down)))
      <4> DEFINE fs == Append(message, Head(sock.down))
      <4>1. fs \in Seq(Piece) /\ MessageDone(fs)
        BY <2>2, <3>4
      <4> HIDE DEF fs
      <4>2. message' = <<>> /\ inbox' \in Batch /\ torn' \in BOOLEAN
        BY <2>1, <4>1, MessageDoneEffect
      <4> QED BY <4>2
    <3> QED BY <1>26, <3>1, <3>2, <3>3, <3>4, SocketReadsEffect
  <2> QED BY <1>26, <2>3 DEF SocketReads, Types, ClientTypes, client, history
<1>27. ASSUME NEW b \in BOOLEAN, SocketReadsGarbage(b) PROVE ClientTypes'
  <2>1. <<Frame("DATA", 0)>> \in Batch /\ message \in Seq(Piece) /\ inbox \in Batch /\ torn \in BOOLEAN
    BY PlainFrames DEF Batch, Types, ClientTypes
  <2>2. message' \in Seq(Piece) /\ inbox' \in Batch /\ torn' \in BOOLEAN
    <3>1. CASE b
      BY <1>27, <2>1, <3>1 DEF SocketReadsGarbage
    <3>2. CASE ~b
      BY <1>27, <2>1, <3>2 DEF SocketReadsGarbage, ReceiveFails
    <3> QED BY <3>1, <3>2
  <2> QED BY <1>27, <2>2 DEF SocketReadsGarbage, Types, ClientTypes, client, history
<1>28. ASSUME NEW b \in BOOLEAN, SocketTimeOut(b) PROVE ClientTypes'
  BY <1>28 DEF SocketTimeOut, Types, ClientTypes, Settled, Reply, SendFails, client, history, socket
<1>29. ASSUME NEW req \in wire, RelayCommits(req) PROVE ClientTypes'
  BY <1>29 DEF RelayCommits, Types, ClientTypes, Settled, Reply, SendFails, client, history, socket
<1>30. ASSUME NEW req \in wire, RelayRepeats(req) PROVE ClientTypes'
  BY <1>30 DEF RelayRepeats, Types, ClientTypes, Settled, Reply, SendFails, client, history, socket
<1>31. ASSUME NEW req \in wire, RelaySeesGap(req) PROVE ClientTypes'
  BY <1>31 DEF RelaySeesGap, Types, ClientTypes, Settled, Reply, SendFails, client, history, socket
<1>32. ASSUME NEW req \in wire, RelayBusy(req) PROVE ClientTypes'
  BY <1>32 DEF RelayBusy, Types, ClientTypes, Settled, Reply, SendFails, client, history, socket
<1>33. ASSUME NEW req \in wire, RelayGone(req) PROVE ClientTypes'
  BY <1>33 DEF RelayGone, Types, ClientTypes, Settled, Reply, SendFails, client, history, socket
<1>34. ASSUME NEW req \in wire, RelayDelivers(req) PROVE ClientTypes'
  BY <1>34 DEF RelayDelivers, Types, ClientTypes, Settled, Reply, SendFails, client, history, socket
<1>35. ASSUME NEW req \in wire, RelayDeletes(req) PROVE ClientTypes'
  BY <1>35 DEF RelayDeletes, Types, ClientTypes, Settled, Reply, SendFails, client, history, socket
<1>36. CASE RelayForgets
  BY <1>36 DEF RelayForgets, Types, ClientTypes, Settled, Reply, SendFails, client, history, socket
<1>37. CASE RelayTakes
  BY <1>37 DEF RelayTakes, Types, ClientTypes, Settled, Reply, SendFails, client, history, socket
<1>38. ASSUME NEW cut \in 0..Len(relay.out), NEW to \in 0..Len(relay.out), NEW within \in BOOLEAN, RelayPushes(cut, to, within) PROVE ClientTypes'
  BY <1>38 DEF RelayPushes, Types, ClientTypes, Settled, Reply, SendFails, client, history, socket
<1>39. ASSUME NEW op \in {"ping", "text", "close"}, NEW i \in 1..(Len(sock.down) + 1), RelayInserts(op, i) PROVE ClientTypes'
  BY <1>39 DEF RelayInserts, Types, ClientTypes, Settled, Reply, SendFails, client, history, socket
<1>40. ASSUME NEW k \in {"DATA", "PING", "CLOSE", "BYE"}, RelayProduces(k) PROVE ClientTypes'
  BY <1>40 DEF RelayProduces, Types, ClientTypes, Settled, Reply, SendFails, client, history, socket
<1> QED BY <1>1, <1>2, <1>3, <1>4, <1>5, <1>6, <1>7, <1>8, <1>9, <1>10, <1>11, <1>12, <1>13, <1>14, <1>15, <1>16, <1>17, <1>18, <1>19, <1>20, <1>21, <1>22, <1>23, <1>24, <1>25, <1>26, <1>27, <1>28, <1>29, <1>30, <1>31, <1>32, <1>33, <1>34, <1>35, <1>36, <1>37, <1>38, <1>39, <1>40 DEF Next, Dial, Call, Step, RelayHandles

LEMMA NetworkTypesStep ==
  ASSUME Types, Exchange, Next
  PROVE  NetworkTypes'
<1>1. ASSUME NEW ok \in BOOLEAN, FetchBridge(ok) PROVE NetworkTypes'
  BY <1>1 DEF FetchBridge, Types, NetworkTypes, Exchange, Exchanging, Await, Settled, Reply, Status, SendFails, SocketType, RelayType, UpReq, DownReq, DeleteReq, client, history, socket
<1>2. ASSUME NEW o \in {"refused", "lost", "malformed", "welcome"}, CreateSession(o) PROVE NetworkTypes'
  BY <1>2 DEF CreateSession, Types, NetworkTypes, Exchange, Exchanging, Await, Settled, Reply, Status, SendFails, SocketType, RelayType, UpReq, DownReq, DeleteReq, client, history, socket
<1>3. ASSUME NEW m \in {"none", "https", "ws"}, ChooseTransport(m) PROVE NetworkTypes'
  BY <1>3 DEF ChooseTransport, Types, NetworkTypes, Exchange, Exchanging, Await, Settled, Reply, Status, SendFails, SocketType, RelayType, UpReq, DownReq, DeleteReq, client, history, socket
<1>4. ASSUME NEW ok \in BOOLEAN, Upgrade(ok) PROVE NetworkTypes'
  BY <1>4 DEF Upgrade, Types, NetworkTypes, Exchange, Exchanging, Await, Settled, Reply, Status, SendFails, SocketType, RelayType, UpReq, DownReq, DeleteReq, client, history, socket
<1>5. CASE Write
  <2>1. wire' \subseteq wire \cup UpReq
    BY <1>5, ChunkTyped, WriteSends, SendCounts DEF Types, ClientTypes
  <2> QED BY <1>5, <2>1 DEF Write, Types, NetworkTypes, socket
<1>6. CASE Read
  BY <1>6 DEF Read, Types, NetworkTypes, Exchange, Exchanging, Await, Settled, Reply, Status, SendFails, SocketType, RelayType, UpReq, DownReq, DeleteReq, client, history, socket
<1>7. ASSUME NEW n \in 1..Len(readBuf), ReadBuffered(n) PROVE NetworkTypes'
  <2>1. upSeq \in Nat
    BY DEF Types, ClientTypes
  <2>2. wire' \subseteq wire \cup UpReq
    BY <1>7, <2>1, ReadEffect, SendCounts
  <2> QED BY <1>7, <2>2 DEF ReadBuffered, Types, NetworkTypes, socket
<1>8. CASE ReadEnds
  BY <1>8 DEF ReadEnds, Types, NetworkTypes, Exchange, Exchanging, Await, Settled, Reply, Status, SendFails, SocketType, RelayType, UpReq, DownReq, DeleteReq, client, history, socket
<1>9. CASE Pump
  <2>1. DownRequest \in DownReq
    BY DEF DownRequest, DownReq, Types, ClientTypes
  <2>2. wire' \subseteq wire \cup {DownRequest}
    BY <1>9 DEF Pump, Await
  <2> QED BY <1>9, <2>1, <2>2 DEF Pump, Types, NetworkTypes, socket
<1>10. CASE FilePing
  <2>1. wire' \subseteq wire \cup UpReq
    BY <1>10, PingEffect, SendCounts DEF Types, ClientTypes
  <2> QED BY <1>10, <2>1 DEF FilePing, Types, NetworkTypes, socket
<1>11. CASE FileFrame
  BY <1>11 DEF FileFrame, Types, NetworkTypes, Exchange, Exchanging, Await, Settled, Reply, Status, SendFails, SocketType, RelayType, UpReq, DownReq, DeleteReq, client, history, socket
<1>12. CASE PumpDone
  BY <1>12 DEF PumpDone, Types, NetworkTypes, Exchange, Exchanging, Await, Settled, Reply, Status, SendFails, SocketType, RelayType, UpReq, DownReq, DeleteReq, client, history, socket
<1>13. CASE Close
  <2>1. upSeq \in Nat
    BY DEF Types, ClientTypes
  <2>2. wire' \subseteq wire \cup UpReq
    BY <1>13, <2>1, CloseEffect, SendCounts
  <2> QED BY <1>13, <2>2 DEF Close, Types, NetworkTypes, socket
<1>14. CASE DeleteSession
  <2>1. wire' = wire \cup {[kind |-> "delete"]} /\ [kind |-> "delete"] \in DeleteReq
    BY <1>14 DEF DeleteSession, Await, DeleteReq
  <2>2. sock' \in SocketType
    <3>1. sock \in SocketType /\ <<>> \in Seq(Piece \cup Control)
      BY DEF Types, NetworkTypes
    <3> QED BY <1>14, <3>1 DEF DeleteSession, SocketType
  <2>3. relay' \in RelayType
    BY <1>14 DEF DeleteSession, Types, NetworkTypes
  <2> QED BY <2>1, <2>2, <2>3 DEF Types, NetworkTypes
<1>15. CASE SendDone
  BY <1>15 DEF SendDone, Types, NetworkTypes, Exchange, Exchanging, Await, Settled, Reply, Status, SendFails, SocketType, RelayType, UpReq, DownReq, DeleteReq, client, history, socket
<1>16. CASE SendRefused
  BY <1>16 DEF SendRefused, Types, NetworkTypes, Exchange, Exchanging, Await, Settled, Reply, Status, SendFails, SocketType, RelayType, UpReq, DownReq, DeleteReq, client, history, socket
<1>17. CASE SendBusy
  <2>1. ex.req \in UpReq
    BY <1>17 DEF SendBusy, Exchange, Exchanging, DownReq, MessageReq, DeleteReq
  <2>2. wire' \subseteq wire \cup {ex.req}
    BY <1>17 DEF SendBusy, Await
  <2> QED BY <1>17, <2>1, <2>2 DEF SendBusy, Types, NetworkTypes, socket
<1>18. CASE ReceiveDone
  BY <1>18 DEF ReceiveDone, Types, NetworkTypes, Exchange, Exchanging, Await, Settled, Reply, Status, SendFails, SocketType, RelayType, UpReq, DownReq, DeleteReq, client, history, socket
<1>19. CASE ReceiveBusy
  BY <1>19 DEF ReceiveBusy, Types, NetworkTypes, Exchange, Exchanging, Await, Settled, Reply, Status, SendFails, SocketType, RelayType, UpReq, DownReq, DeleteReq, client, history, socket
<1>20. CASE ReceiveRefused
  BY <1>20 DEF ReceiveRefused, Types, NetworkTypes, Exchange, Exchanging, Await, Settled, Reply, Status, SendFails, SocketType, RelayType, UpReq, DownReq, DeleteReq, client, history, socket
<1>21. CASE DeleteDone
  BY <1>21 DEF DeleteDone, Types, NetworkTypes, Exchange, Exchanging, Await, Settled, Reply, Status, SendFails, SocketType, RelayType, UpReq, DownReq, DeleteReq, client, history, socket
<1>22. ASSUME NEW arrives \in BOOLEAN, GiveUp(arrives) PROVE NetworkTypes'
  BY <1>22 DEF GiveUp, Types, NetworkTypes, Exchange, Exchanging, Await, Settled, Reply, Status, SendFails, SocketType, RelayType, UpReq, DownReq, DeleteReq, client, history, socket
<1>23. CASE DeadlinePasses
  BY <1>23 DEF DeadlinePasses, Types, NetworkTypes, Exchange, Exchanging, Await, Settled, Reply, Status, SendFails, SocketType, RelayType, UpReq, DownReq, DeleteReq, client, history, socket
<1>24. CASE SocketWrites
  <2>1. ex.req.frames \in Batch
    BY <1>24 DEF SocketWrites, Exchange, Exchanging, UpReq, DownReq, MessageReq, DeleteReq
  <2>2. sock \in SocketType
    BY DEF Types, NetworkTypes
  <2>3. sock' \in SocketType
    <3>1. Append(sock.up, ex.req.frames) \in Seq(Batch)
      BY <2>1, <2>2 DEF SocketType
    <3> QED BY <1>24, <2>2, <3>1 DEF SocketWrites, SocketType
  <2> QED BY <1>24, <2>3 DEF SocketWrites, Types, NetworkTypes
<1>25. CASE SocketWriteFails
  BY <1>25 DEF SocketWriteFails, Types, NetworkTypes, Exchange, Exchanging, Await, Settled, Reply, Status, SendFails, SocketType, RelayType, UpReq, DownReq, DeleteReq, client, history, socket
<1>26. CASE SocketReads
  <2>1. sock' \in SocketType
    BY <1>26, SocketReadsEffect
  <2> QED BY <1>26, <2>1 DEF SocketReads, Types, NetworkTypes
<1>27. ASSUME NEW b \in BOOLEAN, SocketReadsGarbage(b) PROVE NetworkTypes'
  <2>1. sock \in SocketType /\ sock.down # <<>>
    BY <1>27 DEF SocketReadsGarbage, Types, NetworkTypes
  <2>2. Tail(sock.down) \in Seq(Piece \cup Control)
    BY <2>1 DEF SocketType
  <2>3. sock' \in SocketType
    BY <1>27, <2>1, <2>2 DEF SocketReadsGarbage, SocketType
  <2> QED BY <1>27, <2>3 DEF SocketReadsGarbage, Types, NetworkTypes
<1>28. ASSUME NEW b \in BOOLEAN, SocketTimeOut(b) PROVE NetworkTypes'
  BY <1>28 DEF SocketTimeOut, Types, NetworkTypes, Exchange, Exchanging, Await, Settled, Reply, Status, SendFails, SocketType, RelayType, UpReq, DownReq, DeleteReq, client, history, socket
<1>29. ASSUME NEW req \in wire, RelayCommits(req) PROVE NetworkTypes'
  <2>1. req \in UpReq
    BY <1>29 DEF RelayCommits, Types, NetworkTypes, DownReq, DeleteReq
  <2>2. After(req.frames) \in RelayType /\ req.seq \in Nat
    BY <2>1, AfterTyped DEF UpReq
  <2>3. relay' \in RelayType
    BY <1>29, <2>2 DEF RelayCommits, RelayType
  <2> QED BY <1>29, <2>3 DEF RelayCommits, Reply, Types, NetworkTypes, socket
<1>30. ASSUME NEW req \in wire, RelayRepeats(req) PROVE NetworkTypes'
  BY <1>30 DEF RelayRepeats, Types, NetworkTypes, Exchange, Exchanging, Await, Settled, Reply, Status, SendFails, SocketType, RelayType, UpReq, DownReq, DeleteReq, client, history, socket
<1>31. ASSUME NEW req \in wire, RelaySeesGap(req) PROVE NetworkTypes'
  BY <1>31 DEF RelaySeesGap, Types, NetworkTypes, Exchange, Exchanging, Await, Settled, Reply, Status, SendFails, SocketType, RelayType, UpReq, DownReq, DeleteReq, client, history, socket
<1>32. ASSUME NEW req \in wire, RelayBusy(req) PROVE NetworkTypes'
  BY <1>32 DEF RelayBusy, Types, NetworkTypes, Exchange, Exchanging, Await, Settled, Reply, Status, SendFails, SocketType, RelayType, UpReq, DownReq, DeleteReq, client, history, socket
<1>33. ASSUME NEW req \in wire, RelayGone(req) PROVE NetworkTypes'
  BY <1>33 DEF RelayGone, Types, NetworkTypes, Exchange, Exchanging, Await, Settled, Reply, Status, SendFails, SocketType, RelayType, UpReq, DownReq, DeleteReq, client, history, socket
<1>34. ASSUME NEW req \in wire, RelayDelivers(req) PROVE NetworkTypes'
  BY <1>34 DEF RelayDelivers, Types, NetworkTypes, Exchange, Exchanging, Await, Settled, Reply, Status, SendFails, SocketType, RelayType, UpReq, DownReq, DeleteReq, client, history, socket
<1>35. ASSUME NEW req \in wire, RelayDeletes(req) PROVE NetworkTypes'
  BY <1>35 DEF RelayDeletes, Types, NetworkTypes, Exchange, Exchanging, Await, Settled, Reply, Status, SendFails, SocketType, RelayType, UpReq, DownReq, DeleteReq, client, history, socket
<1>36. CASE RelayForgets
  BY <1>36 DEF RelayForgets, Types, NetworkTypes, Exchange, Exchanging, Await, Settled, Reply, Status, SendFails, SocketType, RelayType, UpReq, DownReq, DeleteReq, client, history, socket
<1>37. CASE RelayTakes
  <2>1. sock \in SocketType /\ sock.up # <<>>
    BY <1>37 DEF RelayTakes, Types, NetworkTypes
  <2>2. Head(sock.up) \in Batch /\ Tail(sock.up) \in Seq(Batch)
    BY <2>1 DEF SocketType
  <2>3. sock' \in SocketType
    BY <1>37, <2>1, <2>2 DEF RelayTakes, SocketType
  <2>4. relay' \in RelayType
    BY <1>37, <2>2, AfterTyped DEF RelayTakes
  <2> QED BY <1>37, <2>3, <2>4 DEF RelayTakes, Types, NetworkTypes
<1>38. ASSUME NEW cut \in 0..Len(relay.out), NEW to \in 0..Len(relay.out), NEW within \in BOOLEAN, RelayPushes(cut, to, within) PROVE NetworkTypes'
  <2>1. sock \in SocketType /\ relay \in RelayType
    BY DEF Types, NetworkTypes
  <2>2. \A from, upto \in Nat, final, begins \in BOOLEAN :
          upto <= Len(relay.out) => Fragment(from, upto, final, begins) \in Piece
    BY <2>1, FragmentTyped
  <2>3. relay.pushed \in Nat /\ cut \in Nat /\ to \in Nat /\ to <= Len(relay.out) /\ cut <= to
    BY <1>38, <2>1 DEF RelayType, Batch, RelayPushes
  <2> DEFINE new == IF cut = to THEN <<Fragment(relay.pushed, to, TRUE, TRUE)>>
                    ELSE <<Fragment(relay.pushed, cut, FALSE, TRUE), Fragment(cut, to, TRUE, ~within)>>
  <2>4. new \in Seq(Piece \cup Control)
    <3>1. /\ Fragment(relay.pushed, to, TRUE, TRUE) \in Piece \cup Control
          /\ Fragment(relay.pushed, cut, FALSE, TRUE) \in Piece \cup Control
          /\ Fragment(cut, to, TRUE, ~within) \in Piece \cup Control
      <4>1. (~within) \in BOOLEAN /\ cut <= Len(relay.out) /\ relay.out \in Seq(FrameType)
        BY <2>1, <2>3 DEF RelayType, Batch
      <4> QED BY <2>2, <2>3, <4>1
    <3>2. \A a, b \in Piece \cup Control : <<a>> \in Seq(Piece \cup Control) /\ <<a, b>> \in Seq(Piece \cup Control)
      OBVIOUS
    <3> QED BY <3>1, <3>2, Zenon
  <2>5. sock' = [sock EXCEPT !.down = sock.down \o new] /\ relay' = [relay EXCEPT !.pushed = to]
    BY <1>38, Zenon DEF RelayPushes
  <2> HIDE DEF new
  <2>6. sock.down \o new \in Seq(Piece \cup Control)
    BY <2>1, <2>4 DEF SocketType
  <2>7. sock' \in SocketType
    BY <2>1, <2>5, <2>6 DEF SocketType
  <2>8. relay' \in RelayType
    BY <2>1, <2>3, <2>5 DEF RelayType
  <2> QED BY <1>38, <2>7, <2>8 DEF RelayPushes, Types, NetworkTypes
<1>39. ASSUME NEW op \in {"ping", "text", "close"}, NEW i \in 1..(Len(sock.down) + 1), RelayInserts(op, i) PROVE NetworkTypes'
  <2>1. sock \in SocketType /\ sock.down \in Seq(Piece \cup Control)
    BY DEF Types, NetworkTypes, SocketType
  <2>2. [op |-> op] \in Piece \cup Control
    BY DEF Control
  <2>3. InsertAt(sock.down, i, [op |-> op]) \in Seq(Piece \cup Control)
    BY <2>1, <2>2, InsertTyped
  <2>4. sock' = [sock EXCEPT !.down = InsertAt(sock.down, i, [op |-> op])]
    BY <1>39 DEF RelayInserts
  <2>5. sock' \in SocketType
    BY <2>1, <2>3, <2>4 DEF SocketType
  <2> QED BY <1>39, <2>5 DEF RelayInserts, Types, NetworkTypes
<1>40. ASSUME NEW k \in {"DATA", "PING", "CLOSE", "BYE"}, RelayProduces(k) PROVE NetworkTypes'
  <2>1. relay \in RelayType /\ relay.out \in Seq(FrameType) /\ relay.credit \in Int
    BY DEF Types, NetworkTypes, RelayType, Batch
  <2> DEFINE v == IF k = "DATA" THEN Len(UnitsOf(relay.out)) + 1 ELSE 0
             c == IF k = "DATA" THEN relay.credit - 1 ELSE relay.credit
  <2>2. v \in Nat
    <3>1. UnitsOf(relay.out) \in Seq(Nat)
      BY <2>1, UnitsTyped
    <3> QED BY <3>1
  <2>3. c \in Int
    BY <2>1
  <2>4. relay' = [relay EXCEPT !.out = Append(relay.out, Frame(k, v)), !.credit = c]
    BY <1>40 DEF RelayProduces
  <2> HIDE DEF v, c
  <2>5. Frame(k, v) \in FrameType
    BY <2>2 DEF Frame, FrameType
  <2>6. Append(relay.out, Frame(k, v)) \in Batch
    BY <2>1, <2>5 DEF Batch
  <2>7. relay' \in RelayType
    BY <2>1, <2>3, <2>4, <2>6 DEF RelayType
  <2> QED BY <1>40, <2>7 DEF RelayProduces, Types, NetworkTypes, socket
<1> QED BY <1>1, <1>2, <1>3, <1>4, <1>5, <1>6, <1>7, <1>8, <1>9, <1>10, <1>11, <1>12, <1>13, <1>14, <1>15, <1>16, <1>17, <1>18, <1>19, <1>20, <1>21, <1>22, <1>23, <1>24, <1>25, <1>26, <1>27, <1>28, <1>29, <1>30, <1>31, <1>32, <1>33, <1>34, <1>35, <1>36, <1>37, <1>38, <1>39, <1>40 DEF Next, Dial, Call, Step, RelayHandles

LEMMA ExchangeStep ==
  ASSUME Types, Exchange, Next
  PROVE  Exchange'
<1>1. ASSUME NEW ok \in BOOLEAN, FetchBridge(ok) PROVE Exchange'
  BY <1>1, ExchangeKept, ExchangeOver, ExchangeNone DEF FetchBridge, Settled, Reply, Resume, SendFails, client, history, socket, ReceiveFails
<1>2. ASSUME NEW o \in {"refused", "lost", "malformed", "welcome"}, CreateSession(o) PROVE Exchange'
  BY <1>2, ExchangeKept, ExchangeOver, ExchangeNone DEF CreateSession, Settled, Reply, Resume, SendFails, client, history, socket, ReceiveFails
<1>3. ASSUME NEW m \in {"none", "https", "ws"}, ChooseTransport(m) PROVE Exchange'
  BY <1>3, ExchangeKept, ExchangeOver, ExchangeNone DEF ChooseTransport, Settled, Reply, Resume, SendFails, client, history, socket, ReceiveFails
<1>4. ASSUME NEW ok \in BOOLEAN, Upgrade(ok) PROVE Exchange'
  BY <1>4, ExchangeKept, ExchangeOver, ExchangeNone DEF Upgrade, Settled, Reply, Resume, SendFails, client, history, socket, ReceiveFails
<1>5. CASE Write
  <2>1. mode' = mode /\ upSeq \in Nat
    BY <1>5 DEF Write, socket, Types, ClientTypes
  <2> QED BY <1>5, <2>1, ChunkTyped, WriteSends, ExchangeSent
<1>6. CASE Read
  BY <1>6, ExchangeKept, ExchangeOver, ExchangeNone DEF Read, Settled, Reply, Resume, SendFails, client, history, socket, ReceiveFails
<1>7. ASSUME NEW n \in 1..Len(readBuf), ReadBuffered(n) PROVE Exchange'
  <2>1. mode' = mode /\ upSeq \in Nat /\ pc # "wait"
    BY <1>7 DEF ReadBuffered, socket, Types, ClientTypes
  <2>2. CASE Send("grant", <<Frame("WINDOW", debt + n)>>)
    BY <1>7, <2>1, <2>2, ReadEffect, ExchangeSent
  <2>3. CASE pc' = "idle" /\ UNCHANGED <<ex, answer, wire, upSeq>>
    BY <2>1, <2>3, ExchangeNone
  <2> QED BY <1>7, <2>2, <2>3, ReadEffect
<1>8. CASE ReadEnds
  BY <1>8, ExchangeKept, ExchangeOver, ExchangeNone DEF ReadEnds, Settled, Reply, Resume, SendFails, client, history, socket, ReceiveFails
<1>9. CASE Pump
  <2>1. CASE mode = "ws"
    BY <1>9, <2>1, ExchangeNone DEF Pump
  <2>2. CASE mode # "ws"
    <3>1. DownRequest \in DownReq
      BY DEF DownRequest, DownReq, Types, ClientTypes
    <3> QED BY <1>9, <2>2, <3>1 DEF Pump, Await, Exchange, Exchanging, NoAnswer
  <2> QED BY <2>1, <2>2
<1>10. CASE FilePing
  <2>1. mode' = mode /\ upSeq \in Nat
    BY <1>10 DEF FilePing, socket, Types, ClientTypes
  <2> QED BY <1>10, <2>1, PingEffect, ExchangeSent
<1>11. CASE FileFrame
  BY <1>11, ExchangeKept, ExchangeOver, ExchangeNone DEF FileFrame, Settled, Reply, Resume, SendFails, client, history, socket, ReceiveFails
<1>12. CASE PumpDone
  BY <1>12, ExchangeKept, ExchangeOver, ExchangeNone DEF PumpDone, Settled, Reply, Resume, SendFails, client, history, socket, ReceiveFails
<1>13. CASE Close
  <2>1. mode' = mode /\ upSeq \in Nat /\ pc # "wait"
    BY <1>13 DEF Close, socket, Types, ClientTypes
  <2>2. CASE Send("close", <<Frame("CLOSE", 0)>>)
    BY <1>13, <2>1, <2>2, CloseEffect, ExchangeSent
  <2>3. CASE pc' = "closing" /\ UNCHANGED <<ex, answer, wire, upSeq>>
    BY <2>1, <2>3, ExchangeNone
  <2> QED BY <1>13, <2>2, <2>3, CloseEffect
<1>14. CASE DeleteSession
  BY <1>14 DEF DeleteSession, Await, Exchange, Exchanging, DeleteReq
<1>15. CASE SendDone
  BY <1>15, ExchangeKept, ExchangeOver, ExchangeNone DEF SendDone, Settled, Reply, Resume, SendFails, client, history, socket, ReceiveFails
<1>16. CASE SendRefused
  BY <1>16, ExchangeKept, ExchangeOver, ExchangeNone DEF SendRefused, Settled, Reply, Resume, SendFails, client, history, socket, ReceiveFails
<1>17. CASE SendBusy
  <2>1. CASE ex.tries < Tries /\ ~expired
    <3>1. ex'.req = ex.req /\ pc' = "wait" /\ mode' = mode
      BY <1>17, <2>1 DEF SendBusy, Await, socket
    <3>2. ex.req \in UpReq /\ mode # "ws"
      BY <1>17 DEF SendBusy, Exchange, Exchanging, DownReq, MessageReq, DeleteReq
    <3> QED BY <3>1, <3>2 DEF Exchange, Exchanging
  <2>2. CASE ~(ex.tries < Tries /\ ~expired)
    BY <1>17, <2>2, ExchangeOver DEF SendBusy, SendFails, Resume
  <2> QED BY <2>1, <2>2
<1>18. CASE ReceiveDone
  BY <1>18, ExchangeKept, ExchangeOver, ExchangeNone DEF ReceiveDone, Settled, Reply, Resume, SendFails, client, history, socket, ReceiveFails
<1>19. CASE ReceiveBusy
  BY <1>19, ExchangeKept, ExchangeOver, ExchangeNone DEF ReceiveBusy, Settled, Reply, Resume, SendFails, client, history, socket, ReceiveFails
<1>20. CASE ReceiveRefused
  BY <1>20, ExchangeKept, ExchangeOver, ExchangeNone DEF ReceiveRefused, Settled, Reply, Resume, SendFails, client, history, socket, ReceiveFails
<1>21. CASE DeleteDone
  BY <1>21, ExchangeKept, ExchangeOver, ExchangeNone DEF DeleteDone, Settled, Reply, Resume, SendFails, client, history, socket, ReceiveFails
<1>22. ASSUME NEW arrives \in BOOLEAN, GiveUp(arrives) PROVE Exchange'
  BY <1>22, ExchangeKept, ExchangeOver, ExchangeNone DEF GiveUp, Settled, Reply, Resume, SendFails, client, history, socket, ReceiveFails
<1>23. CASE DeadlinePasses
  BY <1>23, ExchangeKept, ExchangeOver, ExchangeNone DEF DeadlinePasses, Settled, Reply, Resume, SendFails, client, history, socket, ReceiveFails
<1>24. CASE SocketWrites
  BY <1>24, ExchangeKept, ExchangeOver, ExchangeNone DEF SocketWrites, Settled, Reply, Resume, SendFails, client, history, socket, ReceiveFails
<1>25. CASE SocketWriteFails
  BY <1>25, ExchangeKept, ExchangeOver, ExchangeNone DEF SocketWriteFails, Settled, Reply, Resume, SendFails, client, history, socket, ReceiveFails
<1>26. CASE SocketReads
  <2>1. pc = "receiving" /\ ex' = ex /\ answer' = answer
    BY <1>26 DEF SocketReads
  <2>2. pc' \in {"receiving", "idle", "frames"}
    BY <1>26, <2>1, SocketReadsEffect DEF ReceiveFails, MessageDone
  <2> QED BY <2>1, <2>2, ExchangeNone
<1>27. ASSUME NEW b \in BOOLEAN, SocketReadsGarbage(b) PROVE Exchange'
  BY <1>27, ExchangeKept, ExchangeOver, ExchangeNone DEF SocketReadsGarbage, Settled, Reply, Resume, SendFails, client, history, socket, ReceiveFails
<1>28. ASSUME NEW b \in BOOLEAN, SocketTimeOut(b) PROVE Exchange'
  BY <1>28, ExchangeKept, ExchangeOver, ExchangeNone DEF SocketTimeOut, Settled, Reply, Resume, SendFails, client, history, socket, ReceiveFails
<1>29. ASSUME NEW req \in wire, RelayCommits(req) PROVE Exchange'
  <2>1. req \in UpReq /\ Reply(req, Status("ok"))
    BY <1>29 DEF RelayCommits, Types, NetworkTypes, UpReq, DownReq, DeleteReq
  <2> QED BY <2>1, ExchangeReplied DEF Status, UpReq, DownReq, DeleteReq, MessageReq
<1>30. ASSUME NEW req \in wire, RelayRepeats(req) PROVE Exchange'
  <2>1. req \in UpReq /\ Reply(req, Status("ok"))
    BY <1>30 DEF RelayRepeats, Types, NetworkTypes, UpReq, DownReq, DeleteReq
  <2> QED BY <2>1, ExchangeReplied DEF Status, UpReq, DownReq, DeleteReq, MessageReq
<1>31. ASSUME NEW req \in wire, RelaySeesGap(req) PROVE Exchange'
  <2>1. req \in UpReq /\ Reply(req, Status("gap"))
    BY <1>31 DEF RelaySeesGap, Types, NetworkTypes, UpReq, DownReq, DeleteReq
  <2> QED BY <2>1, ExchangeReplied DEF Status, UpReq, DownReq, DeleteReq, MessageReq
<1>32. ASSUME NEW req \in wire, RelayBusy(req) PROVE Exchange'
  <2>1. req \in UpReq \cup DownReq /\ Reply(req, Status("busy"))
    BY <1>32 DEF RelayBusy, Types, NetworkTypes, UpReq, DownReq, DeleteReq
  <2> QED BY <2>1, ExchangeReplied DEF Status, UpReq, DownReq, DeleteReq, MessageReq
<1>33. ASSUME NEW req \in wire, RelayGone(req) PROVE Exchange'
  <2>1. req \in UpReq \cup DownReq /\ Reply(req, Status("gone"))
    BY <1>33 DEF RelayGone, Types, NetworkTypes, UpReq, DownReq, DeleteReq
  <2> QED BY <2>1, ExchangeReplied DEF Status, UpReq, DownReq, DeleteReq, MessageReq
<1>34. ASSUME NEW req \in wire, RelayDelivers(req) PROVE Exchange'
  <2>1. req \in DownReq
    BY <1>34 DEF RelayDelivers, Types, NetworkTypes, UpReq, DeleteReq
  <2>2. PICK k \in {Len(relay.out)} \cup ({req.cursor + 1} \cap (1..Len(relay.out))) :
          Reply(req, [status |-> "ok", cursor |-> k, frames |-> SubSeq(relay.out, req.cursor + 1, k),
                      lane |-> k = Len(relay.out) /\ Has(relay.out, "CLOSE")])
    BY <1>34 DEF RelayDelivers
  <2> DEFINE fs == SubSeq(relay.out, req.cursor + 1, k)
             ln == k = Len(relay.out) /\ Has(relay.out, "CLOSE")
  <2>3. k \in Nat /\ k <= Len(relay.out) /\ req.cursor \in Nat /\ relay.out \in Seq(FrameType)
    BY <2>1 DEF Types, NetworkTypes, RelayType, Batch, DownReq
  <2>4. fs \in Batch
    BY <2>3 DEF Batch
  <2>5. ln \in BOOLEAN
    OBVIOUS
  <2> HIDE DEF fs, ln
  <2>6. [status |-> "ok", cursor |-> k, frames |-> fs, lane |-> ln] \in DownAnswer
    BY <2>3, <2>4, <2>5 DEF DownAnswer
  <2>7. Reply(req, [status |-> "ok", cursor |-> k, frames |-> fs, lane |-> ln])
    BY <2>2 DEF fs, ln
  <2>8. req \notin MessageReq
    BY <2>1 DEF DownReq, MessageReq
  <2> QED BY <2>6, <2>7, <2>8, ExchangeReplied
<1>35. ASSUME NEW req \in wire, RelayDeletes(req) PROVE Exchange'
  <2>1. req \in DeleteReq /\ Reply(req, Status("ok"))
    BY <1>35 DEF RelayDeletes, Types, NetworkTypes, UpReq, DownReq, DeleteReq
  <2> QED BY <2>1, ExchangeReplied DEF Status, UpReq, DownReq, DeleteReq, MessageReq
<1>36. CASE RelayForgets
  BY <1>36, ExchangeKept, ExchangeOver, ExchangeNone DEF RelayForgets, Settled, Reply, Resume, SendFails, client, history, socket, ReceiveFails
<1>37. CASE RelayTakes
  BY <1>37, ExchangeKept, ExchangeOver, ExchangeNone DEF RelayTakes, Settled, Reply, Resume, SendFails, client, history, socket, ReceiveFails
<1>38. ASSUME NEW cut \in 0..Len(relay.out), NEW to \in 0..Len(relay.out), NEW within \in BOOLEAN, RelayPushes(cut, to, within) PROVE Exchange'
  BY <1>38, ExchangeKept, ExchangeOver, ExchangeNone DEF RelayPushes, Settled, Reply, Resume, SendFails, client, history, socket, ReceiveFails
<1>39. ASSUME NEW op \in {"ping", "text", "close"}, NEW i \in 1..(Len(sock.down) + 1), RelayInserts(op, i) PROVE Exchange'
  BY <1>39, ExchangeKept, ExchangeOver, ExchangeNone DEF RelayInserts, Settled, Reply, Resume, SendFails, client, history, socket, ReceiveFails
<1>40. ASSUME NEW k \in {"DATA", "PING", "CLOSE", "BYE"}, RelayProduces(k) PROVE Exchange'
  BY <1>40, ExchangeKept, ExchangeOver, ExchangeNone DEF RelayProduces, Settled, Reply, Resume, SendFails, client, history, socket, ReceiveFails
<1> QED BY <1>1, <1>2, <1>3, <1>4, <1>5, <1>6, <1>7, <1>8, <1>9, <1>10, <1>11, <1>12, <1>13, <1>14, <1>15, <1>16, <1>17, <1>18, <1>19, <1>20, <1>21, <1>22, <1>23, <1>24, <1>25, <1>26, <1>27, <1>28, <1>29, <1>30, <1>31, <1>32, <1>33, <1>34, <1>35, <1>36, <1>37, <1>38, <1>39, <1>40 DEF Next, Dial, Call, Step, RelayHandles

-----------------------------------------------------------------------------
Credits(up) == Total([k \in DOMAIN up |-> CreditOf(up[k])])
Units(up) == Total([k \in DOMAIN up |-> Len(UnitsOf(up[k]))])

LEMMA InFlight == CreditInFlight = Credits(sock.up) /\ UnitsInFlight = Units(sock.up)
BY DEF CreditInFlight, UnitsInFlight, Credits, Units

LEMMA BatchCounts ==
  ASSUME NEW b \in Batch
  PROVE  CreditOf(b) \in Nat /\ UnitsOf(b) \in Seq(Nat) /\ Len(UnitsOf(b)) \in Nat
<1>1. b \in Seq(FrameType)
  BY DEF Batch
<1>2. CreditOf(b) \in Nat
  BY <1>1, CreditTyped
<1>3. UnitsOf(b) \in Seq(Nat)
  BY <1>1, UnitsTyped
<1> QED BY <1>2, <1>3

LEMMA FlightNone == Credits(<<>>) = 0 /\ Units(<<>>) = 0
<1>1. [k \in DOMAIN <<>> |-> CreditOf(<<>>[k])] = <<>>
  OBVIOUS
<1>2. [k \in DOMAIN <<>> |-> Len(UnitsOf(<<>>[k]))] = <<>>
  OBVIOUS
<1> QED BY <1>1, <1>2, TotalOfNone, Zenon DEF Credits, Units

LEMMA FlightSeqs ==
  ASSUME NEW up \in Seq(Batch)
  PROVE  /\ [k \in DOMAIN up |-> CreditOf(up[k])] \in Seq(Nat)
         /\ [k \in DOMAIN up |-> Len(UnitsOf(up[k]))] \in Seq(Nat)
<1>1. DOMAIN up = 1..Len(up) /\ Len(up) \in Nat
  OBVIOUS
<1>2. ASSUME NEW k \in 1..Len(up) PROVE CreditOf(up[k]) \in Nat /\ Len(UnitsOf(up[k])) \in Nat
  <2>1. up[k] \in Batch
    OBVIOUS
  <2> QED BY <2>1, BatchCounts
<1>3. [k \in 1..Len(up) |-> CreditOf(up[k])] \in Seq(Nat)
  BY <1>1, <1>2, IsASeq
<1>4. [k \in 1..Len(up) |-> Len(UnitsOf(up[k]))] \in Seq(Nat)
  BY <1>1, <1>2, IsASeq
<1> QED BY <1>1, <1>3, <1>4, Zenon

LEMMA FlightTyped ==
  ASSUME NEW up \in Seq(Batch)
  PROVE  Credits(up) \in Nat /\ Units(up) \in Nat
BY FlightSeqs, TotalTyped, Zenon DEF Credits, Units

LEMMA FlightAppend ==
  ASSUME NEW up \in Seq(Batch), NEW b \in Batch
  PROVE  /\ Credits(Append(up, b)) = Credits(up) + CreditOf(b)
         /\ Units(Append(up, b)) = Units(up) + Len(UnitsOf(b))
<1> DEFINE c == [k \in DOMAIN up |-> CreditOf(up[k])]
           u == [k \in DOMAIN up |-> Len(UnitsOf(up[k]))]
           more == Append(up, b)
           cc == [k \in DOMAIN more |-> CreditOf(more[k])]
           uu == [k \in DOMAIN more |-> Len(UnitsOf(more[k]))]
<1>1. c \in Seq(Nat) /\ u \in Seq(Nat) /\ CreditOf(b) \in Nat /\ Len(UnitsOf(b)) \in Nat
  BY FlightSeqs, BatchCounts, Zenon
<1>2. more \in Seq(Batch) /\ Len(more) = Len(up) + 1 /\ Len(up) \in Nat /\ DOMAIN up = 1..Len(up)
  OBVIOUS
<1>3. more[Len(up) + 1] = b /\ \A k \in 1..Len(up) : more[k] = up[k]
  OBVIOUS
<1>4. cc \in Seq(Nat) /\ uu \in Seq(Nat)
  <2> HIDE DEF more
  <2> QED BY <1>2, FlightSeqs, Zenon
<1>5. Len(cc) = Len(up) + 1 /\ Len(uu) = Len(up) + 1 /\ Len(c) = Len(up) /\ Len(u) = Len(up)
  BY <1>2
<1>6. \A k \in 1..(Len(up) + 1) : cc[k] = CreditOf(more[k]) /\ uu[k] = Len(UnitsOf(more[k]))
  BY <1>2
<1>7. \A k \in 1..Len(up) : c[k] = CreditOf(up[k]) /\ u[k] = Len(UnitsOf(up[k]))
  BY <1>2
<1> HIDE DEF c, u, cc, uu, more
<1>8. cc = Append(c, CreditOf(b))
  BY <1>1, <1>2, <1>3, <1>4, <1>5, <1>6, <1>7
<1>9. uu = Append(u, Len(UnitsOf(b)))
  BY <1>1, <1>2, <1>3, <1>4, <1>5, <1>6, <1>7, SMTT(30)
<1>10. Total(cc) = Total(c) + CreditOf(b)
  BY <1>1, <1>8, TotalOfAppend
<1>11. Total(uu) = Total(u) + Len(UnitsOf(b))
  BY <1>1, <1>9, TotalOfAppend
<1> QED BY <1>10, <1>11, Zenon DEF c, u, cc, uu, more, Credits, Units

LEMMA FlightTail ==
  ASSUME NEW up \in Seq(Batch), up # <<>>
  PROVE  /\ Credits(up) = CreditOf(Head(up)) + Credits(Tail(up))
         /\ Units(up) = Len(UnitsOf(Head(up))) + Units(Tail(up))
<1> DEFINE c == [k \in DOMAIN up |-> CreditOf(up[k])]
           u == [k \in DOMAIN up |-> Len(UnitsOf(up[k]))]
           rest == Tail(up)
           cc == [k \in DOMAIN rest |-> CreditOf(rest[k])]
           uu == [k \in DOMAIN rest |-> Len(UnitsOf(rest[k]))]
<1>1. c \in Seq(Nat) /\ u \in Seq(Nat)
  BY FlightSeqs, Zenon
<1>2. rest \in Seq(Batch) /\ Len(rest) = Len(up) - 1 /\ Len(up) \in Nat /\ Len(up) >= 1 /\ DOMAIN up = 1..Len(up)
  OBVIOUS
<1>3. Head(up) = up[1] /\ \A k \in 1..(Len(up) - 1) : rest[k] = up[k + 1]
  OBVIOUS
<1>4. cc \in Seq(Nat) /\ uu \in Seq(Nat)
  <2> HIDE DEF rest
  <2> QED BY <1>2, FlightSeqs, Zenon
<1>5. Len(cc) = Len(up) - 1 /\ Len(uu) = Len(up) - 1 /\ Len(c) = Len(up) /\ Len(u) = Len(up)
  BY <1>2
<1>6. \A k \in 1..(Len(up) - 1) : cc[k] = CreditOf(rest[k]) /\ uu[k] = Len(UnitsOf(rest[k]))
  BY <1>2
<1>7. \A k \in 1..Len(up) : c[k] = CreditOf(up[k]) /\ u[k] = Len(UnitsOf(up[k]))
  BY <1>2
<1> HIDE DEF c, u, cc, uu, rest
<1>8. \A k \in 1..(Len(up) - 1) : k + 1 \in 1..Len(up)
  BY <1>2
<1>9. cc = Tail(c)
  <2>1. Tail(c) \in Seq(Nat) /\ Len(Tail(c)) = Len(up) - 1 /\ \A k \in 1..(Len(up) - 1) : Tail(c)[k] = c[k + 1]
    BY <1>1, <1>2, <1>5
  <2>2. \A k \in 1..(Len(up) - 1) : cc[k] = Tail(c)[k]
    BY <1>3, <1>6, <1>7, <1>8, <2>1
  <2> QED BY <1>4, <1>5, <2>1, <2>2, SeqEqual
<1>10. uu = Tail(u)
  <2>1. Tail(u) \in Seq(Nat) /\ Len(Tail(u)) = Len(up) - 1 /\ \A k \in 1..(Len(up) - 1) : Tail(u)[k] = u[k + 1]
    BY <1>1, <1>2, <1>5
  <2>2. \A k \in 1..(Len(up) - 1) : uu[k] = Tail(u)[k]
    BY <1>3, <1>6, <1>7, <1>8, <2>1
  <2> QED BY <1>4, <1>5, <2>1, <2>2, SeqEqual
<1>11. c # <<>> /\ u # <<>> /\ c[1] = CreditOf(up[1]) /\ u[1] = Len(UnitsOf(up[1]))
  BY <1>1, <1>2, <1>5, <1>7
<1>12. Total(c) = CreditOf(up[1]) + Total(cc) /\ Total(u) = Len(UnitsOf(up[1])) + Total(uu)
  BY <1>1, <1>9, <1>10, <1>11, TotalOfTail
<1> QED BY <1>3, <1>12, Zenon DEF c, u, cc, uu, rest, Credits, Units

(* The window update and the data of a chunk. *)
LEMMA ChunkCounts ==
  ASSUME Types
  PROVE  CreditOf(Chunk) = debt /\ UnitsOf(Chunk) = <<written + 1>>
<1> DEFINE o == IF opened THEN <<>> ELSE <<Frame("OPEN", 0)>>
           d == Frame("DATA", written + 1)
           w == Frame("WINDOW", debt)
           head == Frame("OPEN", 0)
           T == FrameType
<1>1. debt \in Nat /\ written + 1 \in Nat
  BY DEF Types, ClientTypes
<1>2. /\ d \in T /\ w \in T /\ head \in T
      /\ d.kind = "DATA" /\ d.val = written + 1 /\ w.kind = "WINDOW" /\ w.val = debt /\ head.kind = "OPEN"
  BY <1>1, PlainFrames DEF Frame
<1>3. o = <<>> \/ o = <<head>>
  OBVIOUS
<1>4. Grant = IF debt > 0 THEN <<w>> ELSE <<>>
  BY DEF Grant
<1>5. Chunk = o \o Grant \o <<d>>
  BY Zenon DEF Chunk
<1> HIDE DEF o, d, w, head
<1>6. o \in Seq(T) /\ Len(o) \in {0, 1} /\ \A k \in 1..Len(o) : o[k].kind # "WINDOW" /\ o[k].kind # "DATA"
  <2>1. <<>> \in Seq(T) /\ <<head>> \in Seq(T) /\ <<head>>[1] = head /\ Len(<<head>>) = 1 /\ Len(<<>>) = 0
    BY <1>2
  <2>2. CASE o = <<>>
    BY <2>1, <2>2
  <2>3. CASE o = <<head>>
    BY <1>2, <2>1, <2>3
  <2> QED BY <1>3, <2>2, <2>3
<1>7. Grant \in Seq(T) /\ <<d>> \in Seq(T) /\ Len(<<d>>) = 1 /\ <<d>>[1] = d
  BY <1>1, <1>2, <1>4
<1> DEFINE og == o \o Grant
<1>8. /\ og \in Seq(T) /\ Len(og) = Len(o) + Len(Grant)
      /\ \A k \in 1..Len(o) : og[k] = o[k]
      /\ \A k \in (Len(o) + 1)..Len(og) : og[k] = Grant[k - Len(o)]
  BY <1>6, <1>7
<1>9. Chunk = og \o <<d>>
  BY <1>5
<1> HIDE DEF T, og
<1>10. /\ Chunk \in Seq(T) /\ Len(Chunk) = Len(og) + 1
       /\ \A k \in 1..Len(og) : Chunk[k] = og[k]
       /\ Chunk[Len(og) + 1] = d
  <2> DEFINE t == <<d>>
  <2>1. t \in Seq(T) /\ Len(t) = 1 /\ t[1] = d /\ Chunk = og \o t
    BY <1>7, <1>9
  <2> HIDE DEF t
  <2>2. Len(og) \in Nat
    BY <1>8
  <2>3. og \in Seq(T)
    BY <1>8
  <2>4. /\ og \o t \in Seq(T) /\ Len(og \o t) = Len(og) + Len(t)
        /\ \A k \in 1..(Len(og) + Len(t)) : (og \o t)[k] = IF k <= Len(og) THEN og[k] ELSE t[k - Len(og)]
    BY <2>1, <2>3, ConcatProperties, Zenon
  <2> QED BY <2>1, <2>2, <2>4
<1>11. CreditOf(Chunk) = debt
  <2>1. CASE debt > 0
    <3>1. Len(Grant) = 1 /\ Grant[1] = w /\ Len(o) \in Nat
      BY <1>4, <1>6, <2>1
    <3>2. Len(og) = Len(o) + 1 /\ og[Len(o) + 1] = w
      BY <1>8, <3>1
    <3>3. \A k \in 1..Len(o) : Chunk[k].kind # "WINDOW"
      BY <1>6, <1>8, <1>10, <3>1, <3>2
    <3>4. Len(o) + 1 \in 1..Len(Chunk) /\ Chunk[Len(o) + 1] = w
      BY <1>10, <3>1, <3>2
    <3>5. Chunk[Len(o) + 2].kind = "DATA"
      BY <1>2, <1>10, <3>1, <3>2
    <3>6. \A j \in 1..Len(Chunk) : j \in 1..Len(o) \/ j = Len(o) + 1 \/ j = Len(o) + 2
      BY <1>10, <3>1, <3>2
    <3>7. \A j \in 1..Len(Chunk) : Chunk[j].kind = "WINDOW" => j = Len(o) + 1
      BY <3>3, <3>5, <3>6
    <3>8. CreditOf(Chunk) = Chunk[Len(o) + 1].val
      BY <1>2, <3>4, <3>7, CreditIs
    <3> QED BY <1>2, <3>4, <3>8
  <2>2. CASE ~(debt > 0)
    <3>1. Grant = <<>> /\ Len(Grant) = 0 /\ debt = 0 /\ Len(o) \in Nat
      BY <1>1, <1>4, <1>6, <2>2
    <3>2. Len(og) = Len(o)
      BY <1>8, <3>1
    <3>3. \A j \in 1..Len(Chunk) : j \in 1..Len(o) \/ j = Len(o) + 1
      BY <1>10, <3>1, <3>2
    <3>4. \A j \in 1..Len(Chunk) : Chunk[j].kind # "WINDOW"
      BY <1>2, <1>6, <1>8, <1>10, <3>2, <3>3
    <3>5. CreditOf(Chunk) = 0
      BY <3>4, CreditNone
    <3> QED BY <3>1, <3>5
  <2> QED BY <2>1, <2>2
<1>12. UnitsOf(o) = <<>>
  BY <1>2, <1>3, UnitsOfNone, UnitsOfOne DEF T
<1>13. UnitsOf(Grant) = <<>>
  BY <1>2, <1>4, UnitsOfNone, UnitsOfOne DEF T
<1>14. UnitsOf(<<d>>) = <<written + 1>> /\ <<written + 1>> \in Seq(Nat)
  <2>1. UnitsOf(<<d>>) = <<d.val>>
    BY <1>2, UnitsOfOne DEF T
  <2>2. \A v \in Nat : <<v>> \in Seq(Nat)
    OBVIOUS
  <2> QED BY <1>1, <1>2, <2>1, <2>2, Zenon
<1>15. UnitsOf(og) = <<>>
  <2>1. UnitsOf(og) = <<>> \o <<>>
    BY <1>6, <1>7, <1>12, <1>13, UnitsOfConcat DEF T, og
  <2> QED BY <2>1
<1>16. UnitsOf(Chunk) = <<>> \o <<written + 1>>
  BY <1>7, <1>8, <1>9, <1>14, <1>15, UnitsOfConcat DEF T
<1>17. \A s \in Seq(Nat) : <<>> \o s = s
  BY ConcatEmptySeq
<1> QED BY <1>11, <1>14, <1>16, <1>17, Zenon

(* The control frames. *)
LEMMA FrameCounts ==
  /\ CreditOf(<<>>) = 0 /\ UnitsOf(<<>>) = <<>>
  /\ \A k \in {"PONG", "CLOSE"} : CreditOf(<<Frame(k, 0)>>) = 0 /\ UnitsOf(<<Frame(k, 0)>>) = <<>>
  /\ \A n \in Nat : CreditOf(<<Frame("WINDOW", n)>>) = n /\ UnitsOf(<<Frame("WINDOW", n)>>) = <<>>
<1>1. CreditOf(<<>>) = 0
  BY CreditNone
<1>2. ASSUME NEW f \in FrameType
      PROVE  Len(<<f>>) = 1 /\ <<f>>[1] = f /\ CreditOf(<<f>>) = IF f.kind = "WINDOW" THEN f.val ELSE 0
  <2> DEFINE b == <<f>>
  <2>1. Len(b) = 1 /\ b[1] = f
    OBVIOUS
  <2> HIDE DEF b
  <2>2. CASE f.kind = "WINDOW"
    <3>1. 1 \in 1..Len(b) /\ b[1].kind = "WINDOW" /\ \A j \in 1..Len(b) : j = 1
      BY <2>1, <2>2
    <3>2. CreditOf(b) = b[1].val
      BY <3>1, CreditIs
    <3> QED BY <2>1, <2>2, <3>2 DEF b
  <2>3. CASE f.kind # "WINDOW"
    <3>1. \A j \in 1..Len(b) : b[j].kind # "WINDOW"
      BY <2>1, <2>3
    <3>2. CreditOf(b) = 0
      BY <3>1, CreditNone
    <3> QED BY <2>1, <2>3, <3>2 DEF b
  <2> QED BY <2>2, <2>3
<1>3. ASSUME NEW k \in {"PONG", "CLOSE"}
      PROVE  CreditOf(<<Frame(k, 0)>>) = 0 /\ UnitsOf(<<Frame(k, 0)>>) = <<>>
  <2> DEFINE f == Frame(k, 0)
  <2>1. f \in FrameType /\ f.kind # "WINDOW" /\ f.kind # "DATA"
    BY DEF Frame, FrameType
  <2> HIDE DEF f
  <2>2. CreditOf(<<f>>) = 0 /\ UnitsOf(<<f>>) = <<>>
    BY <1>2, <2>1, UnitsOfOne
  <2> QED BY <2>2 DEF f
<1>4. ASSUME NEW n \in Nat
      PROVE  CreditOf(<<Frame("WINDOW", n)>>) = n /\ UnitsOf(<<Frame("WINDOW", n)>>) = <<>>
  <2> DEFINE f == Frame("WINDOW", n)
  <2>1. f \in FrameType /\ f.kind = "WINDOW" /\ f.val = n
    BY DEF Frame, FrameType
  <2> HIDE DEF f
  <2>2. CreditOf(<<f>>) = n /\ UnitsOf(<<f>>) = <<>>
    BY <1>2, <2>1, UnitsOfOne
  <2> QED BY <2>2 DEF f
<1> QED BY <1>1, <1>3, <1>4, UnitsOfNone

-----------------------------------------------------------------------------
(* The numbers of the uplink: the batch in hand has the last one given, and *)
(* only after a send failed is the relay further behind than that batch.    *)
Order ==
  /\ debt < GrantMin
  /\ relay.seq <= upSeq
  /\ \A r \in wire : r.kind = "up" => r.seq \in 1..upSeq
  /\ Exchanging /\ ex.req.kind = "up" =>
       /\ ex.req.seq = upSeq /\ upSeq >= 1
       /\ answer.status = "ok" => relay.seq = upSeq
  /\ ~lost => \/ relay.seq = upSeq
              \/ Exchanging /\ ex.req.kind = "up" /\ relay.seq = upSeq - 1
  /\ relay.gap => lost
  /\ mode = "ws" => upSeq = 0 /\ (lost => sock.fails)
  /\ mode # "ws" => sock.up = <<>>
  /\ pc \in Dialing => upSeq = 0 /\ ~lost /\ sock.up = <<>>

(* After Close: the DELETE is on its way or was answered until the call     *)
(* ends, and whoever gave up on it met a failure.                           *)
Release ==
  /\ closed => pc \in {"idle", "reading", "wait"}
  /\ closed /\ Exchanging => /\ ex.req \in DeleteReq
                             /\ ex.req \in wire \/ answer.status = "ok"
  /\ Exchanging /\ ex.req.kind = "delete" /\ answer.status = "ok" => relay.session = "deleted"
  /\ CloseReleases

LEMMA OrderSent ==
  ASSUME Types, Order, pc \notin Dialing \cup {"wait"},
         NEW cont, NEW b \in Batch, Send(cont, b),
         mode' = mode, relay' = relay, sock' = sock, lost' = lost, debt' < GrantMin
  PROVE  Order'
<1>1. upSeq \in Nat
  BY DEF Types, ClientTypes
<1>2. CASE mode = "ws" /\ SentMessage(b)
  <2>1. pc' = "wait" /\ ex'.req.kind = "message" /\ wire' = wire /\ upSeq' = upSeq
    BY <1>2 DEF SentMessage
  <2> QED BY <1>2, <2>1 DEF Order, Exchanging, Dialing
<1>3. CASE mode # "ws" /\ SentUp(b)
  <2>1. /\ pc' = "wait" /\ answer' = NoAnswer /\ upSeq' = upSeq + 1
        /\ ex'.req = UpRequest(upSeq + 1, b)
        /\ wire' \in {wire, wire \cup {UpRequest(upSeq + 1, b)}}
    BY <1>3 DEF SentUp
  <2>2. ex'.req.seq = upSeq + 1 /\ answer'.status # "ok"
    BY <2>1 DEF UpRequest, NoAnswer
  <2>3. \A r \in wire' : r.kind = "up" => r.seq \in 1..(upSeq + 1)
    BY <1>1, <2>1 DEF Order, UpRequest
  <2>4. relay.seq = upSeq \/ lost
    BY DEF Order, Exchanging
  <2>5. ex'.req.kind = "up" /\ relay.seq <= upSeq + 1 /\ (upSeq + 1) - 1 = upSeq /\ upSeq + 1 >= 1
    <3>1. relay.seq \in Nat
      BY DEF Types, NetworkTypes, RelayType
    <3> QED BY <1>1, <2>1, <3>1 DEF Order, UpRequest
  <2> QED BY <1>3, <2>1, <2>2, <2>3, <2>4, <2>5 DEF Order, Exchanging, Dialing
<1> QED BY <1>1, <1>2, <1>3, SendEffect, Zenon

LEMMA ReleaseSent ==
  ASSUME Types, ~closed, NEW cont, NEW b \in Batch, Send(cont, b), closed' = closed
  PROVE  Release'
<1>1. upSeq \in Nat
  BY DEF Types, ClientTypes
<1>2. CASE mode = "ws" /\ SentMessage(b)
  BY <1>2 DEF SentMessage, Release, CloseReleases, Exchanging
<1>3. CASE mode # "ws" /\ SentUp(b)
  BY <1>3 DEF SentUp, Release, CloseReleases, UpRequest, Exchanging
<1> QED BY <1>1, <1>2, <1>3, SendEffect, Zenon

LEMMA OrderStep ==
  ASSUME Types, Exchange, Order, Next
  PROVE  Order'
<1>1. ASSUME NEW ok \in BOOLEAN, FetchBridge(ok) PROVE Order'
  BY <1>1 DEF FetchBridge, Order, Exchanging, Types, ClientTypes, NetworkTypes, RelayType, SocketType, Dialing, Settled, Reply, Status, SendFails, Resume, NoAnswer, client, history, socket
<1>2. ASSUME NEW o \in {"refused", "lost", "malformed", "welcome"}, CreateSession(o) PROVE Order'
  BY <1>2 DEF CreateSession, Order, Exchanging, Types, ClientTypes, NetworkTypes, RelayType, SocketType, Dialing, Settled, Reply, Status, SendFails, Resume, NoAnswer, client, history, socket
<1>3. ASSUME NEW m \in {"none", "https", "ws"}, ChooseTransport(m) PROVE Order'
  BY <1>3 DEF ChooseTransport, Order, Exchanging, Types, ClientTypes, NetworkTypes, RelayType, SocketType, Dialing, Settled, Reply, Status, SendFails, Resume, NoAnswer, client, history, socket
<1>4. ASSUME NEW ok \in BOOLEAN, Upgrade(ok) PROVE Order'
  BY <1>4 DEF Upgrade, Order, Exchanging, Types, ClientTypes, NetworkTypes, RelayType, SocketType, Dialing, Settled, Reply, Status, SendFails, Resume, NoAnswer, client, history, socket
<1>5. CASE Write
  <2>1. debt' < GrantMin
    BY <1>5, CarrierAssumption DEF Write
  <2> QED BY <1>5, <2>1, ChunkTyped, WriteSends, OrderSent DEF Write, socket, Dialing
<1>6. CASE Read
  BY <1>6 DEF Read, Order, Exchanging, Types, ClientTypes, NetworkTypes, RelayType, SocketType, Dialing, Settled, Reply, Status, SendFails, Resume, NoAnswer, client, history, socket
<1>7. ASSUME NEW n \in 1..Len(readBuf), ReadBuffered(n) PROVE Order'
  <2>1. debt' < GrantMin
    <3>1. GrantMin \in Nat /\ GrantMin >= 1
      BY CarrierAssumption
    <3>2. debt' = (IF debt + n >= GrantMin THEN 0 ELSE debt + n) /\ debt + n \in Nat
      BY <1>7, ReadEffect, Zenon
    <3> QED BY <3>1, <3>2
  <2>2. pc = "reading" /\ mode' = mode /\ sock' = sock /\ relay' = relay /\ lost' = lost
    BY <1>7 DEF ReadBuffered, socket
  <2>3. CASE Send("grant", <<Frame("WINDOW", debt + n)>>)
    BY <1>7, <2>1, <2>2, <2>3, ReadEffect, OrderSent DEF Dialing
  <2>4. CASE pc' = "idle" /\ UNCHANGED <<ex, answer, wire, upSeq>>
    BY <2>1, <2>2, <2>4 DEF Order, Exchanging, Dialing
  <2> QED BY <1>7, <2>3, <2>4, ReadEffect, Zenon
<1>8. CASE ReadEnds
  BY <1>8 DEF ReadEnds, Order, Exchanging, Types, ClientTypes, NetworkTypes, RelayType, SocketType, Dialing, Settled, Reply, Status, SendFails, Resume, NoAnswer, client, history, socket
<1>9. CASE Pump
  <2>1. wire' = wire \/ wire' = wire \cup {DownRequest}
    BY <1>9 DEF Pump, Await
  <2>2. \A r \in wire' : r.kind = "up" => r \in wire
    BY <2>1 DEF DownRequest
  <2>3. pc' = "receiving" \/ (pc' = "wait" /\ ex'.req.kind = "down")
    BY <1>9 DEF Pump, Await, DownRequest
  <2> QED BY <1>9, <2>2, <2>3 DEF Pump, Order, Exchanging, Dialing, client, history, socket
<1>10. CASE FilePing
  <2>1. Send("pong", <<Frame("PONG", 0)>>) /\ <<Frame("PONG", 0)>> \in Batch
    BY <1>10, PingEffect, Zenon
  <2>2. debt' < GrantMin
    BY <1>10 DEF FilePing, Order
  <2> QED BY <1>10, <2>1, <2>2, OrderSent DEF FilePing, socket, history, Dialing
<1>11. CASE FileFrame
  BY <1>11 DEF FileFrame, Order, Exchanging, Types, ClientTypes, NetworkTypes, RelayType, SocketType, Dialing, Settled, Reply, Status, SendFails, Resume, NoAnswer, client, history, socket
<1>12. CASE PumpDone
  BY <1>12 DEF PumpDone, Order, Exchanging, Types, ClientTypes, NetworkTypes, RelayType, SocketType, Dialing, Settled, Reply, Status, SendFails, Resume, NoAnswer, client, history, socket
<1>13. CASE Close
  <2>1. debt' < GrantMin
    BY <1>13 DEF Close, Order
  <2>2. pc = "idle" /\ mode' = mode /\ sock' = sock /\ relay' = relay /\ lost' = lost
    BY <1>13 DEF Close, socket, history
  <2>3. CASE Send("close", <<Frame("CLOSE", 0)>>)
    BY <1>13, <2>1, <2>2, <2>3, CloseEffect, OrderSent DEF Dialing
  <2>4. CASE pc' = "closing" /\ UNCHANGED <<ex, answer, wire, upSeq>>
    BY <2>1, <2>2, <2>4 DEF Order, Exchanging, Dialing
  <2> QED BY <1>13, <2>3, <2>4, CloseEffect, Zenon
<1>14. CASE DeleteSession
  <2>1. wire' = wire \cup {[kind |-> "delete"]} /\ ex'.req.kind = "delete" /\ pc' = "wait"
    BY <1>14 DEF DeleteSession, Await
  <2>2. \A r \in wire' : r.kind = "up" => r \in wire
    BY <2>1
  <2>3. sock'.up = sock.up /\ sock'.fails = sock.fails
    BY <1>14 DEF DeleteSession, Types, NetworkTypes, SocketType
  <2> QED BY <1>14, <2>1, <2>2, <2>3 DEF DeleteSession, Order, Exchanging, Dialing
<1>15. CASE SendDone
  BY <1>15 DEF SendDone, Order, Exchanging, Types, ClientTypes, NetworkTypes, RelayType, SocketType, Dialing, Settled, Reply, Status, SendFails, Resume, NoAnswer, client, history, socket
<1>16. CASE SendRefused
  BY <1>16 DEF SendRefused, Order, Exchanging, Types, ClientTypes, NetworkTypes, RelayType, SocketType, Dialing, Settled, Reply, Status, SendFails, Resume, NoAnswer, client, history, socket
<1>17. CASE SendBusy
  <2>1. ex.req \in UpReq /\ ex.req.seq = upSeq /\ upSeq >= 1 /\ upSeq \in Nat /\ mode # "ws"
    BY <1>17 DEF SendBusy, Order, Exchange, Exchanging, DownReq, MessageReq, DeleteReq, Types, ClientTypes
  <2>2. CASE ex.tries < Tries /\ ~expired
    <3>1. /\ pc' = "wait" /\ ex'.req = ex.req /\ answer' = NoAnswer /\ lost' = lost
          /\ wire' \subseteq wire \cup {ex.req}
      BY <1>17, <2>2 DEF SendBusy, Await
    <3>2. \A r \in wire' : r.kind = "up" => r.seq \in 1..upSeq
      BY <2>1, <3>1 DEF Order
    <3> QED BY <1>17, <2>1, <3>1, <3>2 DEF SendBusy, Order, Exchanging, Dialing, NoAnswer, client, socket
  <2>3. CASE ~(ex.tries < Tries /\ ~expired)
    <3>1. lost' = TRUE /\ pc' \in {"frames", "closing", "idle"} /\ wire' = wire
      BY <1>17, <2>3 DEF SendBusy, SendFails, Resume
    <3> QED BY <1>17, <2>1, <3>1 DEF SendBusy, Order, Exchanging, Dialing, client, socket
  <2> QED BY <2>2, <2>3
<1>18. CASE ReceiveDone
  BY <1>18 DEF ReceiveDone, Order, Exchanging, Types, ClientTypes, NetworkTypes, RelayType, SocketType, Dialing, Settled, Reply, Status, SendFails, Resume, NoAnswer, client, history, socket
<1>19. CASE ReceiveBusy
  BY <1>19 DEF ReceiveBusy, Order, Exchanging, Types, ClientTypes, NetworkTypes, RelayType, SocketType, Dialing, Settled, Reply, Status, SendFails, Resume, NoAnswer, client, history, socket
<1>20. CASE ReceiveRefused
  BY <1>20 DEF ReceiveRefused, Order, Exchanging, Types, ClientTypes, NetworkTypes, RelayType, SocketType, Dialing, Settled, Reply, Status, SendFails, Resume, NoAnswer, client, history, socket
<1>21. CASE DeleteDone
  BY <1>21 DEF DeleteDone, Order, Exchanging, Types, ClientTypes, NetworkTypes, RelayType, SocketType, Dialing, Settled, Reply, Status, SendFails, Resume, NoAnswer, client, history, socket
<1>22. ASSUME NEW arrives \in BOOLEAN, GiveUp(arrives) PROVE Order'
  BY <1>22 DEF GiveUp, Order, Exchanging, Types, ClientTypes, NetworkTypes, RelayType, SocketType, Dialing, Settled, Reply, Status, SendFails, Resume, NoAnswer, client, history, socket
<1>23. CASE DeadlinePasses
  BY <1>23 DEF DeadlinePasses, Order, Exchanging, Types, ClientTypes, NetworkTypes, RelayType, SocketType, Dialing, Settled, Reply, Status, SendFails, Resume, NoAnswer, client, history, socket
<1>24. CASE SocketWrites
  <2>1. mode = "ws" /\ ex.req.kind = "message"
    BY <1>24 DEF SocketWrites, Exchange, Exchanging, UpReq, DownReq, DeleteReq
  <2>2. sock'.fails = sock.fails
    BY <1>24 DEF SocketWrites, Types, NetworkTypes, SocketType
  <2>3. pc' \in {"frames", "closing", "idle"}
    BY <1>24 DEF SocketWrites, Resume
  <2> QED BY <1>24, <2>1, <2>2, <2>3 DEF SocketWrites, Order, Exchanging, Dialing, client
<1>25. CASE SocketWriteFails
  BY <1>25 DEF SocketWriteFails, Order, Exchanging, Types, ClientTypes, NetworkTypes, RelayType, SocketType, Dialing, Settled, Reply, Status, SendFails, Resume, NoAnswer, client, history, socket
<1>26. CASE SocketReads
  <2>1. sock'.up = sock.up /\ (sock.fails => sock'.fails)
    BY <1>26, SocketReadsEffect
  <2>2. pc = "receiving" /\ pc' \in {"receiving", "idle", "frames"}
    BY <1>26, SocketReadsEffect DEF ReceiveFails, MessageDone, SocketReads
  <2> QED BY <1>26, <2>1, <2>2 DEF SocketReads, Order, Exchanging, Dialing, client, history
<1>27. ASSUME NEW b \in BOOLEAN, SocketReadsGarbage(b) PROVE Order'
  <2>1. sock'.up = sock.up /\ sock'.fails = sock.fails
    BY <1>27 DEF SocketReadsGarbage, Types, NetworkTypes, SocketType
  <2>2. pc = "receiving" /\ pc' \in {"idle", "frames"}
    BY <1>27 DEF SocketReadsGarbage, ReceiveFails
  <2> QED BY <1>27, <2>1, <2>2 DEF SocketReadsGarbage, Order, Exchanging, Dialing, client, history
<1>28. ASSUME NEW b \in BOOLEAN, SocketTimeOut(b) PROVE Order'
  BY <1>28 DEF SocketTimeOut, Order, Exchanging, Types, ClientTypes, NetworkTypes, RelayType, SocketType, Dialing, Settled, Reply, Status, SendFails, Resume, NoAnswer, client, history, socket
<1>29. ASSUME NEW req \in wire, RelayCommits(req) PROVE Order'
  <2>1. req \in UpReq /\ req.seq = relay.seq + 1 /\ req.seq \in 1..upSeq /\ Reply(req, Status("ok"))
    BY <1>29 DEF RelayCommits, Order, Types, NetworkTypes, DownReq, DeleteReq
  <2>2. After(req.frames) \in RelayType /\ After(req.frames).gap = relay.gap
    BY <2>1, AfterTyped DEF UpReq
  <2>3. relay'.seq = req.seq /\ relay'.gap = relay.gap
    BY <1>29, <2>2 DEF RelayCommits, RelayType
  <2>4. /\ wire' = wire \ {req} /\ UNCHANGED <<pc, ex, client, lost, socket>>
        /\ answer' = IF Exchanging /\ ex.req = req THEN Status("ok") ELSE answer
    BY <2>1 DEF Reply, history, Exchanging
  <2>5. relay.seq \in Nat /\ upSeq \in Nat
    BY DEF Types, ClientTypes, NetworkTypes, RelayType
  <2>6. Exchanging /\ ex.req.kind = "up" /\ answer'.status = "ok" => relay'.seq = upSeq
    BY <2>1, <2>3, <2>4, <2>5 DEF Order
  <2>7. ~lost => relay'.seq = upSeq
    BY <2>1, <2>3, <2>5 DEF Order
  <2> QED BY <2>1, <2>3, <2>4, <2>5, <2>6, <2>7 DEF Order, Exchanging, client, socket
<1>30. ASSUME NEW req \in wire, RelayRepeats(req) PROVE Order'
  BY <1>30 DEF RelayRepeats, Order, Exchanging, Types, ClientTypes, NetworkTypes, RelayType, SocketType, Dialing, Settled, Reply, Status, SendFails, Resume, NoAnswer, client, history, socket
<1>31. ASSUME NEW req \in wire, RelaySeesGap(req) PROVE Order'
  BY <1>31, SMTT(30) DEF RelaySeesGap, Order, Exchanging, Types, ClientTypes, NetworkTypes, RelayType, SocketType, Dialing, Settled, Reply, Status, SendFails, Resume, NoAnswer, client, history, socket
<1>32. ASSUME NEW req \in wire, RelayBusy(req) PROVE Order'
  BY <1>32 DEF RelayBusy, Order, Exchanging, Types, ClientTypes, NetworkTypes, RelayType, SocketType, Dialing, Settled, Reply, Status, SendFails, Resume, NoAnswer, client, history, socket
<1>33. ASSUME NEW req \in wire, RelayGone(req) PROVE Order'
  BY <1>33 DEF RelayGone, Order, Exchanging, Types, ClientTypes, NetworkTypes, RelayType, SocketType, Dialing, Settled, Reply, Status, SendFails, Resume, NoAnswer, client, history, socket
<1>34. ASSUME NEW req \in wire, RelayDelivers(req) PROVE Order'
  BY <1>34 DEF RelayDelivers, Order, Exchanging, Types, ClientTypes, NetworkTypes, RelayType, SocketType, Dialing, Settled, Reply, Status, SendFails, Resume, NoAnswer, client, history, socket
<1>35. ASSUME NEW req \in wire, RelayDeletes(req) PROVE Order'
  BY <1>35 DEF RelayDeletes, Order, Exchanging, Types, ClientTypes, NetworkTypes, RelayType, SocketType, Dialing, Settled, Reply, Status, SendFails, Resume, NoAnswer, client, history, socket
<1>36. CASE RelayForgets
  BY <1>36 DEF RelayForgets, Order, Exchanging, Types, ClientTypes, NetworkTypes, RelayType, SocketType, Dialing, Settled, Reply, Status, SendFails, Resume, NoAnswer, client, history, socket
<1>37. CASE RelayTakes
  <2>1. sock \in SocketType /\ sock.up # <<>> /\ Head(sock.up) \in Batch
    BY <1>37 DEF RelayTakes, Types, NetworkTypes, SocketType
  <2>2. relay'.seq = relay.seq /\ relay'.gap = relay.gap
    BY <1>37, <2>1, AfterTyped DEF RelayTakes
  <2>3. sock'.fails = sock.fails /\ mode = "ws" /\ pc \notin Dialing
    BY <1>37, <2>1 DEF RelayTakes, SocketType, Order
  <2> QED BY <1>37, <2>2, <2>3 DEF RelayTakes, Order, Exchanging, client, history
<1>38. ASSUME NEW cut \in 0..Len(relay.out), NEW to \in 0..Len(relay.out), NEW within \in BOOLEAN, RelayPushes(cut, to, within) PROVE Order'
  BY <1>38 DEF RelayPushes, Order, Exchanging, Types, ClientTypes, NetworkTypes, RelayType, SocketType, Dialing, Settled, Reply, Status, SendFails, Resume, NoAnswer, client, history, socket
<1>39. ASSUME NEW op \in {"ping", "text", "close"}, NEW i \in 1..(Len(sock.down) + 1), RelayInserts(op, i) PROVE Order'
  BY <1>39 DEF RelayInserts, Order, Exchanging, Types, ClientTypes, NetworkTypes, RelayType, SocketType, Dialing, Settled, Reply, Status, SendFails, Resume, NoAnswer, client, history, socket
<1>40. ASSUME NEW k \in {"DATA", "PING", "CLOSE", "BYE"}, RelayProduces(k) PROVE Order'
  BY <1>40 DEF RelayProduces, Order, Exchanging, Types, ClientTypes, NetworkTypes, RelayType, SocketType, Dialing, Settled, Reply, Status, SendFails, Resume, NoAnswer, client, history, socket
<1> QED BY <1>1, <1>2, <1>3, <1>4, <1>5, <1>6, <1>7, <1>8, <1>9, <1>10, <1>11, <1>12, <1>13, <1>14, <1>15, <1>16, <1>17, <1>18, <1>19, <1>20, <1>21, <1>22, <1>23, <1>24, <1>25, <1>26, <1>27, <1>28, <1>29, <1>30, <1>31, <1>32, <1>33, <1>34, <1>35, <1>36, <1>37, <1>38, <1>39, <1>40 DEF Next, Dial, Call, Step, RelayHandles

LEMMA ReleaseStep ==
  ASSUME Types, Exchange, Release, Next
  PROVE  Release'
<1>1. ASSUME NEW ok \in BOOLEAN, FetchBridge(ok) PROVE Release'
  BY <1>1 DEF FetchBridge, Release, CloseReleases, Exchanging, Types, ClientTypes, NetworkTypes, RelayType, DeleteReq, Settled, Reply, Status, SendFails, Resume, NoAnswer, Idle, client, history, socket
<1>2. ASSUME NEW o \in {"refused", "lost", "malformed", "welcome"}, CreateSession(o) PROVE Release'
  BY <1>2 DEF CreateSession, Release, CloseReleases, Exchanging, Types, ClientTypes, NetworkTypes, RelayType, DeleteReq, Settled, Reply, Status, SendFails, Resume, NoAnswer, Idle, client, history, socket
<1>3. ASSUME NEW m \in {"none", "https", "ws"}, ChooseTransport(m) PROVE Release'
  BY <1>3 DEF ChooseTransport, Release, CloseReleases, Exchanging, Types, ClientTypes, NetworkTypes, RelayType, DeleteReq, Settled, Reply, Status, SendFails, Resume, NoAnswer, Idle, client, history, socket
<1>4. ASSUME NEW ok \in BOOLEAN, Upgrade(ok) PROVE Release'
  BY <1>4 DEF Upgrade, Release, CloseReleases, Exchanging, Types, ClientTypes, NetworkTypes, RelayType, DeleteReq, Settled, Reply, Status, SendFails, Resume, NoAnswer, Idle, client, history, socket
<1>5. CASE Write
  <2>1. ~closed /\ closed' = closed
    BY <1>5 DEF Write
  <2> QED BY <1>5, <2>1, ChunkTyped, WriteSends, ReleaseSent
<1>6. CASE Read
  BY <1>6 DEF Read, Release, CloseReleases, Exchanging, Types, ClientTypes, NetworkTypes, RelayType, DeleteReq, Settled, Reply, Status, SendFails, Resume, NoAnswer, Idle, client, history, socket
<1>7. ASSUME NEW n \in 1..Len(readBuf), ReadBuffered(n) PROVE Release'
  <2>1. pc = "reading" /\ closed' = closed /\ relay' = relay /\ faults' = faults
    BY <1>7 DEF ReadBuffered
  <2>2. CASE ~closed /\ Send("grant", <<Frame("WINDOW", debt + n)>>)
    BY <1>7, <2>1, <2>2, ReadEffect, ReleaseSent
  <2>3. CASE pc' = "idle" /\ UNCHANGED <<ex, answer, wire, upSeq>>
    BY <2>1, <2>3 DEF Release, CloseReleases, Exchanging
  <2> QED BY <1>7, <2>2, <2>3, ReadEffect, Zenon
<1>8. CASE ReadEnds
  BY <1>8 DEF ReadEnds, Release, CloseReleases, Exchanging, Types, ClientTypes, NetworkTypes, RelayType, DeleteReq, Settled, Reply, Status, SendFails, Resume, NoAnswer, Idle, client, history, socket
<1>9. CASE Pump
  BY <1>9 DEF Pump, Await, DownRequest, Release, CloseReleases, Exchanging, client
<1>10. CASE FilePing
  <2>1. ~closed /\ closed' = closed
    BY <1>10 DEF FilePing, Release
  <2>2. Send("pong", <<Frame("PONG", 0)>>) /\ <<Frame("PONG", 0)>> \in Batch
    BY <1>10, PingEffect, Zenon
  <2> QED BY <2>1, <2>2, ReleaseSent
<1>11. CASE FileFrame
  BY <1>11 DEF FileFrame, Release, CloseReleases, Exchanging, Types, ClientTypes, NetworkTypes, RelayType, DeleteReq, Settled, Reply, Status, SendFails, Resume, NoAnswer, Idle, client, history, socket
<1>12. CASE PumpDone
  BY <1>12 DEF PumpDone, Release, CloseReleases, Exchanging, Types, ClientTypes, NetworkTypes, RelayType, DeleteReq, Settled, Reply, Status, SendFails, Resume, NoAnswer, Idle, client, history, socket
<1>13. CASE Close
  <2>1. ~closed /\ closed' = closed
    BY <1>13 DEF Close
  <2>2. CASE Send("close", <<Frame("CLOSE", 0)>>)
    BY <1>13, <2>1, <2>2, CloseEffect, ReleaseSent
  <2>3. CASE pc' = "closing" /\ UNCHANGED <<ex, answer, wire, upSeq>>
    BY <2>1, <2>3 DEF Release, CloseReleases, Exchanging
  <2> QED BY <1>13, <2>2, <2>3, CloseEffect, Zenon
<1>14. CASE DeleteSession
  <2>1. /\ pc' = "wait" /\ ex'.req = [kind |-> "delete"] /\ answer' = NoAnswer
        /\ wire' = wire \cup {[kind |-> "delete"]}
    BY <1>14 DEF DeleteSession, Await
  <2> QED BY <2>1 DEF Release, CloseReleases, Exchanging, DeleteReq, NoAnswer
<1>15. CASE SendDone
  BY <1>15 DEF SendDone, Release, CloseReleases, Exchanging, Types, ClientTypes, NetworkTypes, RelayType, DeleteReq, Settled, Reply, Status, SendFails, Resume, NoAnswer, Idle, client, history, socket
<1>16. CASE SendRefused
  BY <1>16 DEF SendRefused, Release, CloseReleases, Exchanging, Types, ClientTypes, NetworkTypes, RelayType, DeleteReq, Settled, Reply, Status, SendFails, Resume, NoAnswer, Idle, client, history, socket
<1>17. CASE SendBusy
  <2>1. ~closed /\ closed' = closed
    BY <1>17 DEF SendBusy, Release, Exchanging, DeleteReq, client
  <2>2. pc' # "wait" \/ ex'.req.kind = "up"
    BY <1>17 DEF SendBusy, Await, SendFails, Resume
  <2> QED BY <2>1, <2>2 DEF Release, CloseReleases, Exchanging
<1>18. CASE ReceiveDone
  BY <1>18 DEF ReceiveDone, Release, CloseReleases, Exchanging, Types, ClientTypes, NetworkTypes, RelayType, DeleteReq, Settled, Reply, Status, SendFails, Resume, NoAnswer, Idle, client, history, socket
<1>19. CASE ReceiveBusy
  BY <1>19 DEF ReceiveBusy, Release, CloseReleases, Exchanging, Types, ClientTypes, NetworkTypes, RelayType, DeleteReq, Settled, Reply, Status, SendFails, Resume, NoAnswer, Idle, client, history, socket
<1>20. CASE ReceiveRefused
  BY <1>20 DEF ReceiveRefused, Release, CloseReleases, Exchanging, Types, ClientTypes, NetworkTypes, RelayType, DeleteReq, Settled, Reply, Status, SendFails, Resume, NoAnswer, Idle, client, history, socket
<1>21. CASE DeleteDone
  BY <1>21 DEF DeleteDone, Release, CloseReleases, Exchanging, Types, ClientTypes, NetworkTypes, RelayType, DeleteReq, Settled, Reply, Status, SendFails, Resume, NoAnswer, Idle, client, history, socket
<1>22. ASSUME NEW arrives \in BOOLEAN, GiveUp(arrives) PROVE Release'
  <2>1. CASE closed
    <3>1. ex.req \in DeleteReq /\ ex.req.kind = "delete" /\ (ex.req \in wire \/ answer.status = "ok")
      BY <1>22, <2>1 DEF GiveUp, Release, Exchanging, DeleteReq
    <3>2. ~TimeUp
      BY <3>1 DEF TimeUp, NoAnswer
    <3>3. faults' = faults + 1 /\ pc' = "idle"
      BY <1>22, <3>1, <3>2 DEF GiveUp
    <3>4. faults' # 0
      BY <3>3 DEF Types, ClientTypes
    <3> QED BY <3>3, <3>4 DEF Release, CloseReleases, Exchanging
  <2>2. CASE ~closed
    BY <1>22, <2>2 DEF GiveUp, SendFails, Resume, Release, CloseReleases, Exchanging, client
  <2> QED BY <2>1, <2>2
<1>23. CASE DeadlinePasses
  BY <1>23 DEF DeadlinePasses, Release, CloseReleases, Exchanging, Types, ClientTypes, NetworkTypes, RelayType, DeleteReq, Settled, Reply, Status, SendFails, Resume, NoAnswer, Idle, client, history, socket
<1>24. CASE SocketWrites
  BY <1>24 DEF SocketWrites, Release, CloseReleases, Exchanging, Types, ClientTypes, NetworkTypes, RelayType, DeleteReq, Settled, Reply, Status, SendFails, Resume, NoAnswer, Idle, client, history, socket
<1>25. CASE SocketWriteFails
  BY <1>25 DEF SocketWriteFails, Release, CloseReleases, Exchanging, Types, ClientTypes, NetworkTypes, RelayType, DeleteReq, Settled, Reply, Status, SendFails, Resume, NoAnswer, Idle, client, history, socket
<1>26. CASE SocketReads
  <2>1. pc = "receiving" /\ ~closed /\ closed' = closed
    BY <1>26 DEF SocketReads, Release, client
  <2>2. pc' # "wait"
    BY <1>26, <2>1, SocketReadsEffect DEF ReceiveFails, MessageDone
  <2> QED BY <2>1, <2>2 DEF Release, CloseReleases, Exchanging
<1>27. ASSUME NEW b \in BOOLEAN, SocketReadsGarbage(b) PROVE Release'
  <2>1. pc = "receiving" /\ ~closed /\ closed' = closed
    BY <1>27 DEF SocketReadsGarbage, Release, client
  <2>2. pc' # "wait"
    BY <1>27 DEF SocketReadsGarbage, ReceiveFails
  <2> QED BY <2>1, <2>2 DEF Release, CloseReleases, Exchanging
<1>28. ASSUME NEW b \in BOOLEAN, SocketTimeOut(b) PROVE Release'
  BY <1>28 DEF SocketTimeOut, Release, CloseReleases, Exchanging, Types, ClientTypes, NetworkTypes, RelayType, DeleteReq, Settled, Reply, Status, SendFails, Resume, NoAnswer, Idle, client, history, socket
<1>29. ASSUME NEW req \in wire, RelayCommits(req) PROVE Release'
  BY <1>29 DEF RelayCommits, Release, CloseReleases, Exchanging, Types, ClientTypes, NetworkTypes, RelayType, DeleteReq, Settled, Reply, Status, SendFails, Resume, NoAnswer, Idle, client, history, socket
<1>30. ASSUME NEW req \in wire, RelayRepeats(req) PROVE Release'
  BY <1>30 DEF RelayRepeats, Release, CloseReleases, Exchanging, Types, ClientTypes, NetworkTypes, RelayType, DeleteReq, Settled, Reply, Status, SendFails, Resume, NoAnswer, Idle, client, history, socket
<1>31. ASSUME NEW req \in wire, RelaySeesGap(req) PROVE Release'
  BY <1>31 DEF RelaySeesGap, Release, CloseReleases, Exchanging, Types, ClientTypes, NetworkTypes, RelayType, DeleteReq, Settled, Reply, Status, SendFails, Resume, NoAnswer, Idle, client, history, socket
<1>32. ASSUME NEW req \in wire, RelayBusy(req) PROVE Release'
  BY <1>32 DEF RelayBusy, Release, CloseReleases, Exchanging, Types, ClientTypes, NetworkTypes, RelayType, DeleteReq, Settled, Reply, Status, SendFails, Resume, NoAnswer, Idle, client, history, socket
<1>33. ASSUME NEW req \in wire, RelayGone(req) PROVE Release'
  BY <1>33 DEF RelayGone, Release, CloseReleases, Exchanging, Types, ClientTypes, NetworkTypes, RelayType, DeleteReq, Settled, Reply, Status, SendFails, Resume, NoAnswer, Idle, client, history, socket
<1>34. ASSUME NEW req \in wire, RelayDelivers(req) PROVE Release'
  BY <1>34 DEF RelayDelivers, Release, CloseReleases, Exchanging, Types, ClientTypes, NetworkTypes, RelayType, DeleteReq, Settled, Reply, Status, SendFails, Resume, NoAnswer, Idle, client, history, socket
<1>35. ASSUME NEW req \in wire, RelayDeletes(req) PROVE Release'
  BY <1>35 DEF RelayDeletes, Release, CloseReleases, Exchanging, Types, ClientTypes, NetworkTypes, RelayType, DeleteReq, Settled, Reply, Status, SendFails, Resume, NoAnswer, Idle, client, history, socket
<1>36. CASE RelayForgets
  BY <1>36 DEF RelayForgets, Release, CloseReleases, Exchanging, Types, ClientTypes, NetworkTypes, RelayType, DeleteReq, Settled, Reply, Status, SendFails, Resume, NoAnswer, Idle, client, history, socket
<1>37. CASE RelayTakes
  BY <1>37 DEF RelayTakes, Release, CloseReleases, Exchanging, Types, ClientTypes, NetworkTypes, RelayType, DeleteReq, Settled, Reply, Status, SendFails, Resume, NoAnswer, Idle, client, history, socket
<1>38. ASSUME NEW cut \in 0..Len(relay.out), NEW to \in 0..Len(relay.out), NEW within \in BOOLEAN, RelayPushes(cut, to, within) PROVE Release'
  BY <1>38 DEF RelayPushes, Release, CloseReleases, Exchanging, Types, ClientTypes, NetworkTypes, RelayType, DeleteReq, Settled, Reply, Status, SendFails, Resume, NoAnswer, Idle, client, history, socket
<1>39. ASSUME NEW op \in {"ping", "text", "close"}, NEW i \in 1..(Len(sock.down) + 1), RelayInserts(op, i) PROVE Release'
  BY <1>39 DEF RelayInserts, Release, CloseReleases, Exchanging, Types, ClientTypes, NetworkTypes, RelayType, DeleteReq, Settled, Reply, Status, SendFails, Resume, NoAnswer, Idle, client, history, socket
<1>40. ASSUME NEW k \in {"DATA", "PING", "CLOSE", "BYE"}, RelayProduces(k) PROVE Release'
  BY <1>40 DEF RelayProduces, Release, CloseReleases, Exchanging, Types, ClientTypes, NetworkTypes, RelayType, DeleteReq, Settled, Reply, Status, SendFails, Resume, NoAnswer, Idle, client, history, socket
<1> QED BY <1>1, <1>2, <1>3, <1>4, <1>5, <1>6, <1>7, <1>8, <1>9, <1>10, <1>11, <1>12, <1>13, <1>14, <1>15, <1>16, <1>17, <1>18, <1>19, <1>20, <1>21, <1>22, <1>23, <1>24, <1>25, <1>26, <1>27, <1>28, <1>29, <1>30, <1>31, <1>32, <1>33, <1>34, <1>35, <1>36, <1>37, <1>38, <1>39, <1>40 DEF Next, Dial, Call, Step, RelayHandles

-----------------------------------------------------------------------------
(* The batch a WebSocket has still to take, and the numbered batches that   *)
(* may still reach the relay over HTTPS.                                    *)
InHand == IF Exchanging /\ ex.req.kind = "message" THEN ex.req.frames ELSE <<>>
UpReqs == {r \in wire \cup {ex.req} : r.kind = "up"}

(* What the relay may still send, and what it may still be granted by the   *)
(* batches without a number, beyond what was read; and the same of writes.  *)
Paid == relay.credit + Len(UnitsOf(relay.out)) + Credits(sock.up) + CreditOf(InHand) + debt - Len(got)
Carried == Len(relay.up) + Units(sock.up) + Len(UnitsOf(InHand)) - written

(* C and D add up the grants and the units of the batches 1..n, for every   *)
(* number n given so far, whatever became of these batches.                 *)
Books(C, D) ==
  /\ C \in [0..upSeq -> Nat] /\ D \in [0..upSeq -> Nat]
  /\ \A i, j \in 0..upSeq : i <= j => C[i] <= C[j] /\ D[i] <= D[j]
  /\ \A r \in UpReqs : /\ C[r.seq] = C[r.seq - 1] + CreditOf(r.frames)
                       /\ D[r.seq] = D[r.seq - 1] + Len(UnitsOf(r.frames))

Intact == mode = "ws" => ~lost

Balance(C, D) ==
  /\ Paid + C[upSeq] - C[relay.seq] <= Window
  /\ Intact /\ ~closed => Paid + C[upSeq] - C[relay.seq] = Window
  /\ Carried + D[upSeq] - D[relay.seq] <= 0
  /\ Intact => Carried + D[upSeq] - D[relay.seq] = 0

Acked == \A m \in acked : m <= Len(relay.up) + Units(sock.up)

Ledger == (\E C, D : Books(C, D) /\ Balance(C, D)) /\ Acked

LEMMA UpReqsTyped ==
  ASSUME Types, Exchange, Order
  PROVE  \A r \in UpReqs : r \in UpReq /\ r.seq \in 1..upSeq
<1> SUFFICES ASSUME NEW r \in UpReqs PROVE r \in UpReq /\ r.seq \in 1..upSeq
  OBVIOUS
<1>1. r.kind = "up" /\ (r \in wire \/ r = ex.req)
  BY DEF UpReqs
<1>2. CASE r \in wire
  BY <1>1, <1>2 DEF Types, NetworkTypes, Order, DownReq, DeleteReq
<1>3. CASE r = ex.req
  <2>1. Exchanging
    BY <1>1, <1>3 DEF Exchange, Idle
  <2>2. ex.req \in UpReq
    BY <1>1, <1>3, <2>1 DEF Exchange, MessageReq, DownReq, DeleteReq
  <2>3. ex.req.seq = upSeq /\ upSeq >= 1 /\ upSeq \in Nat
    BY <1>1, <1>3, <2>1 DEF Order, Types, ClientTypes
  <2> QED BY <1>3, <2>2, <2>3
<1> QED BY <1>1, <1>2, <1>3

LEMMA InHandTyped ==
  ASSUME Exchange
  PROVE  InHand \in Batch
<1>1. CASE Exchanging /\ ex.req.kind = "message"
  <2>1. ex.req \in MessageReq
    BY <1>1 DEF Exchange, UpReq, DownReq, DeleteReq
  <2> QED BY <1>1, <2>1 DEF InHand, MessageReq
<1>2. CASE ~(Exchanging /\ ex.req.kind = "message")
  BY <1>2 DEF InHand, Batch
<1> QED BY <1>1, <1>2

LEMMA TermsTyped ==
  ASSUME Types, Exchange
  PROVE  /\ relay.credit \in Int /\ Len(UnitsOf(relay.out)) \in Nat /\ Credits(sock.up) \in Nat
         /\ CreditOf(InHand) \in Nat /\ debt \in Nat /\ Len(got) \in Nat
         /\ Len(relay.up) \in Nat /\ Units(sock.up) \in Nat /\ Len(UnitsOf(InHand)) \in Nat
         /\ written \in Nat /\ Paid \in Int /\ Carried \in Int
<1>1. /\ relay.credit \in Int /\ relay.out \in Batch /\ relay.up \in Seq(Nat) /\ sock.up \in Seq(Batch)
      /\ debt \in Nat /\ got \in Seq(Nat) /\ written \in Nat
  BY DEF Types, ClientTypes, NetworkTypes, RelayType, SocketType
<1>2. Credits(sock.up) \in Nat /\ Units(sock.up) \in Nat
  BY <1>1, FlightTyped
<1>3. CreditOf(InHand) \in Nat /\ Len(UnitsOf(InHand)) \in Nat
  BY InHandTyped, BatchCounts
<1>4. Len(UnitsOf(relay.out)) \in Nat
  BY <1>1, BatchCounts
<1>5. Len(relay.up) \in Nat /\ Len(got) \in Nat
  BY <1>1
<1>6. Paid \in Int /\ Carried \in Int
  BY <1>1, <1>2, <1>3, <1>4, <1>5, SMTT(30) DEF Paid, Carried
<1> QED BY <1>1, <1>2, <1>3, <1>4, <1>5, <1>6

(* A step that gives no number and commits none. *)
LEMMA LedgerKept ==
  ASSUME Types, Exchange, Order, Types', Exchange', Ledger,
         upSeq' = upSeq, relay'.seq = relay.seq, UpReqs' \subseteq UpReqs, Acked',
         Paid' <= Paid, Carried' <= Carried,
         Intact' => Intact /\ Carried' = Carried,
         Intact' /\ ~closed' => ~closed /\ Paid' = Paid
  PROVE  Ledger'
<1>1. PICK C, D : Books(C, D) /\ Balance(C, D)
  BY DEF Ledger
<1>2. Books(C, D)'
  BY <1>1 DEF Books
<1>3. Paid \in Int /\ Carried \in Int /\ Paid' \in Int /\ Carried' \in Int
  <2>1. Paid \in Int /\ Carried \in Int
    BY TermsTyped
  <2>2. (Paid \in Int /\ Carried \in Int)'
    BY TermsTyped, PTL
  <2> QED BY <2>1, <2>2
<1>4. C[upSeq] \in Nat /\ C[relay.seq] \in Nat /\ D[upSeq] \in Nat /\ D[relay.seq] \in Nat
  <2>1. upSeq \in 0..upSeq /\ relay.seq \in 0..upSeq
    BY DEF Types, ClientTypes, NetworkTypes, RelayType, Order
  <2> QED BY <1>1, <2>1 DEF Books
<1>5. Balance(C, D)'
  <2>1. /\ Paid' + C[upSeq] - C[relay.seq] <= Window
        /\ Carried' + D[upSeq] - D[relay.seq] <= 0
    BY <1>1, <1>3, <1>4, CarrierAssumption DEF Balance
  <2>2. Intact' /\ ~closed' => Paid' + C[upSeq] - C[relay.seq] = Window
    BY <1>1, <1>3, <1>4 DEF Balance
  <2>3. Intact' => Carried' + D[upSeq] - D[relay.seq] = 0
    BY <1>1, <1>3, <1>4 DEF Balance
  <2> QED BY <2>1, <2>2, <2>3 DEF Balance
<1> QED BY <1>2, <1>5 DEF Ledger

LEMMA InHandNone ==
  /\ ~Exchanging \/ ex.req.kind # "message" => InHand = <<>>
  /\ CreditOf(<<>>) = 0 /\ Len(UnitsOf(<<>>)) = 0
<1>1. Len(<<>>) = 0
  OBVIOUS
<1> QED BY <1>1, FrameCounts, Zenon DEF InHand

(* A batch that is sent takes what it grants from the debt, and what it *)
(* carries from the writes.                                             *)
LEMMA LedgerSent ==
  ASSUME Types, Exchange, Order, Types', Exchange', Ledger, pc \notin Dialing \cup {"wait"},
         NEW cont, NEW b \in Batch, Send(cont, b),
         mode' = mode, relay' = relay, sock' = sock, lost' = lost, closed' = closed, acked' = acked,
         CreditOf(b) + debt' - Len(got') = debt - Len(got),
         written' = written + Len(UnitsOf(b))
  PROVE  Ledger'
<1>1. upSeq \in Nat /\ CreditOf(b) \in Nat /\ Len(UnitsOf(b)) \in Nat
  BY BatchCounts DEF Types, ClientTypes
<1>2. /\ relay.credit \in Int /\ Len(UnitsOf(relay.out)) \in Nat /\ Credits(sock.up) \in Nat
      /\ debt \in Nat /\ Len(got) \in Nat /\ Len(relay.up) \in Nat /\ Units(sock.up) \in Nat /\ written \in Nat
  BY TermsTyped
<1>3. debt' \in Nat /\ Len(got') \in Nat /\ written' \in Nat
  BY DEF Types, ClientTypes
<1>4. InHand = <<>>
  BY InHandNone DEF Exchanging
<1> DEFINE fixed == relay.credit + Len(UnitsOf(relay.out)) + Credits(sock.up)
           there == Len(relay.up) + Units(sock.up)
<1>5. /\ Paid = fixed + 0 + debt - Len(got)
      /\ Carried = there + 0 - written
      /\ fixed \in Int /\ there \in Int
  <2>1. CreditOf(InHand) = 0 /\ Len(UnitsOf(InHand)) = 0
    BY <1>4, InHandNone
  <2>2. Paid = fixed + CreditOf(InHand) + debt - Len(got) /\ Carried = there + Len(UnitsOf(InHand)) - written
    BY Zenon DEF Paid, Carried
  <2>3. fixed \in Int /\ there \in Int
    BY <1>2
  <2> QED BY <2>1, <2>2, <2>3, Zenon
<1>9. /\ Paid' = fixed + CreditOf(InHand') + debt' - Len(got')
       /\ Carried' = there + Len(UnitsOf(InHand')) - written'
  BY DEF Paid, Carried
<1> HIDE DEF fixed, there
<1>10. /\ fixed + CreditOf(b) + debt' - Len(got') = fixed + 0 + debt - Len(got)
       /\ fixed + 0 + debt' - Len(got') = (fixed + 0 + debt - Len(got)) - CreditOf(b)
  <2> DEFINE n == CreditOf(b)
             g == Len(got)
             h == Len(got')
             d == debt
             e == debt'
  <2>1. n \in Nat /\ g \in Nat /\ h \in Nat /\ d \in Nat /\ e \in Nat /\ fixed \in Int /\ n + e - h = d - g
    BY <1>1, <1>2, <1>3, <1>5
  <2> HIDE DEF n, g, h, d, e
  <2>2. fixed + n + e - h = fixed + 0 + d - g /\ fixed + 0 + e - h = (fixed + 0 + d - g) - n
    BY <2>1
  <2> QED BY <2>2, Zenon DEF n, g, h, d, e
<1>6. Acked'
  BY DEF Ledger, Acked
<1>7. CASE mode = "ws" /\ SentMessage(b)
  <2>1. pc' = "wait" /\ ex'.req = [kind |-> "message", frames |-> b] /\ wire' = wire /\ upSeq' = upSeq
    BY <1>7 DEF SentMessage
  <2>2. InHand' = b
    BY <2>1 DEF InHand, Exchanging
  <2>3. /\ Paid' = fixed + CreditOf(b) + debt' - Len(got')
        /\ Carried' = there + Len(UnitsOf(b)) - written'
    BY <1>9, <2>2
  <2>4. Paid' = Paid /\ Carried' = Carried
    <3>1. fixed + CreditOf(b) + debt' - Len(got') = fixed + 0 + debt - Len(got)
      BY <1>10
    <3>2. there + Len(UnitsOf(b)) - written' = there + 0 - written
      BY <1>1, <1>2, <1>3, <1>5
    <3> QED BY <1>5, <2>3, <3>1, <3>2, Zenon
  <2>5. UpReqs' \subseteq UpReqs
    BY <2>1 DEF UpReqs
  <2>6. Paid \in Int /\ Carried \in Int /\ Intact' = Intact
    BY TermsTyped DEF Intact
  <2> QED BY <1>6, <2>1, <2>4, <2>5, <2>6, LedgerKept
<1>8. CASE mode # "ws" /\ SentUp(b)
  <2> DEFINE new == UpRequest(upSeq + 1, b)
  <2>1. pc' = "wait" /\ ex'.req = new /\ wire' \in {wire, wire \cup {new}} /\ upSeq' = upSeq + 1
    BY <1>8 DEF SentUp
  <2>2. new.kind = "up" /\ new.seq = upSeq + 1 /\ new.frames = b
    BY DEF UpRequest
  <2> HIDE DEF new
  <2>3. InHand' = <<>>
    BY <2>1, <2>2 DEF InHand, Exchanging
  <2>4. /\ Paid' = fixed + 0 + debt' - Len(got')
        /\ Carried' = there + 0 - written'
    BY <1>9, <2>3, InHandNone
  <2>5. Paid' = Paid - CreditOf(b) /\ Carried' = Carried - Len(UnitsOf(b)) /\ Paid \in Int /\ Carried \in Int
    <3>1. fixed + 0 + debt' - Len(got') = (fixed + 0 + debt - Len(got)) - CreditOf(b)
      BY <1>10
    <3>2. there + 0 - written' = (there + 0 - written) - Len(UnitsOf(b))
      BY <1>1, <1>2, <1>3, <1>5
    <3>3. fixed + 0 + debt - Len(got) \in Int /\ there + 0 - written \in Int
      BY <1>2, <1>5
    <3> QED BY <1>5, <2>4, <3>1, <3>2, <3>3, Zenon
  <2>6. PICK C, D : Books(C, D) /\ Balance(C, D)
    BY DEF Ledger
  <2>20. PICK CC : CC = [i \in 0..(upSeq + 1) |-> IF i = upSeq + 1 THEN C[upSeq] + CreditOf(b) ELSE C[i]]
    OBVIOUS
  <2>21. PICK DD : DD = [i \in 0..(upSeq + 1) |-> IF i = upSeq + 1 THEN D[upSeq] + Len(UnitsOf(b)) ELSE D[i]]
    OBVIOUS
  <2>7. /\ C \in [0..upSeq -> Nat] /\ D \in [0..upSeq -> Nat]
        /\ \A i, j \in 0..upSeq : i <= j => C[i] <= C[j] /\ D[i] <= D[j]
    BY <2>6 DEF Books
  <2>8. upSeq \in 0..upSeq /\ C[upSeq] \in Nat /\ D[upSeq] \in Nat
    BY <1>1, <2>7
  <2>9. /\ CC[upSeq + 1] = C[upSeq] + CreditOf(b) /\ DD[upSeq + 1] = D[upSeq] + Len(UnitsOf(b))
        /\ \A i \in 0..upSeq : CC[i] = C[i] /\ DD[i] = D[i]
    BY <1>1, <2>20, <2>21
  <2>10. \A i \in 0..(upSeq + 1) : i = upSeq + 1 \/ i \in 0..upSeq
    BY <1>1
  <2>11. CC \in [0..(upSeq + 1) -> Nat] /\ DD \in [0..(upSeq + 1) -> Nat]
    BY <1>1, <2>7, <2>8, <2>10, <2>20, <2>21
  <2>12. ASSUME NEW i \in 0..(upSeq + 1), NEW j \in 0..(upSeq + 1), i <= j
         PROVE  CC[i] <= CC[j] /\ DD[i] <= DD[j]
    <3>1. CASE j \in 0..upSeq
      <4>1. i \in 0..upSeq
        BY <1>1, <2>12, <3>1
      <4> QED BY <2>7, <2>9, <2>12, <3>1, <4>1
    <3>2. CASE j = upSeq + 1 /\ i \in 0..upSeq
      <4>1. C[i] <= C[upSeq] /\ D[i] <= D[upSeq] /\ C[i] \in Nat /\ D[i] \in Nat
        BY <1>1, <2>7, <2>8, <3>2
      <4> QED BY <1>1, <2>8, <2>9, <3>2, <4>1, SMTT(30)
    <3>3. CASE j = upSeq + 1 /\ i = upSeq + 1
      BY <1>1, <2>8, <2>9, <3>3
    <3> QED BY <2>10, <3>1, <3>2, <3>3
  <2>13. ASSUME NEW r \in UpReqs'
         PROVE  /\ CC[r.seq] = CC[r.seq - 1] + CreditOf(r.frames)
                /\ DD[r.seq] = DD[r.seq - 1] + Len(UnitsOf(r.frames))
    <3>1. r = new \/ r \in UpReqs
      BY <2>1 DEF UpReqs
    <3>2. CASE r = new
      <4>1. (upSeq + 1) - 1 = upSeq /\ upSeq \in 0..upSeq
        BY <1>1
      <4> QED BY <2>2, <2>9, <3>2, <4>1
    <3>3. CASE r \in UpReqs
      <4>1. r.seq \in 1..upSeq
        BY <3>3, UpReqsTyped
      <4>2. r.seq \in 0..upSeq /\ r.seq - 1 \in 0..upSeq
        BY <1>1, <4>1
      <4> QED BY <2>6, <2>9, <3>3, <4>2 DEF Books
    <3> QED BY <3>1, <3>2, <3>3
  <2>14. Books(CC, DD)'
    <3>1. CC \in [0..upSeq' -> Nat] /\ DD \in [0..upSeq' -> Nat]
      BY <2>1, <2>11
    <3>2. \A i, j \in 0..upSeq' : i <= j => CC[i] <= CC[j] /\ DD[i] <= DD[j]
      BY <2>1, <2>12
    <3> QED BY <2>13, <3>1, <3>2, Zenon DEF Books
  <2>15. relay.seq \in 0..upSeq /\ relay'.seq = relay.seq
    BY <1>1 DEF Order, Types, NetworkTypes, RelayType
  <2>16. /\ CC[upSeq'] = C[upSeq] + CreditOf(b) /\ CC[relay'.seq] = C[relay.seq] /\ C[relay.seq] \in Nat
         /\ DD[upSeq'] = D[upSeq] + Len(UnitsOf(b)) /\ DD[relay'.seq] = D[relay.seq] /\ D[relay.seq] \in Nat
    BY <2>1, <2>7, <2>9, <2>15
  <2>17. /\ Paid' + CC[upSeq'] - CC[relay'.seq] = Paid + C[upSeq] - C[relay.seq]
         /\ Carried' + DD[upSeq'] - DD[relay'.seq] = Carried + D[upSeq] - D[relay.seq]
    <3>2. (Paid - CreditOf(b)) + (C[upSeq] + CreditOf(b)) - C[relay.seq] = Paid + C[upSeq] - C[relay.seq]
      BY <1>1, <2>5, <2>8, <2>16, SMTT(30)
    <3>3. (Carried - Len(UnitsOf(b))) + (D[upSeq] + Len(UnitsOf(b))) - D[relay.seq] = Carried + D[upSeq] - D[relay.seq]
      BY <1>1, <2>5, <2>8, <2>16, SMTT(30)
    <3> QED BY <2>5, <2>16, <3>2, <3>3, Zenon
  <2>18. Balance(CC, DD)'
    <3>1. /\ Paid' + CC[upSeq'] - CC[relay'.seq] <= Window
          /\ Carried' + DD[upSeq'] - DD[relay'.seq] <= 0
      BY <2>6, <2>17 DEF Balance
    <3>2. Intact' /\ ~closed' => Paid' + CC[upSeq'] - CC[relay'.seq] = Window
      BY <2>6, <2>17 DEF Balance, Intact
    <3>3. Intact' => Carried' + DD[upSeq'] - DD[relay'.seq] = 0
      BY <2>6, <2>17 DEF Balance, Intact
    <3> QED BY <3>1, <3>2, <3>3, Zenon DEF Balance
  <2> QED BY <1>6, <2>14, <2>18 DEF Ledger
<1> QED BY <1>1, <1>7, <1>8, SendEffect, Zenon

(* The relay commits the batch that is next. *)
LEMMA LedgerCommitted ==
  ASSUME Types, Exchange, Order, Types', Exchange', Ledger,
         NEW req \in wire, RelayCommits(req)
  PROVE  Ledger'
<1>1. req \in UpReqs /\ req \in UpReq /\ req.seq = relay.seq + 1 /\ req.seq \in 1..upSeq /\ req.frames \in Batch
  BY UpReqsTyped DEF RelayCommits, UpReqs, UpReq
<1> DEFINE b == req.frames
<1>2. After(b) \in RelayType /\ After(b).out = relay.out
      /\ After(b).up = relay.up \o UnitsOf(b) /\ After(b).credit = relay.credit + CreditOf(b)
  BY <1>1, AfterTyped
<1>3. relay' = [After(b) EXCEPT !.seq = req.seq]
  BY DEF RelayCommits
<1> HIDE DEF b
<1>4. /\ relay'.seq = relay.seq + 1 /\ relay'.out = relay.out
      /\ relay'.up = relay.up \o UnitsOf(b) /\ relay'.credit = relay.credit + CreditOf(b)
  BY <1>1, <1>2, <1>3 DEF RelayType
<1>5. /\ wire' = wire \ {req} /\ pc' = pc /\ ex' = ex /\ upSeq' = upSeq /\ debt' = debt /\ got' = got
      /\ written' = written /\ sock' = sock /\ lost' = lost /\ closed' = closed /\ mode' = mode /\ acked' = acked
  BY DEF RelayCommits, Reply, client, history, socket
<1>6. CreditOf(b) \in Nat /\ UnitsOf(b) \in Seq(Nat) /\ Len(UnitsOf(b)) \in Nat
  BY <1>1, BatchCounts DEF b
<1>7. Len(relay'.up) = Len(relay.up) + Len(UnitsOf(b))
  <2>1. relay.up \in Seq(Nat)
    BY DEF Types, NetworkTypes, RelayType
  <2> QED BY <1>4, <1>6, <2>1
<1>8. InHand' = InHand
  BY <1>5 DEF InHand, Exchanging
<1>9. Paid' = Paid + CreditOf(b) /\ Carried' = Carried + Len(UnitsOf(b)) /\ Paid \in Int /\ Carried \in Int
  <2>1. /\ relay.credit \in Int /\ Len(UnitsOf(relay.out)) \in Nat /\ Credits(sock.up) \in Nat
        /\ CreditOf(InHand) \in Nat /\ debt \in Nat /\ Len(got) \in Nat
        /\ Len(relay.up) \in Nat /\ Units(sock.up) \in Nat /\ Len(UnitsOf(InHand)) \in Nat /\ written \in Nat
    BY TermsTyped
  <2> DEFINE o == Len(UnitsOf(relay.out))
             k == Credits(sock.up)
             h == CreditOf(InHand)
             g == Len(got)
             u == Len(relay.up)
             w == Units(sock.up)
             i == Len(UnitsOf(InHand))
  <2>2. /\ Paid = relay.credit + o + k + h + debt - g
        /\ Paid' = (relay.credit + CreditOf(b)) + o + k + h + debt - g
    BY <1>4, <1>5, <1>8 DEF Paid
  <2>3. /\ Carried = u + w + i - written
        /\ Carried' = (u + Len(UnitsOf(b))) + w + i - written
    BY <1>5, <1>7, <1>8 DEF Carried
  <2>4. /\ o \in Nat /\ k \in Nat /\ h \in Nat /\ g \in Nat /\ u \in Nat /\ w \in Nat /\ i \in Nat
        /\ relay.credit \in Int /\ debt \in Nat /\ written \in Nat
    BY <2>1
  <2> HIDE DEF o, k, h, g, u, w, i
  <2> DEFINE c == relay.credit
             m == CreditOf(b)
             n == Len(UnitsOf(b))
  <2>5. c \in Int /\ m \in Nat /\ n \in Nat
    BY <1>6, <2>4
  <2> HIDE DEF c, m, n
  <2>6. /\ (c + m) + o + k + h + debt - g = (c + o + k + h + debt - g) + m
        /\ c + o + k + h + debt - g \in Int
    BY <2>4, <2>5
  <2>7. /\ (u + n) + w + i - written = (u + w + i - written) + n
        /\ u + w + i - written \in Int
    BY <2>4, <2>5
  <2> QED BY <2>2, <2>3, <2>6, <2>7, Zenon DEF c, m, n
<1>10. PICK C, D : Books(C, D) /\ Balance(C, D)
  BY DEF Ledger
<1>11. UpReqs' \subseteq UpReqs
  BY <1>5 DEF UpReqs
<1>12. Books(C, D)'
  BY <1>5, <1>10, <1>11 DEF Books
<1>13. C[relay.seq + 1] = C[relay.seq] + CreditOf(b) /\ D[relay.seq + 1] = D[relay.seq] + Len(UnitsOf(b))
  <2>1. (relay.seq + 1) - 1 = relay.seq
    BY DEF Types, NetworkTypes, RelayType
  <2> QED BY <1>1, <1>10, <2>1 DEF Books, b
<1>14. C[upSeq] \in Nat /\ C[relay.seq] \in Nat /\ D[upSeq] \in Nat /\ D[relay.seq] \in Nat
  <2>1. upSeq \in 0..upSeq /\ relay.seq \in 0..upSeq
    BY DEF Types, ClientTypes, NetworkTypes, RelayType, Order
  <2> QED BY <1>10, <2>1 DEF Books
<1>15. /\ Paid' + C[upSeq'] - C[relay'.seq] = Paid + C[upSeq] - C[relay.seq]
       /\ Carried' + D[upSeq'] - D[relay'.seq] = Carried + D[upSeq] - D[relay.seq]
  <2>1. (Paid + CreditOf(b)) + C[upSeq] - (C[relay.seq] + CreditOf(b)) = Paid + C[upSeq] - C[relay.seq]
    BY <1>6, <1>9, <1>14
  <2>2. (Carried + Len(UnitsOf(b))) + D[upSeq] - (D[relay.seq] + Len(UnitsOf(b))) = Carried + D[upSeq] - D[relay.seq]
    BY <1>6, <1>9, <1>14, SMTT(30)
  <2> QED BY <1>4, <1>5, <1>9, <1>13, <2>1, <2>2, Zenon
<1>16. Balance(C, D)'
  <2>1. /\ Paid' + C[upSeq'] - C[relay'.seq] <= Window
        /\ Carried' + D[upSeq'] - D[relay'.seq] <= 0
    BY <1>10, <1>15 DEF Balance
  <2>2. Intact' /\ ~closed' => Paid' + C[upSeq'] - C[relay'.seq] = Window
    BY <1>5, <1>10, <1>15 DEF Balance, Intact
  <2>3. Intact' => Carried' + D[upSeq'] - D[relay'.seq] = 0
    BY <1>5, <1>10, <1>15 DEF Balance, Intact
  <2> QED BY <2>1, <2>2, <2>3, Zenon DEF Balance
<1>17. Acked'
  <2>1. Len(relay.up) \in Nat /\ Units(sock.up) \in Nat
    BY TermsTyped
  <2>2. acked \subseteq Nat /\ \A m \in acked : m <= Len(relay.up) + Units(sock.up)
    BY DEF Types, ClientTypes, Ledger, Acked
  <2> QED BY <1>5, <1>6, <1>7, <2>1, <2>2 DEF Acked
<1> QED BY <1>12, <1>16, <1>17 DEF Ledger

(* What most steps leave as it is. *)
Untouched ==
  /\ relay'.credit = relay.credit /\ relay'.out = relay.out /\ relay'.up = relay.up /\ relay'.seq = relay.seq
  /\ sock'.up = sock.up /\ debt' = debt /\ got' = got /\ written' = written /\ upSeq' = upSeq /\ acked' = acked
  /\ (Intact' => Intact) /\ (~closed' => ~closed)

LEMMA LedgerQuiet ==
  ASSUME Types, Exchange, Order, Types', Exchange', Ledger,
         Untouched, UpReqs' \subseteq UpReqs, InHand' = InHand
  PROVE  Ledger'
<1>1. Paid' = Paid /\ Carried' = Carried
  BY Zenon DEF Untouched, Paid, Carried
<1>2. Paid \in Int /\ Carried \in Int
  BY TermsTyped
<1>3. Acked'
  BY Zenon DEF Ledger, Acked, Untouched
<1>4. upSeq' = upSeq /\ relay'.seq = relay.seq /\ (Intact' => Intact) /\ (~closed' => ~closed)
  BY DEF Untouched
<1> QED BY <1>1, <1>2, <1>3, <1>4, LedgerKept

(* The answer of a write whose batch the relay has committed. *)
LEMMA AllCarried ==
  ASSUME Types, Exchange, Order, Ledger, Intact, relay.seq = upSeq
  PROVE  Carried = 0
<1>1. PICK C, D : Books(C, D) /\ Balance(C, D)
  BY DEF Ledger
<1>2. upSeq \in 0..upSeq
  BY DEF Types, ClientTypes
<1>3. D[upSeq] \in Nat
  BY <1>1, <1>2 DEF Books
<1>4. Carried + D[upSeq] - D[upSeq] = 0
  BY <1>1 DEF Balance
<1>5. Carried \in Int
  BY TermsTyped
<1> QED BY <1>3, <1>4, <1>5

LEMMA LedgerWrite ==
  ASSUME Types, Exchange, Order, Types', Exchange', Ledger, Write
  PROVE  Ledger'
<1>1. Chunk \in Batch /\ Send("write", Chunk) /\ CreditOf(Chunk) = debt /\ UnitsOf(Chunk) = <<written + 1>>
  BY ChunkTyped, WriteSends, ChunkCounts
<1>2. pc \notin Dialing \cup {"wait"} /\ mode' = mode /\ relay' = relay /\ sock' = sock
      /\ lost' = lost /\ closed' = closed /\ acked' = acked
  BY DEF Write, socket, Dialing
<1>3. debt' = 0 /\ got' = got /\ written' = written + 1
  BY DEF Write
<1>4. debt \in Nat /\ Len(got) \in Nat /\ Len(<<written + 1>>) = 1
  BY TermsTyped
<1>5. CreditOf(Chunk) + debt' - Len(got') = debt - Len(got)
  BY <1>1, <1>3, <1>4
<1>6. written' = written + Len(UnitsOf(Chunk))
  BY <1>1, <1>3, <1>4
<1> QED BY <1>1, <1>2, <1>5, <1>6, LedgerSent

LEMMA LedgerRead ==
  ASSUME Types, Exchange, Order, Types', Exchange', Ledger,
         NEW n \in 1..Len(readBuf), ReadBuffered(n)
  PROVE  Ledger'
<1>1. /\ pc = "reading" /\ mode' = mode /\ relay' = relay /\ sock' = sock
      /\ lost' = lost /\ closed' = closed /\ acked' = acked /\ written' = written
  BY DEF ReadBuffered, socket
<1>2. /\ Len(got') = Len(got) + n /\ n \in Nat /\ debt + n \in Nat
      /\ debt' = IF debt + n >= GrantMin THEN 0 ELSE debt + n
  BY ReadEffect
<1>3. debt \in Nat /\ Len(got) \in Nat /\ Len(got') \in Nat /\ written \in Nat /\ debt' \in Nat
  BY <1>1, <1>2, TermsTyped
<1>4. CASE Send("grant", <<Frame("WINDOW", debt + n)>>) /\ debt + n >= GrantMin
  <2> DEFINE b == <<Frame("WINDOW", debt + n)>>
  <2>1. b \in Batch
    BY ReadEffect
  <2>2. CreditOf(b) = debt + n /\ UnitsOf(b) = <<>> /\ Len(<<>>) = 0
    BY <1>2, FrameCounts
  <2>3. pc \notin Dialing \cup {"wait"}
    BY <1>1 DEF Dialing
  <2> HIDE DEF b
  <2>4. CreditOf(b) + debt' - Len(got') = debt - Len(got)
    <3>1. (debt + n) + 0 - (Len(got) + n) = debt - Len(got)
      BY <1>2, <1>3
    <3>2. debt' = 0
      BY <1>2, <1>4
    <3> QED BY <1>2, <2>2, <3>1, <3>2, Zenon
  <2>5. written' = written + Len(UnitsOf(b))
    BY <1>1, <1>3, <2>2
  <2> QED BY <1>1, <1>4, <2>1, <2>3, <2>4, <2>5, LedgerSent DEF b
<1>5. CASE pc' = "idle" /\ UNCHANGED <<ex, answer, wire, upSeq>> /\ (debt + n >= GrantMin => closed)
  <2>1. InHand = <<>> /\ InHand' = <<>>
    BY <1>1, <1>5 DEF InHand, Exchanging
  <2>2. UpReqs' \subseteq UpReqs
    BY <1>5 DEF UpReqs
  <2>3. Carried' = Carried
    BY <1>1, <2>1, Zenon DEF Carried
  <2> DEFINE f == relay.credit + Len(UnitsOf(relay.out)) + Credits(sock.up) + CreditOf(InHand)
  <2>4. Paid = f + debt - Len(got) /\ Paid' = f + debt' - Len(got')
    BY <1>1, <2>1, Zenon DEF Paid
  <2>5. f \in Int
    BY TermsTyped
  <2> HIDE DEF f
  <2>6. Paid' <= Paid /\ (~closed => Paid' = Paid) /\ Paid \in Int
    BY <1>2, <1>3, <1>5, <2>4, <2>5
  <2>7. Carried \in Int
    BY TermsTyped
  <2>8. Acked'
    BY <1>1, Zenon DEF Ledger, Acked
  <2>9. upSeq' = upSeq /\ relay'.seq = relay.seq /\ Intact' = Intact /\ closed' = closed
    BY <1>1, <1>5 DEF Intact
  <2> QED BY <2>2, <2>3, <2>6, <2>7, <2>8, <2>9, LedgerKept
<1> QED BY <1>4, <1>5, ReadEffect, Zenon

LEMMA LedgerPing ==
  ASSUME Types, Exchange, Order, Types', Exchange', Ledger, FilePing
  PROVE  Ledger'
<1> DEFINE b == <<Frame("PONG", 0)>>
<1>1. b \in Batch /\ Send("pong", b)
  BY PingEffect, Zenon
<1>2. CreditOf(b) = 0 /\ UnitsOf(b) = <<>> /\ Len(<<>>) = 0
  BY FrameCounts
<1>3. /\ pc \notin Dialing \cup {"wait"} /\ mode' = mode /\ relay' = relay /\ sock' = sock
      /\ lost' = lost /\ closed' = closed /\ acked' = acked
      /\ debt' = debt /\ got' = got /\ written' = written
  BY DEF FilePing, socket, history, Dialing
<1>4. debt \in Nat /\ Len(got) \in Nat /\ written \in Nat
  BY TermsTyped
<1> HIDE DEF b
<1>5. CreditOf(b) + debt' - Len(got') = debt - Len(got) /\ written' = written + Len(UnitsOf(b))
  BY <1>2, <1>3, <1>4
<1> QED BY <1>1, <1>3, <1>5, LedgerSent

LEMMA LedgerClose ==
  ASSUME Types, Exchange, Order, Types', Exchange', Ledger, Close
  PROVE  Ledger'
<1> DEFINE b == <<Frame("CLOSE", 0)>>
<1>1. CreditOf(b) = 0 /\ UnitsOf(b) = <<>> /\ Len(<<>>) = 0
  BY FrameCounts
<1>2. /\ pc = "idle" /\ mode' = mode /\ relay' = relay /\ sock' = sock
      /\ lost' = lost /\ closed' = closed /\ acked' = acked
      /\ debt' = debt /\ got' = got /\ written' = written
  BY DEF Close, socket, history
<1>3. debt \in Nat /\ Len(got) \in Nat /\ written \in Nat
  BY TermsTyped
<1>4. b \in Batch /\ (Send("close", b) \/ (pc' = "closing" /\ UNCHANGED <<ex, answer, wire, upSeq>>))
  BY CloseEffect, Zenon
<1> HIDE DEF b
<1>5. CreditOf(b) + debt' - Len(got') = debt - Len(got) /\ written' = written + Len(UnitsOf(b))
  BY <1>1, <1>2, <1>3
<1>6. CASE Send("close", b)
  <2>1. pc \notin Dialing \cup {"wait"}
    BY <1>2 DEF Dialing
  <2> QED BY <1>2, <1>4, <1>5, <1>6, <2>1, LedgerSent
<1>7. CASE pc' = "closing" /\ UNCHANGED <<ex, answer, wire, upSeq>>
  <2>1. Untouched
    BY <1>2, <1>7 DEF Untouched, Intact
  <2>2. UpReqs' \subseteq UpReqs /\ InHand' = InHand
    BY <1>2, <1>7 DEF UpReqs, InHand, Exchanging
  <2> QED BY <2>1, <2>2, LedgerQuiet
<1> QED BY <1>4, <1>6, <1>7

LEMMA LedgerSendDone ==
  ASSUME Types, Exchange, Order, Types', Exchange', Ledger, SendDone
  PROVE  Ledger'
<1>1. pc = "wait" /\ ex.req.kind = "up" /\ answer.status = "ok" /\ pc' # "wait" /\ ex' = Idle /\ wire' = wire
  BY DEF SendDone, Resume, Settled
<1>2. /\ relay' = relay /\ sock' = sock /\ debt' = debt /\ got' = got /\ written' = written
      /\ upSeq' = upSeq /\ lost' = lost /\ mode' = mode /\ closed' = closed
      /\ acked' \subseteq acked \cup {written}
  BY DEF SendDone, client, socket
<1>3. InHand = <<>> /\ InHand' = <<>> /\ UpReqs' \subseteq UpReqs
  BY <1>1 DEF InHand, UpReqs, Exchanging, Idle
<1>4. relay.seq = upSeq /\ mode # "ws"
  BY <1>1 DEF Order, Exchange, Exchanging, MessageReq, DownReq, DeleteReq
<1>5. Carried = 0
  BY <1>4, AllCarried DEF Intact
<1>6. Len(relay.up) + Units(sock.up) = written
  <2>1. Carried = Len(relay.up) + Units(sock.up) + 0 - written
    BY <1>3, InHandNone DEF Carried
  <2>2. Len(relay.up) \in Nat /\ Units(sock.up) \in Nat /\ written \in Nat
    BY TermsTyped
  <2> QED BY <1>5, <2>1, <2>2
<1>7. Acked'
  <2>1. written \in Nat
    BY TermsTyped
  <2> QED BY <1>2, <1>6, <2>1 DEF Ledger, Acked
<1>8. Paid' = Paid /\ Carried' = Carried /\ Paid \in Int
  <2>1. Paid' = Paid /\ Carried' = Carried
    BY <1>2, <1>3, Zenon DEF Paid, Carried
  <2> QED BY <2>1, TermsTyped
<1>9. Intact' = Intact /\ relay'.seq = relay.seq
  BY <1>2 DEF Intact
<1> QED BY <1>2, <1>3, <1>5, <1>7, <1>8, <1>9, LedgerKept

LEMMA LedgerSocketWrites ==
  ASSUME Types, Exchange, Order, Types', Exchange', Ledger, SocketWrites
  PROVE  Ledger'
<1> DEFINE b == ex.req.frames
<1>1. pc = "wait" /\ ex.req.kind = "message" /\ ~sock.fails /\ pc' # "wait" /\ ex' = Idle /\ wire' = wire
  BY DEF SocketWrites, Resume, Settled
<1>2. /\ relay' = relay /\ debt' = debt /\ got' = got /\ written' = written
      /\ upSeq' = upSeq /\ lost' = lost /\ mode' = mode /\ closed' = closed
      /\ acked' \subseteq acked \cup {written}
  BY DEF SocketWrites, client
<1>3. InHand = b /\ InHand' = <<>> /\ UpReqs' \subseteq UpReqs
  BY <1>1 DEF InHand, UpReqs, Exchanging, Idle
<1>4. mode = "ws" /\ ex.req \in MessageReq
  BY <1>1 DEF Exchange, Exchanging, UpReq, DownReq, DeleteReq
<1>5. upSeq = 0 /\ ~lost /\ relay.seq = upSeq
  BY <1>1, <1>4 DEF Order, Types, NetworkTypes, RelayType
<1>6. Carried = 0
  BY <1>5, AllCarried DEF Intact
<1>7. b \in Batch /\ sock'.up = Append(sock.up, b) /\ sock.up \in Seq(Batch)
  BY <1>4 DEF SocketWrites, MessageReq, Types, NetworkTypes, SocketType
<1>8. InHand \in Batch
  BY InHandTyped
<1> HIDE DEF b
<1>9. Credits(sock'.up) = Credits(sock.up) + CreditOf(b) /\ Units(sock'.up) = Units(sock.up) + Len(UnitsOf(b))
  BY <1>7, FlightAppend
<1> DEFINE f == relay.credit + Len(UnitsOf(relay.out))
           k == Credits(sock.up)
           c == CreditOf(b)
           u == Len(relay.up)
           w == Units(sock.up)
           i == Len(UnitsOf(b))
           g == Len(got)
<1>10. /\ f \in Int /\ k \in Nat /\ c \in Nat /\ u \in Nat /\ w \in Nat /\ i \in Nat /\ g \in Nat
       /\ debt \in Nat /\ written \in Nat
  BY <1>3, TermsTyped
<1>11. CreditOf(InHand') = 0 /\ Len(UnitsOf(InHand')) = 0
  BY <1>3, InHandNone
<1>12. /\ Paid = f + k + c + debt - g /\ Paid' = f + (k + c) + 0 + debt - g
       /\ Carried = u + w + i - written /\ Carried' = u + (w + i) + 0 - written
       /\ Len(relay'.up) = u /\ Units(sock'.up) = w + i
  BY <1>2, <1>3, <1>9, <1>11, Zenon DEF Paid, Carried
<1> HIDE DEF f, k, c, u, w, i, g
<1>13. Paid' = Paid /\ Carried' = Carried /\ Paid \in Int
  BY <1>10, <1>12
<1>14. Acked'
  <2>1. u + (w + i) = written
    BY <1>6, <1>10, <1>12
  <2>2. \A m \in acked : m \in Nat /\ m <= u + w
    BY Zenon DEF Ledger, Acked, Types, ClientTypes, u, w
  <2>3. \A m \in acked' : m <= u + (w + i)
    BY <1>2, <1>10, <2>1, <2>2
  <2> QED BY <1>12, <2>3, Zenon DEF Acked
<1>15. Intact' = Intact /\ relay'.seq = relay.seq
  BY <1>2 DEF Intact
<1> QED BY <1>2, <1>3, <1>6, <1>13, <1>14, <1>15, LedgerKept

LEMMA LedgerSocketWriteFails ==
  ASSUME Types, Exchange, Order, Types', Exchange', Ledger, SocketWriteFails
  PROVE  Ledger'
<1>1. pc = "wait" /\ ex.req.kind = "message" /\ pc' # "wait" /\ ex' = Idle /\ wire' = wire
  BY DEF SocketWriteFails, SendFails, Resume, Settled
<1>2. /\ relay' = relay /\ sock'.up = sock.up /\ debt' = debt /\ got' = got /\ written' = written
      /\ upSeq' = upSeq /\ lost' /\ mode' = mode /\ acked' = acked
  BY DEF SocketWriteFails, SendFails, client, Types, NetworkTypes, SocketType
<1>3. InHand' = <<>> /\ UpReqs' \subseteq UpReqs
  BY <1>1 DEF InHand, UpReqs, Exchanging, Idle
<1>4. ~Intact'
  BY <1>1, <1>2 DEF Intact, Exchange, Exchanging, UpReq, DownReq, DeleteReq
<1> DEFINE f == relay.credit + Len(UnitsOf(relay.out)) + Credits(sock.up)
           c == CreditOf(InHand)
           u == Len(relay.up) + Units(sock.up)
           i == Len(UnitsOf(InHand))
           g == Len(got)
<1>5. f \in Int /\ c \in Nat /\ u \in Nat /\ i \in Nat /\ g \in Nat /\ debt \in Nat /\ written \in Nat
  BY TermsTyped, SMTT(30)
<1>6. CreditOf(InHand') = 0 /\ Len(UnitsOf(InHand')) = 0
  BY <1>3, InHandNone
<1>7. /\ Paid = f + c + debt - g /\ Paid' = f + 0 + debt - g
      /\ Carried = u + i - written /\ Carried' = u + 0 - written
  BY <1>2, <1>6, Zenon DEF Paid, Carried
<1> HIDE DEF f, c, u, i, g
<1>8. Paid' <= Paid /\ Carried' <= Carried
  BY <1>5, <1>7
<1>9. Acked'
  BY <1>2, Zenon DEF Ledger, Acked
<1> QED BY <1>2, <1>3, <1>4, <1>8, <1>9, LedgerKept

LEMMA LedgerTaken ==
  ASSUME Types, Exchange, Order, Types', Exchange', Ledger, RelayTakes
  PROVE  Ledger'
<1> DEFINE b == Head(sock.up)
<1>1. sock.up \in Seq(Batch) /\ sock.up # <<>> /\ b \in Batch /\ sock'.up = Tail(sock.up)
  BY DEF RelayTakes, Types, NetworkTypes, SocketType
<1>2. /\ Credits(sock.up) = CreditOf(b) + Credits(sock'.up)
      /\ Units(sock.up) = Len(UnitsOf(b)) + Units(sock'.up)
  BY <1>1, FlightTail
<1>3. relay'.up = relay.up \o UnitsOf(b) /\ relay'.credit = relay.credit + CreditOf(b)
      /\ relay'.out = relay.out /\ relay'.seq = relay.seq
  BY <1>1, AfterTyped DEF RelayTakes
<1>4. /\ pc' = pc /\ ex' = ex /\ wire' = wire /\ debt' = debt /\ got' = got /\ written' = written
      /\ upSeq' = upSeq /\ lost' = lost /\ mode' = mode /\ closed' = closed /\ acked' = acked
  BY DEF RelayTakes, client, history
<1>5. InHand' = InHand /\ UpReqs' \subseteq UpReqs
  BY <1>4 DEF InHand, UpReqs, Exchanging
<1> HIDE DEF b
<1> DEFINE o == Len(UnitsOf(relay.out))
           k == Credits(sock'.up)
           c == CreditOf(b)
           h == CreditOf(InHand)
           u == Len(relay.up)
           w == Units(sock'.up)
           n == Len(UnitsOf(b))
           i == Len(UnitsOf(InHand))
           g == Len(got)
           r == relay.credit
<1>6. Len(relay'.up) = u + n
  <2>1. UnitsOf(b) \in Seq(Nat) /\ relay.up \in Seq(Nat)
    BY <1>1, BatchCounts DEF Types, NetworkTypes, RelayType
  <2> QED BY <1>3, <2>1
<1>7. /\ r \in Int /\ o \in Nat /\ h \in Nat /\ u \in Nat /\ i \in Nat /\ g \in Nat
      /\ debt \in Nat /\ written \in Nat /\ c \in Nat /\ n \in Nat
  BY <1>1, TermsTyped, BatchCounts
<1>8. k \in Nat /\ w \in Nat
  <2>1. Tail(sock.up) \in Seq(Batch)
    BY <1>1
  <2> QED BY <1>1, <2>1, FlightTyped
<1>9. /\ Paid = r + o + (c + k) + h + debt - g /\ Paid' = (r + c) + o + k + h + debt - g
      /\ Carried = u + (n + w) + i - written /\ Carried' = (u + n) + w + i - written
      /\ Units(sock.up) = n + w /\ Units(sock'.up) = w
  BY <1>2, <1>3, <1>4, <1>5, <1>6, Zenon DEF Paid, Carried
<1>10. \A m \in acked : m \in Nat /\ m <= u + (n + w)
  BY <1>9, Zenon DEF Ledger, Acked, Types, ClientTypes
<1> HIDE DEF r, o, k, c, h, u, w, n, i, g
<1>11. Paid' = Paid /\ Carried' = Carried /\ Paid \in Int /\ Carried \in Int
  BY <1>7, <1>8, <1>9
<1>12. Acked'
  <2>1. u + (n + w) = (u + n) + w
    BY <1>7, <1>8
  <2> QED BY <1>4, <1>6, <1>9, <1>10, <2>1, Zenon DEF Acked
<1>13. Intact' = Intact
  BY <1>4 DEF Intact
<1> QED BY <1>3, <1>4, <1>5, <1>11, <1>12, <1>13, LedgerKept

LEMMA Produced ==
  ASSUME Types, NEW kind \in {"DATA", "PING", "CLOSE", "BYE"}, RelayProduces(kind)
  PROVE  LET f == Frame(kind, IF kind = "DATA" THEN Len(UnitsOf(relay.out)) + 1 ELSE 0) IN
         /\ f \in FrameType /\ relay'.out = Append(relay.out, f)
         /\ relay'.credit = IF kind = "DATA" THEN relay.credit - 1 ELSE relay.credit
         /\ relay'.up = relay.up /\ relay'.seq = relay.seq /\ relay'.pushed = relay.pushed
         /\ UnitsOf(relay'.out) = IF kind = "DATA" THEN Append(UnitsOf(relay.out), f.val) ELSE UnitsOf(relay.out)
<1> DEFINE v == IF kind = "DATA" THEN Len(UnitsOf(relay.out)) + 1 ELSE 0
           f == Frame(kind, v)
<1>1. relay \in RelayType /\ relay.out \in Seq(FrameType)
  BY DEF Types, NetworkTypes, RelayType, Batch
<1>2. Len(UnitsOf(relay.out)) \in Nat
  BY <1>1, BatchCounts DEF Batch
<1>3. v \in Nat
  BY <1>2
<1>4. f \in FrameType /\ f.kind = kind
  BY <1>3 DEF Frame, FrameType
<1>5. relay' = [relay EXCEPT !.out = Append(relay.out, f), !.credit = IF kind = "DATA" THEN relay.credit - 1 ELSE relay.credit]
  BY DEF RelayProduces
<1> HIDE DEF f
<1>6. /\ relay'.out = Append(relay.out, f) /\ relay'.up = relay.up /\ relay'.seq = relay.seq
      /\ relay'.pushed = relay.pushed
      /\ relay'.credit = IF kind = "DATA" THEN relay.credit - 1 ELSE relay.credit
  BY <1>1, <1>5 DEF RelayType
<1>7. UnitsOf(relay'.out) = IF kind = "DATA" THEN Append(UnitsOf(relay.out), f.val) ELSE UnitsOf(relay.out)
  <2>1. UnitsOf(relay'.out) = Plus(UnitsOf(relay.out), f)
    BY <1>1, <1>4, <1>6, UnitsOfAppend, Zenon
  <2> QED BY <1>4, <2>1, Zenon DEF Plus
<1> QED BY <1>4, <1>6, <1>7 DEF f

LEMMA LedgerProduced ==
  ASSUME Types, Exchange, Order, Types', Exchange', Ledger,
         NEW kind \in {"DATA", "PING", "CLOSE", "BYE"}, RelayProduces(kind)
  PROVE  Ledger'
<1>1. /\ pc' = pc /\ ex' = ex /\ wire' = wire /\ debt' = debt /\ got' = got /\ written' = written
      /\ upSeq' = upSeq /\ lost' = lost /\ mode' = mode /\ closed' = closed /\ acked' = acked /\ sock' = sock
  BY DEF RelayProduces, client, history, socket
<1>2. InHand' = InHand /\ UpReqs' \subseteq UpReqs
  BY <1>1 DEF InHand, UpReqs, Exchanging
<1>3. relay'.up = relay.up /\ relay'.seq = relay.seq
      /\ relay'.credit = IF kind = "DATA" THEN relay.credit - 1 ELSE relay.credit
  BY Produced
<1>4. Len(UnitsOf(relay'.out)) = IF kind = "DATA" THEN Len(UnitsOf(relay.out)) + 1 ELSE Len(UnitsOf(relay.out))
  <2>1. UnitsOf(relay.out) \in Seq(Nat)
    BY BatchCounts DEF Types, NetworkTypes, RelayType
  <2> QED BY <2>1, Produced
<1> DEFINE o == Len(UnitsOf(relay.out))
           q == Len(UnitsOf(relay'.out))
           k == Credits(sock.up) + CreditOf(InHand)
           g == Len(got)
           r == relay.credit
           s == relay'.credit
<1>5. r \in Int /\ o \in Nat /\ k \in Nat /\ g \in Nat /\ debt \in Nat /\ Paid \in Int /\ Carried \in Int
  BY TermsTyped
<1>6. s + q = r + o /\ s \in Int /\ q \in Nat
  BY <1>3, <1>4, <1>5
<1>7. Paid' = s + q + Credits(sock.up) + CreditOf(InHand) + debt - g
      /\ Paid = r + o + Credits(sock.up) + CreditOf(InHand) + debt - g
  BY <1>1, <1>2, Zenon DEF Paid
<1> HIDE DEF o, q, k, g, r, s
<1>8. Paid' = Paid
  BY <1>6, <1>7, Zenon
<1>9. Carried' = Carried /\ Acked'
  BY <1>1, <1>2, <1>3, Zenon DEF Carried, Ledger, Acked
<1>10. Intact' = Intact
  BY <1>1 DEF Intact
<1> QED BY <1>1, <1>2, <1>3, <1>5, <1>8, <1>9, <1>10, LedgerKept

LEMMA LedgerStep ==
  ASSUME Types, Exchange, Order, Types', Exchange', Ledger, Next
  PROVE  Ledger'
<1>1. ASSUME NEW ok \in BOOLEAN, FetchBridge(ok) PROVE Ledger'
  <2>1. Untouched
    BY <1>1 DEF FetchBridge, Untouched, Intact, Types, NetworkTypes, RelayType, SocketType, Settled, Reply, SendFails, Resume, client, history, socket
  <2>2. UpReqs' \subseteq UpReqs /\ InHand' = InHand
    BY <1>1 DEF FetchBridge, UpReqs, InHand, Exchanging, Settled, Idle, Reply, SendFails, Resume, Await, DownRequest, client
  <2> QED BY <2>1, <2>2, LedgerQuiet
<1>2. ASSUME NEW o \in {"refused", "lost", "malformed", "welcome"}, CreateSession(o) PROVE Ledger'
  <2>1. Untouched
    BY <1>2 DEF CreateSession, Untouched, Intact, Types, NetworkTypes, RelayType, SocketType, Settled, Reply, SendFails, Resume, client, history, socket
  <2>2. UpReqs' \subseteq UpReqs /\ InHand' = InHand
    BY <1>2 DEF CreateSession, UpReqs, InHand, Exchanging, Settled, Idle, Reply, SendFails, Resume, Await, DownRequest, client
  <2> QED BY <2>1, <2>2, LedgerQuiet
<1>3. ASSUME NEW m \in {"none", "https", "ws"}, ChooseTransport(m) PROVE Ledger'
  <2>1. Untouched
    BY <1>3 DEF ChooseTransport, Order, Dialing, Untouched, Intact, Types, NetworkTypes, RelayType, SocketType, Settled, Reply, SendFails, Resume, client, history, socket
  <2>2. UpReqs' \subseteq UpReqs /\ InHand' = InHand
    BY <1>3 DEF ChooseTransport, UpReqs, InHand, Exchanging, Settled, Idle, Reply, SendFails, Resume, Await, DownRequest, client
  <2> QED BY <2>1, <2>2, LedgerQuiet
<1>4. ASSUME NEW ok \in BOOLEAN, Upgrade(ok) PROVE Ledger'
  <2>1. Untouched
    BY <1>4 DEF Upgrade, Untouched, Intact, Types, NetworkTypes, RelayType, SocketType, Settled, Reply, SendFails, Resume, client, history, socket
  <2>2. UpReqs' \subseteq UpReqs /\ InHand' = InHand
    BY <1>4 DEF Upgrade, UpReqs, InHand, Exchanging, Settled, Idle, Reply, SendFails, Resume, Await, DownRequest, client
  <2> QED BY <2>1, <2>2, LedgerQuiet
<1>5. CASE Write
  BY <1>5, LedgerWrite
<1>6. CASE Read
  <2>1. Untouched
    BY <1>6 DEF Read, Untouched, Intact, Types, NetworkTypes, RelayType, SocketType, Settled, Reply, SendFails, Resume, client, history, socket
  <2>2. UpReqs' \subseteq UpReqs /\ InHand' = InHand
    BY <1>6 DEF Read, UpReqs, InHand, Exchanging, Settled, Idle, Reply, SendFails, Resume, Await, DownRequest, client
  <2> QED BY <2>1, <2>2, LedgerQuiet
<1>7. ASSUME NEW n \in 1..Len(readBuf), ReadBuffered(n) PROVE Ledger'
  BY <1>7, LedgerRead
<1>8. CASE ReadEnds
  <2>1. Untouched
    BY <1>8 DEF ReadEnds, Untouched, Intact, Types, NetworkTypes, RelayType, SocketType, Settled, Reply, SendFails, Resume, client, history, socket
  <2>2. UpReqs' \subseteq UpReqs /\ InHand' = InHand
    BY <1>8 DEF ReadEnds, UpReqs, InHand, Exchanging, Settled, Idle, Reply, SendFails, Resume, Await, DownRequest, client
  <2> QED BY <2>1, <2>2, LedgerQuiet
<1>9. CASE Pump
  <2>1. Untouched
    BY <1>9 DEF Pump, Untouched, Intact, Types, NetworkTypes, RelayType, SocketType, Settled, Reply, SendFails, Resume, client, history, socket
  <2>2. UpReqs' \subseteq UpReqs /\ InHand' = InHand
    BY <1>9 DEF Pump, UpReqs, InHand, Exchanging, Settled, Idle, Reply, SendFails, Resume, Await, DownRequest, client
  <2> QED BY <2>1, <2>2, LedgerQuiet
<1>10. CASE FilePing
  BY <1>10, LedgerPing
<1>11. CASE FileFrame
  <2>1. Untouched
    BY <1>11 DEF FileFrame, Untouched, Intact, Types, NetworkTypes, RelayType, SocketType, Settled, Reply, SendFails, Resume, client, history, socket
  <2>2. UpReqs' \subseteq UpReqs /\ InHand' = InHand
    BY <1>11 DEF FileFrame, UpReqs, InHand, Exchanging, Settled, Idle, Reply, SendFails, Resume, Await, DownRequest, client
  <2> QED BY <2>1, <2>2, LedgerQuiet
<1>12. CASE PumpDone
  <2>1. Untouched
    BY <1>12 DEF PumpDone, Untouched, Intact, Types, NetworkTypes, RelayType, SocketType, Settled, Reply, SendFails, Resume, client, history, socket
  <2>2. UpReqs' \subseteq UpReqs /\ InHand' = InHand
    BY <1>12 DEF PumpDone, UpReqs, InHand, Exchanging, Settled, Idle, Reply, SendFails, Resume, Await, DownRequest, client
  <2> QED BY <2>1, <2>2, LedgerQuiet
<1>13. CASE Close
  BY <1>13, LedgerClose
<1>14. CASE DeleteSession
  <2>1. Untouched
    BY <1>14 DEF DeleteSession, Untouched, Intact, Types, NetworkTypes, RelayType, SocketType, Settled, Reply, SendFails, Resume, client, history, socket
  <2>2. UpReqs' \subseteq UpReqs /\ InHand' = InHand
    BY <1>14 DEF DeleteSession, UpReqs, InHand, Exchanging, Settled, Idle, Reply, SendFails, Resume, Await, DownRequest, client
  <2> QED BY <2>1, <2>2, LedgerQuiet
<1>15. CASE SendDone
  BY <1>15, LedgerSendDone
<1>16. CASE SendRefused
  <2>1. Untouched
    BY <1>16 DEF SendRefused, Untouched, Intact, Types, NetworkTypes, RelayType, SocketType, Settled, Reply, SendFails, Resume, client, history, socket
  <2>2. UpReqs' \subseteq UpReqs /\ InHand' = InHand
    BY <1>16 DEF SendRefused, UpReqs, InHand, Exchanging, Settled, Idle, Reply, SendFails, Resume, Await, DownRequest, client
  <2> QED BY <2>1, <2>2, LedgerQuiet
<1>17. CASE SendBusy
  <2>1. Untouched
    BY <1>17 DEF SendBusy, Untouched, Intact, Types, NetworkTypes, RelayType, SocketType, Settled, Reply, SendFails, Resume, client, history, socket
  <2>2. UpReqs' \subseteq UpReqs /\ InHand' = InHand
    BY <1>17 DEF SendBusy, UpReqs, InHand, Exchanging, Settled, Idle, Reply, SendFails, Resume, Await, DownRequest, client
  <2> QED BY <2>1, <2>2, LedgerQuiet
<1>18. CASE ReceiveDone
  <2>1. Untouched
    BY <1>18 DEF ReceiveDone, Untouched, Intact, Types, NetworkTypes, RelayType, SocketType, Settled, Reply, SendFails, Resume, client, history, socket
  <2>2. UpReqs' \subseteq UpReqs /\ InHand' = InHand
    BY <1>18 DEF ReceiveDone, UpReqs, InHand, Exchanging, Settled, Idle, Reply, SendFails, Resume, Await, DownRequest, client
  <2> QED BY <2>1, <2>2, LedgerQuiet
<1>19. CASE ReceiveBusy
  <2>1. Untouched
    BY <1>19 DEF ReceiveBusy, Untouched, Intact, Types, NetworkTypes, RelayType, SocketType, Settled, Reply, SendFails, Resume, client, history, socket
  <2>2. UpReqs' \subseteq UpReqs /\ InHand' = InHand
    BY <1>19 DEF ReceiveBusy, UpReqs, InHand, Exchanging, Settled, Idle, Reply, SendFails, Resume, Await, DownRequest, client
  <2> QED BY <2>1, <2>2, LedgerQuiet
<1>20. CASE ReceiveRefused
  <2>1. Untouched
    BY <1>20 DEF ReceiveRefused, Untouched, Intact, Types, NetworkTypes, RelayType, SocketType, Settled, Reply, SendFails, Resume, client, history, socket
  <2>2. UpReqs' \subseteq UpReqs /\ InHand' = InHand
    BY <1>20 DEF ReceiveRefused, UpReqs, InHand, Exchanging, Settled, Idle, Reply, SendFails, Resume, Await, DownRequest, client
  <2> QED BY <2>1, <2>2, LedgerQuiet
<1>21. CASE DeleteDone
  <2>1. Untouched
    BY <1>21 DEF DeleteDone, Untouched, Intact, Types, NetworkTypes, RelayType, SocketType, Settled, Reply, SendFails, Resume, client, history, socket
  <2>2. UpReqs' \subseteq UpReqs /\ InHand' = InHand
    BY <1>21 DEF DeleteDone, UpReqs, InHand, Exchanging, Settled, Idle, Reply, SendFails, Resume, Await, DownRequest, client
  <2> QED BY <2>1, <2>2, LedgerQuiet
<1>22. ASSUME NEW arrives \in BOOLEAN, GiveUp(arrives) PROVE Ledger'
  <2>1. Untouched
    BY <1>22 DEF GiveUp, Untouched, Intact, Types, NetworkTypes, RelayType, SocketType, Settled, Reply, SendFails, Resume, client, history, socket
  <2>2. UpReqs' \subseteq UpReqs /\ InHand' = InHand
    BY <1>22 DEF GiveUp, UpReqs, InHand, Exchanging, Settled, Idle, Reply, SendFails, Resume, Await, DownRequest, client
  <2> QED BY <2>1, <2>2, LedgerQuiet
<1>23. CASE DeadlinePasses
  <2>1. Untouched
    BY <1>23 DEF DeadlinePasses, Untouched, Intact, Types, NetworkTypes, RelayType, SocketType, Settled, Reply, SendFails, Resume, client, history, socket
  <2>2. UpReqs' \subseteq UpReqs /\ InHand' = InHand
    BY <1>23 DEF DeadlinePasses, UpReqs, InHand, Exchanging, Settled, Idle, Reply, SendFails, Resume, Await, DownRequest, client
  <2> QED BY <2>1, <2>2, LedgerQuiet
<1>24. CASE SocketWrites
  BY <1>24, LedgerSocketWrites
<1>25. CASE SocketWriteFails
  BY <1>25, LedgerSocketWriteFails
<1>26. CASE SocketReads
  <2>1. Untouched
    BY <1>26, SocketReadsEffect DEF SocketReads, Untouched, Intact, client, history
  <2>2. pc = "receiving" /\ pc' \in {"receiving", "idle", "frames"} /\ ex' = ex /\ wire' = wire
    BY <1>26, SocketReadsEffect DEF ReceiveFails, MessageDone, SocketReads
  <2>3. UpReqs' \subseteq UpReqs /\ InHand' = InHand
    BY <2>2 DEF UpReqs, InHand, Exchanging
  <2> QED BY <2>1, <2>3, LedgerQuiet
<1>27. ASSUME NEW b \in BOOLEAN, SocketReadsGarbage(b) PROVE Ledger'
  <2>1. Untouched
    BY <1>27 DEF SocketReadsGarbage, Types, NetworkTypes, SocketType, Untouched, Intact, client, history
  <2>2. pc = "receiving" /\ pc' \in {"idle", "frames"} /\ ex' = ex /\ wire' = wire
    BY <1>27 DEF ReceiveFails, SocketReadsGarbage
  <2>3. UpReqs' \subseteq UpReqs /\ InHand' = InHand
    BY <2>2 DEF UpReqs, InHand, Exchanging
  <2> QED BY <2>1, <2>3, LedgerQuiet
<1>28. ASSUME NEW b \in BOOLEAN, SocketTimeOut(b) PROVE Ledger'
  <2>1. Untouched
    BY <1>28 DEF SocketTimeOut, Untouched, Intact, Types, NetworkTypes, RelayType, SocketType, Settled, Reply, SendFails, Resume, client, history, socket
  <2>2. UpReqs' \subseteq UpReqs /\ InHand' = InHand
    BY <1>28 DEF SocketTimeOut, UpReqs, InHand, Exchanging, Settled, Idle, Reply, SendFails, Resume, Await, DownRequest, client
  <2> QED BY <2>1, <2>2, LedgerQuiet
<1>29. ASSUME NEW req \in wire, RelayCommits(req) PROVE Ledger'
  BY <1>29, LedgerCommitted
<1>30. ASSUME NEW req \in wire, RelayRepeats(req) PROVE Ledger'
  <2>1. Untouched
    BY <1>30 DEF RelayRepeats, Untouched, Intact, Types, NetworkTypes, RelayType, SocketType, Settled, Reply, SendFails, Resume, client, history, socket
  <2>2. UpReqs' \subseteq UpReqs /\ InHand' = InHand
    BY <1>30 DEF RelayRepeats, UpReqs, InHand, Exchanging, Settled, Idle, Reply, SendFails, Resume, Await, DownRequest, client
  <2> QED BY <2>1, <2>2, LedgerQuiet
<1>31. ASSUME NEW req \in wire, RelaySeesGap(req) PROVE Ledger'
  <2>1. Untouched
    BY <1>31 DEF RelaySeesGap, Untouched, Intact, Types, NetworkTypes, RelayType, SocketType, Settled, Reply, SendFails, Resume, client, history, socket
  <2>2. UpReqs' \subseteq UpReqs /\ InHand' = InHand
    BY <1>31 DEF RelaySeesGap, UpReqs, InHand, Exchanging, Settled, Idle, Reply, SendFails, Resume, Await, DownRequest, client
  <2> QED BY <2>1, <2>2, LedgerQuiet
<1>32. ASSUME NEW req \in wire, RelayBusy(req) PROVE Ledger'
  <2>1. Untouched
    BY <1>32 DEF RelayBusy, Untouched, Intact, Types, NetworkTypes, RelayType, SocketType, Settled, Reply, SendFails, Resume, client, history, socket
  <2>2. UpReqs' \subseteq UpReqs /\ InHand' = InHand
    BY <1>32 DEF RelayBusy, UpReqs, InHand, Exchanging, Settled, Idle, Reply, SendFails, Resume, Await, DownRequest, client
  <2> QED BY <2>1, <2>2, LedgerQuiet
<1>33. ASSUME NEW req \in wire, RelayGone(req) PROVE Ledger'
  <2>1. Untouched
    BY <1>33 DEF RelayGone, Untouched, Intact, Types, NetworkTypes, RelayType, SocketType, Settled, Reply, SendFails, Resume, client, history, socket
  <2>2. UpReqs' \subseteq UpReqs /\ InHand' = InHand
    BY <1>33 DEF RelayGone, UpReqs, InHand, Exchanging, Settled, Idle, Reply, SendFails, Resume, Await, DownRequest, client
  <2> QED BY <2>1, <2>2, LedgerQuiet
<1>34. ASSUME NEW req \in wire, RelayDelivers(req) PROVE Ledger'
  <2>1. Untouched
    BY <1>34 DEF RelayDelivers, Untouched, Intact, Types, NetworkTypes, RelayType, SocketType, Settled, Reply, SendFails, Resume, client, history, socket
  <2>2. UpReqs' \subseteq UpReqs /\ InHand' = InHand
    BY <1>34 DEF RelayDelivers, UpReqs, InHand, Exchanging, Settled, Idle, Reply, SendFails, Resume, Await, DownRequest, client
  <2> QED BY <2>1, <2>2, LedgerQuiet
<1>35. ASSUME NEW req \in wire, RelayDeletes(req) PROVE Ledger'
  <2>1. Untouched
    BY <1>35 DEF RelayDeletes, Untouched, Intact, Types, NetworkTypes, RelayType, SocketType, Settled, Reply, SendFails, Resume, client, history, socket
  <2>2. UpReqs' \subseteq UpReqs /\ InHand' = InHand
    BY <1>35 DEF RelayDeletes, UpReqs, InHand, Exchanging, Settled, Idle, Reply, SendFails, Resume, Await, DownRequest, client
  <2> QED BY <2>1, <2>2, LedgerQuiet
<1>36. CASE RelayForgets
  <2>1. Untouched
    BY <1>36 DEF RelayForgets, Untouched, Intact, Types, NetworkTypes, RelayType, SocketType, Settled, Reply, SendFails, Resume, client, history, socket
  <2>2. UpReqs' \subseteq UpReqs /\ InHand' = InHand
    BY <1>36 DEF RelayForgets, UpReqs, InHand, Exchanging, Settled, Idle, Reply, SendFails, Resume, Await, DownRequest, client
  <2> QED BY <2>1, <2>2, LedgerQuiet
<1>37. CASE RelayTakes
  BY <1>37, LedgerTaken
<1>38. ASSUME NEW cut \in 0..Len(relay.out), NEW to \in 0..Len(relay.out), NEW within \in BOOLEAN, RelayPushes(cut, to, within) PROVE Ledger'
  <2>1. Untouched
    BY <1>38 DEF RelayPushes, Untouched, Intact, Types, NetworkTypes, RelayType, SocketType, Settled, Reply, SendFails, Resume, client, history, socket
  <2>2. UpReqs' \subseteq UpReqs /\ InHand' = InHand
    BY <1>38 DEF RelayPushes, UpReqs, InHand, Exchanging, Settled, Idle, Reply, SendFails, Resume, Await, DownRequest, client
  <2> QED BY <2>1, <2>2, LedgerQuiet
<1>39. ASSUME NEW op \in {"ping", "text", "close"}, NEW i \in 1..(Len(sock.down) + 1), RelayInserts(op, i) PROVE Ledger'
  <2>1. Untouched
    BY <1>39 DEF RelayInserts, Untouched, Intact, Types, NetworkTypes, RelayType, SocketType, Settled, Reply, SendFails, Resume, client, history, socket
  <2>2. UpReqs' \subseteq UpReqs /\ InHand' = InHand
    BY <1>39 DEF RelayInserts, UpReqs, InHand, Exchanging, Settled, Idle, Reply, SendFails, Resume, Await, DownRequest, client
  <2> QED BY <2>1, <2>2, LedgerQuiet
<1>40. ASSUME NEW k \in {"DATA", "PING", "CLOSE", "BYE"}, RelayProduces(k) PROVE Ledger'
  BY <1>40, LedgerProduced
<1> QED BY <1>1, <1>2, <1>3, <1>4, <1>5, <1>6, <1>7, <1>8, <1>9, <1>10, <1>11, <1>12, <1>13, <1>14, <1>15, <1>16, <1>17, <1>18, <1>19, <1>20, <1>21, <1>22, <1>23, <1>24, <1>25, <1>26, <1>27, <1>28, <1>29, <1>30, <1>31, <1>32, <1>33, <1>34, <1>35, <1>36, <1>37, <1>38, <1>39, <1>40 DEF Next, Dial, Call, Step, RelayHandles

-----------------------------------------------------------------------------
(* The inductive invariant, and the three properties that follow from it.   *)
Inv == Types /\ Exchange /\ Order /\ Release /\ Ledger

LEMMA InvInit == Init => Inv
<1> SUFFICES ASSUME Init PROVE Inv
  OBVIOUS
<1>1. Types
  <2>1. <<>> \in Batch /\ <<>> \in Seq(Nat) /\ <<>> \in Seq(Piece) /\ <<>> \in Seq(Batch) /\ <<>> \in Seq(Piece \cup Control)
    BY DEF Batch
  <2>2. Window \in Int /\ MaxFaults \in Nat
    BY CarrierAssumption
  <2>3. ClientTypes
    BY <2>1 DEF Init, ClientTypes
  <2>4. NetworkTypes
    BY <2>1, <2>2 DEF Init, NetworkTypes, SocketType, RelayType
  <2> QED BY <2>3, <2>4 DEF Types
<1>2. Exchange
  BY DEF Init, Exchange, Exchanging
<1>3. Order
  BY CarrierAssumption DEF Init, Order, Exchanging, Dialing
<1>4. Release
  BY DEF Init, Release, CloseReleases, Exchanging
<1>5. Ledger
  <2>1. PICK Z : Z = [i \in 0..0 |-> 0]
    OBVIOUS
  <2>2. UpReqs = {}
    BY DEF Init, UpReqs, Idle
  <2>3. upSeq = 0 /\ relay.seq = 0 /\ 0 \in 0..0
    BY DEF Init
  <2>4. Z[0] = 0
    BY <2>1, <2>3
  <2>5. Books(Z, Z)
    <3>1. Z \in [0..upSeq -> Nat]
      BY <2>1, <2>3
    <3>2. \A i, j \in 0..upSeq : i <= j => Z[i] <= Z[j]
      BY <2>1, <2>3
    <3> QED BY <2>2, <3>1, <3>2, Zenon DEF Books
  <2>6. InHand = <<>>
    BY DEF Init, InHand, Exchanging
  <2>7. CreditOf(InHand) = 0 /\ Len(UnitsOf(InHand)) = 0 /\ Len(<<>>) = 0
    BY <2>6, InHandNone
  <2>8. UnitsOf(relay.out) = <<>> /\ Credits(sock.up) = 0 /\ Units(sock.up) = 0
    BY FrameCounts, FlightNone DEF Init
  <2>9. Paid = Window + 0 + 0 + 0 + 0 - 0 /\ Carried = 0 + 0 + 0 - 0
    BY <2>7, <2>8 DEF Init, Paid, Carried
  <2>10. Balance(Z, Z)
    BY <2>3, <2>4, <2>9, CarrierAssumption DEF Balance
  <2>11. Acked
    BY DEF Init, Acked
  <2> QED BY <2>5, <2>10, <2>11 DEF Ledger
<1> QED BY <1>1, <1>2, <1>3, <1>4, <1>5 DEF Inv

LEMMA InvStep == Inv /\ [Next]_vars => Inv'
<1> SUFFICES ASSUME Inv, [Next]_vars PROVE Inv'
  OBVIOUS
<1> USE DEF Inv
<1>1. CASE Next
  <2>1. Types'
    BY <1>1, ClientTypesStep, NetworkTypesStep DEF Types
  <2>2. Exchange'
    BY <1>1, ExchangeStep
  <2>3. Order' /\ Release'
    BY <1>1, OrderStep, ReleaseStep
  <2>4. Ledger'
    BY <1>1, <2>1, <2>2, LedgerStep
  <2> QED BY <2>1, <2>2, <2>3, <2>4
<1>2. CASE UNCHANGED vars
  <2> USE <1>2 DEF vars, client, history, socket
  <2>1. Types'
    BY DEF Types, ClientTypes, NetworkTypes
  <2>2. Exchange'
    BY ExchangeKept
  <2>3. Order'
    BY DEF Order, Exchanging
  <2>4. Release'
    BY DEF Release, CloseReleases, Exchanging
  <2>5. Untouched /\ UpReqs' \subseteq UpReqs /\ InHand' = InHand
    BY DEF Untouched, Intact, UpReqs, InHand, Exchanging
  <2>6. Ledger'
    BY <2>1, <2>2, <2>5, LedgerQuiet
  <2> QED BY <2>1, <2>2, <2>3, <2>4, <2>6
<1> QED BY <1>1, <1>2

THEOREM InvHolds == Spec => []Inv
<1>1. Inv /\ [Next]_vars => Inv'
  BY InvStep
<1> QED BY <1>1, InvInit, PTL DEF Spec

LEMMA InvCredit == Inv => CreditConserved
<1> SUFFICES ASSUME Inv PROVE CreditConserved
  OBVIOUS
<1>1. Types /\ Exchange /\ Order /\ Ledger
  BY DEF Inv
<1>2. PICK C, D : Books(C, D) /\ Balance(C, D)
  BY <1>1 DEF Ledger
<1>3. C[relay.seq] \in Nat /\ C[upSeq] \in Nat /\ C[relay.seq] <= C[upSeq]
  <2>1. upSeq \in 0..upSeq /\ relay.seq \in 0..upSeq /\ relay.seq <= upSeq
    BY <1>1 DEF Types, ClientTypes, NetworkTypes, RelayType, Order
  <2> QED BY <1>2, <2>1 DEF Books
<1> DEFINE o == Len(UnitsOf(relay.out))
           g == Len(got)
           k == Credits(sock.up)
           h == CreditOf(InHand)
           sum == (relay.credit + CreditInFlight) + Outstanding + debt
<1>4. CreditInFlight = k
  BY InFlight
<1>5. relay.credit \in Int /\ o \in Nat /\ k \in Nat /\ h \in Nat /\ debt \in Nat /\ g \in Nat
  BY <1>1, TermsTyped
<1>6. Paid = relay.credit + o + k + h + debt - g /\ sum = (relay.credit + k) + (o - g) + debt /\ Outstanding = o - g
  BY <1>4, Zenon DEF Paid, Outstanding
<1>7. Window \in Nat /\ GrantMin \in Nat /\ debt < GrantMin /\ GrantMin <= Window
  BY <1>1, CarrierAssumption DEF Order
<1>8. Paid + C[upSeq] - C[relay.seq] <= Window /\ (Intact /\ ~closed => Paid + C[upSeq] - C[relay.seq] = Window)
  BY <1>2 DEF Balance
<1>9. ~Exchanging /\ ~lost => h = 0 /\ relay.seq = upSeq /\ Intact
  BY <1>1, InHandNone DEF Order, Intact
<1> HIDE DEF o, g, k, h, sum
<1>10. Paid = sum + h /\ sum \in Int
  BY <1>5, <1>6
<1>11. sum <= Window
  BY <1>3, <1>5, <1>7, <1>8, <1>10
<1>12. ~Exchanging /\ ~lost /\ ~closed => sum = Window
  BY <1>3, <1>5, <1>7, <1>8, <1>9, <1>10
<1>13. ~Exchanging /\ ~lost /\ ~closed /\ Outstanding = 0 => relay.credit + CreditInFlight > 0
  BY <1>4, <1>5, <1>6, <1>7, <1>12
<1> QED BY <1>11, <1>12, <1>13 DEF CreditConserved, Exchanging, sum

(* Flow control, with any number of writes, refusals, faults and lost or    *)
(* delayed requests: the relay never has more credit than the reader has    *)
(* consumed; none is lost while no send failed; and a reader that consumed  *)
(* everything never leaves the relay without any (Carrier.Read's grant at   *)
(* windowGrantMin, takeWindowGrant, the batches of httpCarrier.send).       *)
THEOREM CreditIsConserved == Spec => []CreditConserved
BY InvHolds, InvCredit, PTL

LEMMA InvUplink == Inv => UplinkInOrder
BY InFlight, Zenon DEF Inv, Ledger, Acked, Order, UplinkInOrder

(* A Write that returned success has reached the relay, or is on its way to *)
(* it in order on the WebSocket, and the relay sees a gap in the sequence   *)
(* only after a send failed: httpCarrier.send repeats a refused batch under *)
(* the number it was given.                                                 *)
THEOREM UplinkIsInOrder == Spec => []UplinkInOrder
BY InvHolds, InvUplink, PTL

(* Close ends the relay session over a network that drops nothing, before   *)
(* and after the carrier's deadline (Carrier.deleteSession).                *)
THEOREM CloseEndsSession == Spec => []CloseReleases
<1>1. Inv => CloseReleases
  BY DEF Inv, Release
<1> QED BY <1>1, InvHolds, PTL

-----------------------------------------------------------------------------
(* Parts of a sequence.                                                     *)
LEMMA PartTyped ==
  ASSUME NEW T, NEW out \in Seq(T), NEW a \in Nat, NEW b \in Nat, a <= b, b <= Len(out)
  PROVE  /\ SubSeq(out, a + 1, b) \in Seq(T) /\ Len(SubSeq(out, a + 1, b)) = b - a
         /\ \A i \in 1..(b - a) : SubSeq(out, a + 1, b)[i] = out[a + i]
OBVIOUS

LEMMA PartsJoin ==
  ASSUME NEW T, NEW out \in Seq(T), NEW a \in Nat, NEW b \in Nat, NEW c \in Nat,
         a <= b, b <= c, c <= Len(out)
  PROVE  SubSeq(out, a + 1, b) \o SubSeq(out, b + 1, c) = SubSeq(out, a + 1, c)
<1> DEFINE s == SubSeq(out, a + 1, b)
           t == SubSeq(out, b + 1, c)
           u == SubSeq(out, a + 1, c)
<1>1. /\ s \in Seq(T) /\ Len(s) = b - a /\ \A i \in 1..(b - a) : s[i] = out[a + i]
      /\ t \in Seq(T) /\ Len(t) = c - b /\ \A i \in 1..(c - b) : t[i] = out[b + i]
      /\ u \in Seq(T) /\ Len(u) = c - a /\ \A i \in 1..(c - a) : u[i] = out[a + i]
  BY PartTyped
<1> HIDE DEF s, t, u
<1>2. /\ s \o t \in Seq(T) /\ Len(s \o t) = Len(s) + Len(t)
      /\ \A i \in 1..(Len(s) + Len(t)) : (s \o t)[i] = IF i <= Len(s) THEN s[i] ELSE t[i - Len(s)]
  BY <1>1, ConcatProperties, Zenon
<1>5. Len(s) + Len(t) = Len(u)
  BY <1>1
<1>3. ASSUME NEW i \in 1..Len(u) PROVE (s \o t)[i] = u[i]
  <2>1. (s \o t)[i] = IF i <= Len(s) THEN s[i] ELSE t[i - Len(s)]
    BY <1>2, <1>3, <1>5
  <2>2. CASE i <= b - a
    <3>1. i \in 1..(b - a)
      BY <1>1, <1>3, <2>2
    <3> QED BY <1>1, <1>3, <2>1, <2>2, <3>1
  <2>3. CASE ~(i <= b - a)
    <3>1. i - (b - a) \in 1..(c - b) /\ b + (i - (b - a)) = a + i
      BY <1>1, <1>3, <2>3
    <3> QED BY <1>1, <1>3, <2>1, <2>3, <3>1
  <2> QED BY <2>2, <2>3
<1>4. s \o t = u
  <2>1. \A i \in 1..Len(s \o t) : (s \o t)[i] = u[i]
    BY <1>2, <1>3, <1>5, Zenon
  <2>2. Len(s \o t) = Len(u)
    BY <1>2, <1>5, Zenon
  <2> QED BY <1>1, <1>2, <2>1, <2>2, SeqEqual, Zenon
<1> QED BY <1>4 DEF s, t, u

LEMMA PartNone ==
  ASSUME NEW T, NEW out \in Seq(T), NEW a \in Nat
  PROVE  SubSeq(out, a + 1, a) = <<>>
OBVIOUS

LEMMA PartWhole ==
  ASSUME NEW T, NEW out \in Seq(T)
  PROVE  SubSeq(out, 1, Len(out)) = out
OBVIOUS

LEMMA PartOfLonger ==
  ASSUME NEW T, NEW out \in Seq(T), NEW f \in T, NEW a \in Nat, NEW b \in Nat, a <= b, b <= Len(out)
  PROVE  SubSeq(Append(out, f), a + 1, b) = SubSeq(out, a + 1, b)
<1> DEFINE more == Append(out, f)
           s == SubSeq(more, a + 1, b)
           t == SubSeq(out, a + 1, b)
<1>1. more \in Seq(T) /\ Len(more) = Len(out) + 1 /\ \A i \in 1..Len(out) : more[i] = out[i]
  OBVIOUS
<1>2. /\ s \in Seq(T) /\ Len(s) = b - a /\ \A i \in 1..(b - a) : s[i] = more[a + i]
      /\ t \in Seq(T) /\ Len(t) = b - a /\ \A i \in 1..(b - a) : t[i] = out[a + i]
  <2>1. b <= Len(more)
    BY <1>1
  <2> HIDE DEF more
  <2> QED BY <1>1, <2>1, PartTyped, SMTT(30)
<1> HIDE DEF more, s, t
<1>3. ASSUME NEW i \in 1..(b - a) PROVE s[i] = t[i]
  <2>1. a + i \in 1..Len(out)
    OBVIOUS
  <2> QED BY <1>1, <1>2, <2>1
<1>4. s = t
  BY <1>2, <1>3
<1> QED BY <1>4 DEF more, s, t

(* Units read or to be read, of the first m that were sent: in the order    *)
(* sent, perhaps not all of them, and with units of nobody among them.      *)
Rising(s, m) ==
  /\ \A i \in 1..Len(s) : s[i] \in 0..m
  /\ \A i, j \in 1..Len(s) : i < j /\ s[i] # 0 /\ s[j] # 0 => s[i] < s[j]

Counting(s) == \A i \in 1..Len(s) : s[i] = i

LEMMA CountingRises ==
  ASSUME NEW s \in Seq(Nat), Counting(s)
  PROVE  Rising(s, Len(s))
BY DEF Counting, Rising

LEMMA RisingWider ==
  ASSUME NEW s \in Seq(Nat), NEW m \in Nat, NEW n \in Nat, m <= n, Rising(s, m)
  PROVE  Rising(s, n)
BY DEF Rising

LEMMA RisingPrefix ==
  ASSUME NEW s \in Seq(Nat), NEW t \in Seq(Nat), NEW m \in Nat, Rising(s \o t, m)
  PROVE  Rising(s, m)
<1> DEFINE u == s \o t
<1>1. u \in Seq(Nat) /\ Len(u) = Len(s) + Len(t) /\ \A i \in 1..Len(s) : u[i] = s[i]
  OBVIOUS
<1>2. \A i \in 1..Len(s) : i \in 1..Len(u)
  BY <1>1
<1>3. Rising(u, m)
  OBVIOUS
<1> HIDE DEF u
<1> QED BY <1>1, <1>2, <1>3 DEF Rising

LEMMA RisingOn ==
  ASSUME NEW s \in Seq(Nat), NEW t \in Seq(Nat), NEW m \in Nat, Rising(s, m),
         \A i \in 1..Len(t) : t[i] = m + i
  PROVE  Rising(s \o t, m + Len(t))
<1> DEFINE u == s \o t
<1>1. /\ Len(s) \in Nat /\ Len(t) \in Nat /\ Len(u) = Len(s) + Len(t)
      /\ \A i \in 1..Len(u) : u[i] = IF i <= Len(s) THEN s[i] ELSE t[i - Len(s)]
  OBVIOUS
<1> HIDE DEF u
<1>2. ASSUME NEW i \in 1..Len(u) PROVE \/ i \in 1..Len(s) /\ u[i] = s[i]
                                       \/ i > Len(s) /\ u[i] = m + (i - Len(s)) /\ i - Len(s) \in 1..Len(t)
  <2>1. CASE i <= Len(s)
    BY <1>1, <2>1
  <2>2. CASE ~(i <= Len(s))
    <3>1. i - Len(s) \in 1..Len(t)
      BY <1>1, <2>2
    <3> QED BY <1>1, <2>2, <3>1, SMTT(30)
  <2> QED BY <2>1, <2>2
<1>3. \A i \in 1..Len(s) : s[i] \in 0..m
  BY DEF Rising
<1>4. \A i \in 1..Len(u) : u[i] \in 0..(m + Len(t))
  BY <1>1, <1>2, <1>3, SMTT(30)
<1>5. ASSUME NEW i \in 1..Len(u), NEW j \in 1..Len(u), i < j, u[i] # 0, u[j] # 0 PROVE u[i] < u[j]
  <2>1. CASE j \in 1..Len(s) /\ u[j] = s[j]
    <3>1. i \in 1..Len(s) /\ u[i] = s[i]
      BY <1>1, <1>2, <1>5, <2>1
    <3> QED BY <1>5, <2>1, <3>1 DEF Rising
  <2>2. CASE j > Len(s) /\ u[j] = m + (j - Len(s)) /\ j - Len(s) \in 1..Len(t)
    <3>1. CASE i \in 1..Len(s) /\ u[i] = s[i]
      BY <1>1, <1>3, <2>2, <3>1
    <3>2. CASE i > Len(s) /\ u[i] = m + (i - Len(s)) /\ i - Len(s) \in 1..Len(t)
      BY <1>1, <1>5, <2>2, <3>2
    <3> QED BY <1>2, <3>1, <3>2
  <2> QED BY <1>2, <2>1, <2>2
<1>6. Rising(u, m + Len(t))
  BY <1>4, <1>5 DEF Rising
<1> QED BY <1>6 DEF u

LEMMA RisingOdd ==
  ASSUME NEW s \in Seq(Nat), NEW m \in Nat, Rising(s, m)
  PROVE  Rising(Append(s, 0), m)
<1> DEFINE u == Append(s, 0)
<1>1. /\ Len(s) \in Nat /\ Len(u) = Len(s) + 1
      /\ \A i \in 1..Len(s) : u[i] = s[i]
      /\ u[Len(s) + 1] = 0
  OBVIOUS
<1> HIDE DEF u
<1>2. \A i \in 1..Len(u) : i \in 1..Len(s) \/ i = Len(s) + 1
  BY <1>1
<1>3. \A i \in 1..Len(u) : u[i] \in 0..m
  BY <1>1, <1>2 DEF Rising
<1>4. \A i, j \in 1..Len(u) : i < j /\ u[i] # 0 /\ u[j] # 0 => u[i] < u[j]
  BY <1>1, <1>2 DEF Rising
<1>5. Rising(u, m)
  BY <1>3, <1>4 DEF Rising
<1> QED BY <1>5 DEF u

(* A sequence that counts does so in each of its parts. *)
LEMMA CountingParts ==
  ASSUME NEW s \in Seq(Nat), NEW t \in Seq(Nat), Counting(s \o t)
  PROVE  /\ Counting(s)
         /\ \A i \in 1..Len(t) : t[i] = Len(s) + i
<1> DEFINE u == s \o t
<1>1. /\ Len(s) \in Nat /\ Len(t) \in Nat /\ Len(u) = Len(s) + Len(t)
      /\ \A i \in 1..Len(u) : u[i] = IF i <= Len(s) THEN s[i] ELSE t[i - Len(s)]
      /\ \A i \in 1..Len(u) : u[i] = i
  BY DEF Counting
<1> HIDE DEF u
<1>2. ASSUME NEW i \in 1..Len(s) PROVE s[i] = i
  <2>1. i \in 1..Len(u) /\ i <= Len(s)
    BY <1>1
  <2> QED BY <1>1, <2>1
<1>3. ASSUME NEW i \in 1..Len(t) PROVE t[i] = Len(s) + i
  <2>1. Len(s) + i \in 1..Len(u) /\ ~(Len(s) + i <= Len(s)) /\ (Len(s) + i) - Len(s) = i
    BY <1>1
  <2>2. u[Len(s) + i] = t[(Len(s) + i) - Len(s)] /\ u[Len(s) + i] = Len(s) + i
    BY <1>1, <2>1
  <2> QED BY <2>1, <2>2
<1> QED BY <1>2, <1>3 DEF Counting

-----------------------------------------------------------------------------
(* Pieces cut from what the relay sent, each where the one before it ended: *)
(* those of s run from a to b.                                              *)
Cut(f, x, y, out) == /\ f.op = "data" => f.frames = SubSeq(out, x + 1, y)
                     /\ f.op # "data" => y = x

Spans(c, s, out) ==
  /\ c \in [0..Len(s) -> 0..Len(out)]
  /\ \A i, j \in 0..Len(s) : i <= j => c[i] <= c[j]
  /\ \A k \in 1..Len(s) : Cut(s[k], c[k - 1], c[k], out)

Covers(s, a, b, out) == \E c : Spans(c, s, out) /\ c[0] = a /\ c[Len(s)] = b

Element == Piece \cup Control

LEMMA CoversNone ==
  ASSUME NEW out \in Batch, NEW a \in 0..Len(out)
  PROVE  Covers(<<>>, a, a, out)
<1> DEFINE c == [i \in 0..0 |-> a]
<1>1. c[0] = a /\ Len(<<>>) = 0
  OBVIOUS
<1>2. Spans(c, <<>>, out)
  BY DEF Spans
<1> QED BY <1>1, <1>2 DEF Covers

LEMMA CoversBounds ==
  ASSUME NEW out \in Batch, NEW s \in Seq(Element), NEW a, NEW b, Covers(s, a, b, out)
  PROVE  a \in 0..Len(out) /\ b \in 0..Len(out) /\ a <= b /\ (s = <<>> => a = b)
<1>1. PICK c : Spans(c, s, out) /\ c[0] = a /\ c[Len(s)] = b
  BY DEF Covers
<1>2. Len(s) \in Nat /\ 0 \in 0..Len(s) /\ Len(s) \in 0..Len(s)
  OBVIOUS
<1>3. s = <<>> => Len(s) = 0
  OBVIOUS
<1> QED BY <1>1, <1>2, <1>3 DEF Spans

LEMMA CoversOne ==
  ASSUME NEW out \in Batch, NEW f \in Element, NEW a \in 0..Len(out), NEW b \in 0..Len(out)
  PROVE  Covers(<<f>>, a, b, out) <=> a <= b /\ Cut(f, a, b, out)
<1>1. Len(<<f>>) = 1 /\ <<f>>[1] = f /\ 0 \in 0..1 /\ 1 \in 0..1 /\ 1 \in 1..1 /\ 1 - 1 = 0
  OBVIOUS
<1>2. ASSUME Covers(<<f>>, a, b, out) PROVE a <= b /\ Cut(f, a, b, out)
  <2>1. PICK c : Spans(c, <<f>>, out) /\ c[0] = a /\ c[1] = b
    BY <1>1, <1>2 DEF Covers
  <2>2. c[0] <= c[1]
    BY <1>1, <2>1 DEF Spans
  <2>3. Cut(f, c[1 - 1], c[1], out)
    BY <1>1, <2>1 DEF Spans
  <2> QED BY <1>1, <2>1, <2>2, <2>3
<1>3. ASSUME a <= b, Cut(f, a, b, out) PROVE Covers(<<f>>, a, b, out)
  <2> DEFINE c == [i \in 0..1 |-> IF i = 0 THEN a ELSE b]
  <2>1. c \in [0..1 -> 0..Len(out)] /\ c[0] = a /\ c[1] = b
    OBVIOUS
  <2> HIDE DEF c
  <2>2. \A i, j \in 0..1 : i <= j => c[i] <= c[j]
    BY <1>3, <2>1
  <2>3. \A k \in 1..1 : Cut(<<f>>[k], c[k - 1], c[k], out)
    <3>1. \A k \in 1..1 : k = 1
      OBVIOUS
    <3> QED BY <1>1, <1>3, <2>1, <3>1
  <2>4. Spans(c, <<f>>, out)
    BY <1>1, <2>1, <2>2, <2>3 DEF Spans
  <2> QED BY <1>1, <2>1, <2>4 DEF Covers
<1> QED BY <1>2, <1>3

LEMMA CoversSplit ==
  ASSUME NEW out \in Batch, NEW s \in Seq(Element), NEW t \in Seq(Element), NEW a, NEW b,
         Covers(s \o t, a, b, out)
  PROVE  \E m : Covers(s, a, m, out) /\ Covers(t, m, b, out)
<1> DEFINE u == s \o t
           M == Len(s)
           N == Len(t)
<1>1. PICK c : Spans(c, u, out) /\ c[0] = a /\ c[Len(u)] = b
  BY DEF Covers
<1>2. /\ M \in Nat /\ N \in Nat /\ Len(u) = M + N
      /\ \A k \in 1..M : u[k] = s[k]
      /\ \A k \in 1..N : u[M + k] = t[k]
  OBVIOUS
<1> HIDE DEF u, M, N
<1>3. /\ c \in [0..(M + N) -> 0..Len(out)]
      /\ \A i, j \in 0..(M + N) : i <= j => c[i] <= c[j]
      /\ \A k \in 1..(M + N) : Cut(u[k], c[k - 1], c[k], out)
  BY <1>1, <1>2 DEF Spans
<1> DEFINE d == [i \in 0..M |-> c[i]]
           e == [i \in 0..N |-> c[M + i]]
<1>4. /\ \A i \in 0..M : i \in 0..(M + N)
      /\ \A i \in 0..N : M + i \in 0..(M + N)
  BY <1>2
<1>5. d \in [0..M -> 0..Len(out)] /\ e \in [0..N -> 0..Len(out)]
  BY <1>3, <1>4
<1>6. /\ \A i \in 0..M : d[i] = c[i]
      /\ \A i \in 0..N : e[i] = c[M + i]
  OBVIOUS
<1> HIDE DEF d, e
<1>7. Spans(d, s, out)
  <2>1. \A i, j \in 0..M : i <= j => d[i] <= d[j]
    BY <1>3, <1>4, <1>6
  <2>2. ASSUME NEW k \in 1..M PROVE Cut(s[k], d[k - 1], d[k], out)
    <3>1. k \in 1..(M + N) /\ k \in 0..M /\ k - 1 \in 0..M
      BY <1>2
    <3>2. Cut(u[k], c[k - 1], c[k], out)
      BY <1>3, <3>1
    <3> QED BY <1>2, <1>6, <3>1, <3>2
  <2> QED BY <1>5, <2>1, <2>2 DEF Spans, M
<1>8. Spans(e, t, out)
  <2>1. ASSUME NEW i \in 0..N, NEW j \in 0..N, i <= j PROVE e[i] <= e[j]
    <3>1. M + i <= M + j /\ M + i \in 0..(M + N) /\ M + j \in 0..(M + N)
      BY <1>2, <2>1
    <3> QED BY <1>3, <1>6, <3>1
  <2>2. ASSUME NEW k \in 1..N PROVE Cut(t[k], e[k - 1], e[k], out)
    <3>1. M + k \in 1..(M + N) /\ k \in 0..N /\ k - 1 \in 0..N /\ (M + k) - 1 = M + (k - 1)
      BY <1>2
    <3>2. Cut(u[M + k], c[(M + k) - 1], c[M + k], out)
      BY <1>3, <3>1
    <3> QED BY <1>2, <1>6, <3>1, <3>2
  <2> QED BY <1>5, <2>1, <2>2 DEF Spans, N
<1>9. d[0] = a /\ d[M] = c[M] /\ e[0] = c[M] /\ e[N] = b
  <2>1. 0 \in 0..M /\ M \in 0..M /\ 0 \in 0..N /\ N \in 0..N /\ M + 0 = M
    BY <1>2
  <2> QED BY <1>1, <1>2, <1>6, <2>1
<1>10. Covers(s, a, c[M], out)
  BY <1>7, <1>9 DEF Covers, M
<1>11. Covers(t, c[M], b, out)
  BY <1>8, <1>9 DEF Covers, N
<1> QED BY <1>10, <1>11

LEMMA CoversJoin ==
  ASSUME NEW out \in Batch, NEW s \in Seq(Element), NEW t \in Seq(Element), NEW a, NEW m, NEW b,
         Covers(s, a, m, out), Covers(t, m, b, out)
  PROVE  Covers(s \o t, a, b, out)
<1> DEFINE u == s \o t
           M == Len(s)
           N == Len(t)
<1>1. PICK d : Spans(d, s, out) /\ d[0] = a /\ d[M] = m
  BY DEF Covers
<1>2. PICK e : Spans(e, t, out) /\ e[0] = m /\ e[N] = b
  BY DEF Covers
<1>3. /\ M \in Nat /\ N \in Nat /\ Len(u) = M + N
      /\ \A k \in 1..M : u[k] = s[k]
      /\ \A k \in 1..N : u[M + k] = t[k]
  OBVIOUS
<1> HIDE DEF u
<1>4. /\ d \in [0..M -> 0..Len(out)] /\ e \in [0..N -> 0..Len(out)]
      /\ \A i, j \in 0..M : i <= j => d[i] <= d[j]
      /\ \A i, j \in 0..N : i <= j => e[i] <= e[j]
      /\ \A k \in 1..M : Cut(s[k], d[k - 1], d[k], out)
      /\ \A k \in 1..N : Cut(t[k], e[k - 1], e[k], out)
  BY <1>1, <1>2 DEF Spans
<1> HIDE DEF M, N
<1> DEFINE c == [i \in 0..(M + N) |-> IF i <= M THEN d[i] ELSE e[i - M]]
<1>5. ASSUME NEW i \in 0..(M + N)
      PROVE  \/ i <= M /\ i \in 0..M /\ c[i] = d[i]
             \/ i > M /\ i - M \in 1..N /\ i - M \in 0..N /\ c[i] = e[i - M]
  BY <1>3
<1>6. c[0] = a /\ c[M] = m /\ c[M + N] = b
  <2>1. 0 \in 0..(M + N) /\ M \in 0..(M + N) /\ M + N \in 0..(M + N) /\ 0 <= M /\ M <= M
    BY <1>3
  <2>2. c[0] = a /\ c[M] = m
    BY <1>1, <2>1
  <2>3. CASE N = 0
    BY <1>2, <1>3, <2>2, <2>3
  <2>4. CASE N # 0
    <3>1. ~(M + N <= M) /\ (M + N) - M = N
      BY <1>3, <2>4
    <3> QED BY <1>2, <2>1, <2>2, <3>1
  <2> QED BY <2>3, <2>4
<1>7. c \in [0..(M + N) -> 0..Len(out)]
  BY <1>3, <1>4
<1> HIDE DEF c
<1>8. 0 \in 0..N /\ M \in 0..M /\ e[0] = m /\ d[M] = m
  BY <1>1, <1>2, <1>3
<1>9. ASSUME NEW i \in 0..N PROVE e[0] <= e[i] /\ e[i] \in Int
  <2>1. 0 <= i /\ 0 \in 0..N
    BY <1>3
  <2> QED BY <1>4, <2>1
<1>10. ASSUME NEW i \in 0..M PROVE d[i] <= d[M] /\ d[i] \in Int
  <2>1. i <= M /\ M \in 0..M
    BY <1>3
  <2> QED BY <1>4, <2>1
<1>11. ASSUME NEW i \in 0..(M + N), NEW j \in 0..(M + N), i <= j PROVE c[i] <= c[j]
  <2>1. CASE j <= M /\ j \in 0..M /\ c[j] = d[j]
    <3>1. i \in 0..M /\ c[i] = d[i]
      BY <1>3, <1>5, <1>11, <2>1
    <3> QED BY <1>4, <1>11, <2>1, <3>1
  <2>2. CASE j > M /\ j - M \in 0..N /\ c[j] = e[j - M]
    <3>1. CASE i \in 0..M /\ c[i] = d[i]
      <4>1. d[i] <= m /\ d[i] \in Int
        BY <1>8, <1>10, <3>1
      <4>2. m <= e[j - M] /\ e[j - M] \in Int /\ m \in Int
        BY <1>8, <1>9, <2>2
      <4> QED BY <2>2, <3>1, <4>1, <4>2
    <3>2. CASE i > M /\ i - M \in 0..N /\ c[i] = e[i - M]
      <4>1. i - M <= j - M
        BY <1>3, <1>11
      <4> QED BY <1>4, <2>2, <3>2, <4>1
    <3> QED BY <1>5, <3>1, <3>2
  <2> QED BY <1>5, <2>1, <2>2
<1>12. ASSUME NEW k \in 1..(M + N) PROVE Cut(u[k], c[k - 1], c[k], out)
  <2>1. k \in 0..(M + N) /\ k - 1 \in 0..(M + N)
    BY <1>3
  <2>2. CASE k <= M
    <3>1. k \in 1..M /\ k - 1 <= M /\ ~(k > M) /\ ~(k - 1 > M)
      BY <1>3, <2>2
    <3>2. c[k] = d[k] /\ c[k - 1] = d[k - 1]
      BY <1>5, <2>1, <3>1
    <3> QED BY <1>3, <1>4, <3>1, <3>2
  <2>3. CASE ~(k <= M)
    <3>1. k - M \in 1..N /\ M + (k - M) = k /\ (k - M) - 1 = (k - 1) - M /\ ~(k <= M)
      BY <1>3, <2>3
    <3>2. c[k] = e[k - M]
      BY <1>5, <2>1, <3>1
    <3>3. c[k - 1] = e[(k - M) - 1]
      <4>1. CASE k - 1 <= M
        <5>1. k - 1 = M /\ (k - M) - 1 = 0
          BY <1>3, <2>3, <4>1
        <5> QED BY <1>6, <1>8, <5>1
      <4>2. CASE ~(k - 1 <= M)
        BY <1>5, <2>1, <3>1, <4>2
      <4> QED BY <4>1, <4>2
    <3>4. Cut(t[k - M], e[(k - M) - 1], e[k - M], out)
      BY <1>4, <3>1
    <3>5. u[M + (k - M)] = t[k - M]
      BY <1>3, <3>1
    <3> QED BY <3>1, <3>2, <3>3, <3>4, <3>5
  <2> QED BY <2>2, <2>3
<1>13. Spans(c, u, out)
  BY <1>3, <1>7, <1>11, <1>12 DEF Spans
<1>14. Covers(u, a, b, out)
  BY <1>3, <1>6, <1>13 DEF Covers
<1> QED BY <1>14 DEF u

(* More is sent. *)
LEMMA CoversLonger ==
  ASSUME NEW out \in Batch, NEW f \in FrameType, NEW s \in Seq(Element), NEW a, NEW b, Covers(s, a, b, out)
  PROVE  Covers(s, a, b, Append(out, f))
<1>1. PICK c : Spans(c, s, out) /\ c[0] = a /\ c[Len(s)] = b
  BY DEF Covers
<1>2. /\ c \in [0..Len(s) -> 0..Len(out)]
      /\ \A i, j \in 0..Len(s) : i <= j => c[i] <= c[j]
      /\ \A k \in 1..Len(s) : Cut(s[k], c[k - 1], c[k], out)
  BY <1>1 DEF Spans
<1>3. out \in Seq(FrameType) /\ Len(Append(out, f)) = Len(out) + 1 /\ Len(out) \in Nat /\ Len(s) \in Nat
  BY DEF Batch
<1>4. c \in [0..Len(s) -> 0..Len(Append(out, f))]
  BY <1>2, <1>3
<1>5. ASSUME NEW k \in 1..Len(s) PROVE Cut(s[k], c[k - 1], c[k], Append(out, f))
  <2>1. k - 1 \in 0..Len(s) /\ k \in 0..Len(s) /\ k - 1 <= k
    BY <1>3
  <2>2. c[k - 1] \in Nat /\ c[k] \in Nat /\ c[k - 1] <= c[k] /\ c[k] <= Len(out)
    BY <1>2, <1>3, <2>1, SMTT(30)
  <2>3. SubSeq(Append(out, f), c[k - 1] + 1, c[k]) = SubSeq(out, c[k - 1] + 1, c[k])
    BY <1>3, <2>2, PartOfLonger, ZenonT(40)
  <2>4. Cut(s[k], c[k - 1], c[k], out)
    BY <1>2
  <2> QED BY <2>3, <2>4, Zenon DEF Cut
<1>6. Spans(c, s, Append(out, f))
  BY <1>2, <1>4, <1>5 DEF Spans
<1> QED BY <1>1, <1>6 DEF Covers

(* The pieces of a message, put together. *)
LEMMA CoversMessage ==
  ASSUME NEW out \in Batch, NEW s \in Seq(Piece), NEW a, NEW b, Covers(s, a, b, out)
  PROVE  FlattenSeq([i \in DOMAIN s |-> s[i].frames]) = SubSeq(out, a + 1, b)
<1>1. PICK c : Spans(c, s, out) /\ c[0] = a /\ c[Len(s)] = b
  BY DEF Covers
<1>2. /\ c \in [0..Len(s) -> 0..Len(out)]
      /\ \A i, j \in 0..Len(s) : i <= j => c[i] <= c[j]
      /\ \A k \in 1..Len(s) : Cut(s[k], c[k - 1], c[k], out)
  BY <1>1 DEF Spans
<1> DEFINE ss == [i \in DOMAIN s |-> s[i].frames]
           L == Len(s)
           h == [k \in 0..L |-> SubSeq(out, a + 1, c[k])]
<1>3. out \in Seq(FrameType) /\ L \in Nat /\ Len(out) \in Nat /\ DOMAIN s = 1..L
  BY DEF Batch
<1>4. ASSUME NEW k \in 1..L PROVE s[k].frames \in Seq(FrameType) /\ s[k].frames = SubSeq(out, c[k - 1] + 1, c[k])
  <2>1. s[k] \in Piece
    BY <1>3
  <2> QED BY <1>2, <2>1 DEF Piece, Cut, Batch
<1>5. ss \in Seq(Seq(FrameType)) /\ Len(ss) = L
  <2>1. ss = [i \in 1..L |-> s[i].frames]
    BY <1>3
  <2> HIDE DEF ss
  <2> QED BY <1>3, <1>4, <2>1
<1>6. \A k \in 1..L : ss[k] = SubSeq(out, c[k - 1] + 1, c[k])
  BY <1>3, <1>4
<1>7. \A k \in 0..L : c[k] \in Nat /\ a <= c[k] /\ c[k] <= Len(out) /\ a \in Nat
  <2>1. 0 \in 0..L /\ \A k \in 0..L : 0 <= k
    BY <1>3
  <2> QED BY <1>1, <1>2, <1>3, <2>1
<1>8. \A k \in 0..L : h[k] = SubSeq(out, a + 1, c[k])
  OBVIOUS
<1>9. h \in [0..L -> Seq(FrameType)]
  <2>1. \A k \in 0..L : SubSeq(out, a + 1, c[k]) \in Seq(FrameType)
    BY <1>3, <1>7, PartTyped
  <2> QED BY <2>1
<1> HIDE DEF ss, h, L
<1>10. h[0] = <<>>
  <2>1. 0 \in 0..L
    BY <1>3
  <2> QED BY <1>1, <1>3, <1>7, <1>8, <2>1, PartNone
<1>11. ASSUME NEW k \in 1..L PROVE h[k] = h[k - 1] \o ss[k]
  <2>1. k \in 0..L /\ k - 1 \in 0..L /\ k - 1 <= k
    BY <1>3
  <2>2. c[k - 1] <= c[k]
    BY <1>2, <2>1 DEF L
  <2>3. SubSeq(out, a + 1, c[k - 1]) \o SubSeq(out, c[k - 1] + 1, c[k]) = SubSeq(out, a + 1, c[k])
    BY <1>3, <1>7, <2>1, <2>2, PartsJoin
  <2> QED BY <1>6, <1>8, <2>1, <2>3
<1>12. JoinUpTo(h, L, ss, FrameType)
  BY <1>9, <1>10, <1>11 DEF JoinUpTo
<1>13. FlattenSeq(ss) = h[L]
  BY <1>5, <1>12, JoinIs
<1>14. h[L] = SubSeq(out, a + 1, b)
  <2>1. L \in 0..L /\ c[L] = b
    BY <1>1, <1>3 DEF L
  <2> QED BY <1>8, <2>1
<1> QED BY <1>13, <1>14 DEF ss

-----------------------------------------------------------------------------
(* The relay numbers its data, and sends nothing behind a CLOSE or a BYE.   *)
Outgoing ==
  /\ Counting(UnitsOf(relay.out))
  /\ \A i \in 1..Len(relay.out) : relay.out[i].kind \in {"CLOSE", "BYE"} => i = Len(relay.out)

(* Which transport a state belongs to, and when something is in hand.       *)
Lanes ==
  /\ pc \in {"bridge", "session", "transport"} => mode = "none"
  /\ mode # "ws" => /\ sock.down = <<>> /\ message = <<>> /\ ~torn /\ ~sock.garbled
                    /\ pc # "receiving" /\ relay.pushed = 0
  /\ mode = "ws" => ~(Exchanging /\ ex.req.kind = "down")
  /\ pc \in Dialing => cursor = 0
  /\ message # <<>> => pc = "receiving"
  /\ inbox # <<>> => \/ pc = "frames"
                     \/ Exchanging /\ ex.cont = "pong" /\ ex.req.kind \in {"up", "message"}
  /\ sock.garbled => torn /\ message = <<>>
  /\ relay.pushed <= Len(relay.out)
  /\ cursor <= Len(relay.out)

(* The answer of a long poll continues where the cursor is.                 *)
Answers ==
  Exchanging /\ ex.req.kind = "down" =>
    /\ ex.req.cursor = cursor
    /\ answer.status = "ok" =>
         /\ answer.cursor \in cursor..Len(relay.out)
         /\ answer.frames = SubSeq(relay.out, cursor + 1, answer.cursor)
         /\ answer.lane => answer.cursor = Len(relay.out) /\ Has(relay.out, "CLOSE")

UnitsTo(n) == UnitsOf(SubSeq(relay.out, 1, n))

(* What the client has filed away of the first q frames.                    *)
Filed(q) ==
  /\ Rising(got \o readBuf \o UnitsOf(inbox), Len(UnitsTo(q)))
  /\ ~torn => \E p \in 0..q : got \o readBuf = UnitsTo(p) /\ inbox = SubSeq(relay.out, p + 1, q)
  /\ eof /\ ~torn => q = Len(relay.out) /\ (Has(relay.out, "CLOSE") \/ Has(relay.out, "BYE"))

(* The message being collected goes from q to m, the socket has the frames  *)
(* from m to e: all that the relay has pushed until the client hangs up.    *)
Track(q, m, e) ==
  /\ Covers(message, q, m, relay.out) /\ Covers(sock.down, m, e, relay.out)
  /\ mode # "ws" => q = cursor
  /\ mode = "ws" => e <= relay.pushed /\ (~closed => e = relay.pushed)

Downlink == \E q, m, e : Track(q, m, e) /\ Filed(q)

LEMMA UnitsToSplit ==
  ASSUME Types, Outgoing, NEW a \in Nat, NEW b \in Nat, a <= b, b <= Len(relay.out)
  PROVE  LET t == UnitsOf(SubSeq(relay.out, a + 1, b)) IN
         /\ UnitsTo(a) \in Seq(Nat) /\ UnitsTo(b) \in Seq(Nat) /\ t \in Seq(Nat)
         /\ UnitsTo(b) = UnitsTo(a) \o t
         /\ Len(UnitsTo(b)) = Len(UnitsTo(a)) + Len(t)
         /\ Counting(UnitsTo(a))
         /\ \A i \in 1..Len(t) : t[i] = Len(UnitsTo(a)) + i
         /\ Len(UnitsTo(b)) <= Len(UnitsOf(relay.out))
<1> DEFINE out == relay.out
           L == Len(out)
           s == SubSeq(out, 0 + 1, a)
           t == SubSeq(out, a + 1, b)
           u == SubSeq(out, 0 + 1, b)
           r == SubSeq(out, b + 1, L)
<1>1. out \in Seq(FrameType) /\ L \in Nat
  BY DEF Types, NetworkTypes, RelayType, Batch
<1>2. a <= L /\ b <= L /\ b \in Nat /\ 0 \in Nat /\ 0 <= a /\ 0 <= b /\ 0 + 1 = 1 /\ 0 <= L
  BY <1>1
<1> HIDE DEF out, L
<1>3. s \in Seq(FrameType) /\ t \in Seq(FrameType) /\ u \in Seq(FrameType) /\ r \in Seq(FrameType)
  BY <1>1, <1>2, PartTyped DEF L, out
<1>4. s \o t = u
  BY <1>1, <1>2, PartsJoin DEF L, out
<1>5. u \o r = out
  <2>1. u \o r = SubSeq(out, 0 + 1, L)
    BY <1>1, <1>2, PartsJoin
  <2> QED BY <1>1, <1>2, <2>1, PartWhole DEF L
<1>6. UnitsTo(a) = UnitsOf(s) /\ UnitsTo(b) = UnitsOf(u)
  BY <1>2 DEF UnitsTo, out
<1> HIDE DEF s, t, u, r
<1>7. /\ UnitsOf(s) \in Seq(Nat) /\ UnitsOf(t) \in Seq(Nat) /\ UnitsOf(u) \in Seq(Nat)
      /\ UnitsOf(r) \in Seq(Nat)
  BY <1>3, UnitsTyped
<1>8. UnitsOf(u) = UnitsOf(s) \o UnitsOf(t)
  BY <1>3, <1>4, UnitsOfConcat
<1>9. UnitsOf(out) = UnitsOf(u) \o UnitsOf(r)
  BY <1>3, <1>5, UnitsOfConcat
<1>10. Counting(UnitsOf(out))
  BY DEF Outgoing, out
<1>11. Counting(UnitsOf(u))
  BY <1>7, <1>9, <1>10, CountingParts
<1>12. Counting(UnitsOf(s)) /\ \A i \in 1..Len(UnitsOf(t)) : UnitsOf(t)[i] = Len(UnitsOf(s)) + i
  BY <1>7, <1>8, <1>11, CountingParts
<1>13. Len(UnitsOf(u)) = Len(UnitsOf(s)) + Len(UnitsOf(t))
  BY <1>7, <1>8
<1>14. Len(UnitsOf(u)) <= Len(UnitsOf(out))
  <2>1. Len(UnitsOf(out)) = Len(UnitsOf(u)) + Len(UnitsOf(r)) /\ Len(UnitsOf(u)) \in Nat /\ Len(UnitsOf(r)) \in Nat
    BY <1>7, <1>9
  <2> QED BY <2>1
<1> QED BY <1>6, <1>7, <1>8, <1>12, <1>13, <1>14 DEF t, out

LEMMA UnitsToAll ==
  ASSUME Types
  PROVE  UnitsTo(Len(relay.out)) = UnitsOf(relay.out)
<1>1. relay.out \in Seq(FrameType)
  BY DEF Types, NetworkTypes, RelayType, Batch
<1> QED BY <1>1, PartWhole, Zenon DEF UnitsTo

LEMMA Reads ==
  ASSUME Types
  PROVE  /\ got \o readBuf \in Seq(Nat) /\ UnitsOf(inbox) \in Seq(Nat)
         /\ got \o readBuf \o UnitsOf(inbox) \in Seq(Nat)
         /\ inbox \in Seq(FrameType) /\ relay.out \in Seq(FrameType) /\ got \in Seq(Nat) /\ readBuf \in Seq(Nat)
<1>1. got \in Seq(Nat) /\ readBuf \in Seq(Nat) /\ inbox \in Batch /\ relay.out \in Batch
  BY DEF Types, ClientTypes, NetworkTypes, RelayType
<1>2. UnitsOf(inbox) \in Seq(Nat) /\ got \o readBuf \in Seq(Nat)
  BY <1>1, BatchCounts
<1> HIDE DEF UnitsOf
<1>3. \A a, b \in Seq(Nat) : a \o b \in Seq(Nat)
  OBVIOUS
<1> QED BY <1>1, <1>2, <1>3 DEF Batch

(* What the relay's other steps leave of what it sent. *)
LEMMA CommitKeeps ==
  ASSUME Types, NEW req \in wire, RelayCommits(req)
  PROVE  relay'.out = relay.out /\ relay'.pushed = relay.pushed
<1>1. req \in UpReq
  BY DEF RelayCommits, Types, NetworkTypes, DownReq, DeleteReq
<1>2. After(req.frames) \in RelayType /\ After(req.frames).out = relay.out /\ After(req.frames).pushed = relay.pushed
  BY <1>1, AfterTyped DEF UpReq
<1> QED BY <1>2 DEF RelayCommits, RelayType

LEMMA TakeKeeps ==
  ASSUME Types, RelayTakes
  PROVE  /\ relay'.out = relay.out /\ relay'.pushed = relay.pushed
         /\ sock'.down = sock.down /\ sock'.garbled = sock.garbled
<1>1. sock \in SocketType /\ sock.up # <<>> /\ Head(sock.up) \in Batch
  BY DEF RelayTakes, Types, NetworkTypes, SocketType
<1>2. relay'.out = relay.out /\ relay'.pushed = relay.pushed
  BY <1>1, AfterTyped DEF RelayTakes
<1> QED BY <1>1, <1>2 DEF RelayTakes, SocketType

LEMMA LanesSent ==
  ASSUME Types, Lanes, pc \notin Dialing \cup {"wait", "receiving"}, NEW cont, NEW b \in Batch, Send(cont, b),
         mode' = mode, sock' = sock, message' = message, torn' = torn, relay' = relay, cursor' = cursor,
         inbox' # <<>> => cont = "pong"
  PROVE  Lanes'
<1>1. upSeq \in Nat
  BY DEF Types, ClientTypes
<1>2. CASE ex'.cont = cont /\ mode = "ws" /\ SentMessage(b)
  BY <1>2 DEF SentMessage, Lanes, Exchanging, Dialing
<1>3. CASE ex'.cont = cont /\ mode # "ws" /\ SentUp(b)
  BY <1>3 DEF SentUp, UpRequest, Lanes, Exchanging, Dialing
<1> QED BY <1>1, <1>2, <1>3, SendEffect, Zenon

LEMMA AnswersSent ==
  ASSUME Types, NEW cont, NEW b \in Batch, Send(cont, b)
  PROVE  Answers'
<1>1. upSeq \in Nat
  BY DEF Types, ClientTypes
<1>2. CASE mode = "ws" /\ SentMessage(b)
  BY <1>2 DEF SentMessage, Answers
<1>3. CASE mode # "ws" /\ SentUp(b)
  BY <1>3 DEF SentUp, UpRequest, Answers
<1> QED BY <1>1, <1>2, <1>3, SendEffect, Zenon

LEMMA OutgoingStep ==
  ASSUME Types, Outgoing, Next
  PROVE  Outgoing'
<1>1. ASSUME NEW ok \in BOOLEAN, FetchBridge(ok) PROVE Outgoing'
  BY <1>1 DEF FetchBridge, Outgoing, client, history, socket, Reply
<1>2. ASSUME NEW o \in {"refused", "lost", "malformed", "welcome"}, CreateSession(o) PROVE Outgoing'
  BY <1>2 DEF CreateSession, Outgoing, client, history, socket, Reply
<1>3. ASSUME NEW m \in {"none", "https", "ws"}, ChooseTransport(m) PROVE Outgoing'
  BY <1>3 DEF ChooseTransport, Outgoing, client, history, socket, Reply
<1>4. ASSUME NEW ok \in BOOLEAN, Upgrade(ok) PROVE Outgoing'
  BY <1>4 DEF Upgrade, Outgoing, client, history, socket, Reply
<1>5. CASE Write
  BY <1>5 DEF Write, Outgoing, client, history, socket, Reply
<1>6. CASE Read
  BY <1>6 DEF Read, Outgoing, client, history, socket, Reply
<1>7. ASSUME NEW n \in 1..Len(readBuf), ReadBuffered(n) PROVE Outgoing'
  BY <1>7 DEF ReadBuffered, Outgoing, client, history, socket, Reply
<1>8. CASE ReadEnds
  BY <1>8 DEF ReadEnds, Outgoing, client, history, socket, Reply
<1>9. CASE Pump
  BY <1>9 DEF Pump, Outgoing, client, history, socket, Reply
<1>10. CASE FilePing
  BY <1>10 DEF FilePing, Outgoing, client, history, socket, Reply
<1>11. CASE FileFrame
  BY <1>11 DEF FileFrame, Outgoing, client, history, socket, Reply
<1>12. CASE PumpDone
  BY <1>12 DEF PumpDone, Outgoing, client, history, socket, Reply
<1>13. CASE Close
  BY <1>13 DEF Close, Outgoing, client, history, socket, Reply
<1>14. CASE DeleteSession
  BY <1>14 DEF DeleteSession, Outgoing, client, history, socket, Reply
<1>15. CASE SendDone
  BY <1>15 DEF SendDone, Outgoing, client, history, socket, Reply
<1>16. CASE SendRefused
  BY <1>16 DEF SendRefused, Outgoing, client, history, socket, Reply
<1>17. CASE SendBusy
  BY <1>17 DEF SendBusy, Outgoing, client, history, socket, Reply
<1>18. CASE ReceiveDone
  BY <1>18 DEF ReceiveDone, Outgoing, client, history, socket, Reply
<1>19. CASE ReceiveBusy
  BY <1>19 DEF ReceiveBusy, Outgoing, client, history, socket, Reply
<1>20. CASE ReceiveRefused
  BY <1>20 DEF ReceiveRefused, Outgoing, client, history, socket, Reply
<1>21. CASE DeleteDone
  BY <1>21 DEF DeleteDone, Outgoing, client, history, socket, Reply
<1>22. ASSUME NEW arrives \in BOOLEAN, GiveUp(arrives) PROVE Outgoing'
  BY <1>22 DEF GiveUp, Outgoing, client, history, socket, Reply
<1>23. CASE DeadlinePasses
  BY <1>23 DEF DeadlinePasses, Outgoing, client, history, socket, Reply
<1>24. CASE SocketWrites
  BY <1>24 DEF SocketWrites, Outgoing, client, history, socket, Reply
<1>25. CASE SocketWriteFails
  BY <1>25 DEF SocketWriteFails, Outgoing, client, history, socket, Reply
<1>26. CASE SocketReads
  BY <1>26 DEF SocketReads, Outgoing, client, history, socket, Reply
<1>27. ASSUME NEW b \in BOOLEAN, SocketReadsGarbage(b) PROVE Outgoing'
  BY <1>27 DEF SocketReadsGarbage, Outgoing, client, history, socket, Reply
<1>28. ASSUME NEW b \in BOOLEAN, SocketTimeOut(b) PROVE Outgoing'
  BY <1>28 DEF SocketTimeOut, Outgoing, client, history, socket, Reply
<1>29. ASSUME NEW req \in wire, RelayCommits(req) PROVE Outgoing'
  BY <1>29, CommitKeeps DEF Outgoing
<1>30. ASSUME NEW req \in wire, RelayRepeats(req) PROVE Outgoing'
  BY <1>30 DEF RelayRepeats, Outgoing, client, history, socket, Reply
<1>31. ASSUME NEW req \in wire, RelaySeesGap(req) PROVE Outgoing'
  BY <1>31 DEF RelaySeesGap, Outgoing, client, history, socket, Reply
<1>32. ASSUME NEW req \in wire, RelayBusy(req) PROVE Outgoing'
  BY <1>32 DEF RelayBusy, Outgoing, client, history, socket, Reply
<1>33. ASSUME NEW req \in wire, RelayGone(req) PROVE Outgoing'
  BY <1>33 DEF RelayGone, Outgoing, client, history, socket, Reply
<1>34. ASSUME NEW req \in wire, RelayDelivers(req) PROVE Outgoing'
  BY <1>34 DEF RelayDelivers, Outgoing, client, history, socket, Reply
<1>35. ASSUME NEW req \in wire, RelayDeletes(req) PROVE Outgoing'
  BY <1>35 DEF RelayDeletes, Outgoing, client, history, socket, Reply
<1>36. CASE RelayForgets
  BY <1>36 DEF RelayForgets, Outgoing, client, history, socket, Reply
<1>37. CASE RelayTakes
  BY <1>37, TakeKeeps DEF Outgoing
<1>38. ASSUME NEW cut \in 0..Len(relay.out), NEW to \in 0..Len(relay.out), NEW within \in BOOLEAN, RelayPushes(cut, to, within) PROVE Outgoing'
  BY <1>38 DEF RelayPushes, Outgoing, client, history, socket, Reply
<1>39. ASSUME NEW op \in {"ping", "text", "close"}, NEW i \in 1..(Len(sock.down) + 1), RelayInserts(op, i) PROVE Outgoing'
  BY <1>39 DEF RelayInserts, Outgoing, client, history, socket, Reply
<1>40. ASSUME NEW k \in {"DATA", "PING", "CLOSE", "BYE"}, RelayProduces(k) PROVE Outgoing'
  <2> DEFINE out == relay.out
             v == IF k = "DATA" THEN Len(UnitsOf(out)) + 1 ELSE 0
             f == Frame(k, v)
  <2>1. /\ f \in FrameType /\ relay'.out = Append(out, f)
        /\ UnitsOf(relay'.out) = IF k = "DATA" THEN Append(UnitsOf(out), f.val) ELSE UnitsOf(out)
    BY <1>40, Produced
  <2>2. UnitsOf(out) \in Seq(Nat) /\ out \in Seq(FrameType)
    BY BatchCounts DEF Types, NetworkTypes, RelayType, Batch
  <2>3. Counting(UnitsOf(out)) /\ ~Has(out, "CLOSE") /\ ~Has(out, "BYE")
    BY <1>40 DEF Outgoing, RelayProduces
  <2>4. f.val = v
    BY DEF Frame
  <2> HIDE DEF f, out
  <2>5. Counting(UnitsOf(relay'.out))
    <3>1. CASE k = "DATA"
      <4>1. UnitsOf(relay'.out) = Append(UnitsOf(out), Len(UnitsOf(out)) + 1)
        BY <2>1, <2>4, <3>1, Zenon
      <4> DEFINE u == UnitsOf(out)
      <4> HIDE DEF u
      <4>2. u \in Seq(Nat) /\ (\A i \in 1..Len(u) : u[i] = i) /\ Len(u) \in Nat
        BY <2>2, <2>3 DEF Counting, u
      <4>3. \A i \in 1..(Len(u) + 1) : Append(u, Len(u) + 1)[i] = i
        BY <4>2
      <4>4. Len(Append(u, Len(u) + 1)) = Len(u) + 1
        BY <4>2
      <4> QED BY <4>1, <4>3, <4>4 DEF Counting, u
    <3>2. CASE k # "DATA"
      BY <2>1, <2>3, <3>2, Zenon
    <3> QED BY <3>1, <3>2
  <2>6. ASSUME NEW i \in 1..Len(Append(out, f)), Append(out, f)[i].kind \in {"CLOSE", "BYE"}
        PROVE  i = Len(Append(out, f))
    <3>1. Len(Append(out, f)) = Len(out) + 1 /\ Len(out) \in Nat
      BY <2>1, <2>2
    <3>2. CASE i \in 1..Len(out)
      <4>1. Append(out, f)[i] = out[i]
        BY <2>1, <2>2, <3>2
      <4> QED BY <2>3, <2>6, <3>2, <4>1 DEF Has
    <3>3. CASE i = Len(out) + 1
      BY <3>1, <3>3
    <3> QED BY <3>1, <3>2, <3>3
  <2> QED BY <2>1, <2>5, <2>6 DEF Outgoing
<1> QED BY <1>1, <1>2, <1>3, <1>4, <1>5, <1>6, <1>7, <1>8, <1>9, <1>10, <1>11, <1>12, <1>13, <1>14, <1>15, <1>16, <1>17, <1>18, <1>19, <1>20, <1>21, <1>22, <1>23, <1>24, <1>25, <1>26, <1>27, <1>28, <1>29, <1>30, <1>31, <1>32, <1>33, <1>34, <1>35, <1>36, <1>37, <1>38, <1>39, <1>40 DEF Next, Dial, Call, Step, RelayHandles

LEMMA LanesStep ==
  ASSUME Types, Exchange, Release, Lanes, Answers, Next
  PROVE  Lanes'
<1>1. ASSUME NEW ok \in BOOLEAN, FetchBridge(ok) PROVE Lanes'
  BY <1>1 DEF FetchBridge, Lanes, Exchanging, Dialing, Types, ClientTypes, NetworkTypes, RelayType, SocketType, Settled, Reply, Status, SendFails, Resume, client, history, socket
<1>2. ASSUME NEW o \in {"refused", "lost", "malformed", "welcome"}, CreateSession(o) PROVE Lanes'
  BY <1>2 DEF CreateSession, Lanes, Exchanging, Dialing, Types, ClientTypes, NetworkTypes, RelayType, SocketType, Settled, Reply, Status, SendFails, Resume, client, history, socket
<1>3. ASSUME NEW m \in {"none", "https", "ws"}, ChooseTransport(m) PROVE Lanes'
  BY <1>3 DEF ChooseTransport, Lanes, Exchanging, Dialing, Types, ClientTypes, NetworkTypes, RelayType, SocketType, Settled, Reply, Status, SendFails, Resume, client, history, socket
<1>4. ASSUME NEW ok \in BOOLEAN, Upgrade(ok) PROVE Lanes'
  BY <1>4 DEF Upgrade, Lanes, Exchanging, Dialing, Types, ClientTypes, NetworkTypes, RelayType, SocketType, Settled, Reply, Status, SendFails, Resume, client, history, socket
<1>5. CASE Write
  <2>1. Chunk \in Batch
    BY <1>5, ChunkTyped, WriteSends, Zenon
  <2>2. Send("write", Chunk)
    BY <1>5, ChunkTyped, WriteSends, Zenon
  <2>3. /\ pc = "idle" /\ mode' = mode /\ sock' = sock /\ message' = message /\ torn' = torn
        /\ relay' = relay /\ cursor' = cursor /\ inbox' = inbox
    BY <1>5 DEF Write, socket, history
  <2>4. inbox = <<>>
    BY <2>3 DEF Lanes, Exchanging
  <2>5. CASE Send("write", Chunk)
    BY <2>1, <2>3, <2>4, <2>5, LanesSent DEF Dialing
  <2> QED BY <2>2, <2>5
<1>6. CASE Read
  BY <1>6 DEF Read, Lanes, Exchanging, Dialing, Types, ClientTypes, NetworkTypes, RelayType, SocketType, Settled, Reply, Status, SendFails, Resume, client, history, socket
<1>7. ASSUME NEW n \in 1..Len(readBuf), ReadBuffered(n) PROVE Lanes'
  <2>1. <<Frame("WINDOW", debt + n)>> \in Batch
    BY <1>7, ReadEffect, Zenon
  <2>2. Send("grant", <<Frame("WINDOW", debt + n)>>) \/ (pc' = "idle" /\ UNCHANGED <<ex, answer, wire, upSeq>>)
    BY <1>7, ReadEffect, Zenon
  <2>3. /\ pc = "reading" /\ mode' = mode /\ sock' = sock /\ message' = message /\ torn' = torn
        /\ relay' = relay /\ cursor' = cursor /\ inbox' = inbox
    BY <1>7 DEF ReadBuffered, socket, history
  <2>4. inbox = <<>>
    BY <2>3 DEF Lanes, Exchanging
  <2>5. CASE Send("grant", <<Frame("WINDOW", debt + n)>>)
    BY <2>1, <2>3, <2>4, <2>5, LanesSent DEF Dialing
  <2>6. CASE pc' = "idle" /\ UNCHANGED <<ex, answer, wire, upSeq>>
    BY <2>3, <2>6 DEF Lanes, Exchanging, Dialing
  <2> QED BY <2>2, <2>5, <2>6
<1>8. CASE ReadEnds
  BY <1>8 DEF ReadEnds, Lanes, Exchanging, Dialing, Types, ClientTypes, NetworkTypes, RelayType, SocketType, Settled, Reply, Status, SendFails, Resume, client, history, socket
<1>9. CASE Pump
  <2>1. /\ pc = "reading" /\ mode' = mode /\ sock' = sock /\ message' = message /\ torn' = torn
        /\ relay' = relay /\ cursor' = cursor /\ inbox' = inbox
    BY <1>9 DEF Pump, socket, client
  <2>2. inbox = <<>> /\ message = <<>>
    BY <2>1 DEF Lanes, Exchanging
  <2>3. IF mode = "ws" THEN pc' = "receiving" ELSE pc' = "wait" /\ ex'.req.kind = "down"
    BY <1>9 DEF Pump, Await, DownRequest
  <2> QED BY <2>1, <2>2, <2>3 DEF Lanes, Exchanging, Dialing
<1>10. CASE FilePing
  <2>1. <<Frame("PONG", 0)>> \in Batch
    BY <1>10, PingEffect, Zenon
  <2>2. Send("pong", <<Frame("PONG", 0)>>)
    BY <1>10, PingEffect, Zenon
  <2>3. /\ pc = "frames" /\ mode' = mode /\ sock' = sock /\ message' = message /\ torn' = torn
        /\ relay' = relay /\ cursor' = cursor
    BY <1>10 DEF FilePing, socket, history
  <2>5. CASE Send("pong", <<Frame("PONG", 0)>>)
    BY <2>1, <2>3, <2>5, LanesSent DEF Dialing
  <2> QED BY <2>2, <2>5
<1>11. CASE FileFrame
  BY <1>11 DEF FileFrame, Lanes, Exchanging, Dialing, Types, ClientTypes, NetworkTypes, RelayType, SocketType, Settled, Reply, Status, SendFails, Resume, client, history, socket
<1>12. CASE PumpDone
  BY <1>12 DEF PumpDone, Lanes, Exchanging, Dialing, Types, ClientTypes, NetworkTypes, RelayType, SocketType, Settled, Reply, Status, SendFails, Resume, client, history, socket
<1>13. CASE Close
  <2>1. <<Frame("CLOSE", 0)>> \in Batch
    BY <1>13, CloseEffect, Zenon
  <2>2. Send("close", <<Frame("CLOSE", 0)>>) \/ (pc' = "closing" /\ UNCHANGED <<ex, answer, wire, upSeq>>)
    BY <1>13, CloseEffect, Zenon
  <2>3. /\ pc = "idle" /\ mode' = mode /\ sock' = sock /\ message' = message /\ torn' = torn
        /\ relay' = relay /\ cursor' = cursor /\ inbox' = inbox
    BY <1>13 DEF Close, socket, history
  <2>4. inbox = <<>>
    BY <2>3 DEF Lanes, Exchanging
  <2>5. CASE Send("close", <<Frame("CLOSE", 0)>>)
    BY <2>1, <2>3, <2>4, <2>5, LanesSent DEF Dialing
  <2>6. CASE pc' = "closing" /\ UNCHANGED <<ex, answer, wire, upSeq>>
    BY <2>3, <2>6 DEF Lanes, Exchanging, Dialing
  <2> QED BY <2>2, <2>5, <2>6
<1>14. CASE DeleteSession
  <2>1. /\ pc = "closing" /\ pc' = "wait" /\ ex'.req.kind = "delete" /\ inbox' = inbox
        /\ mode' = mode /\ message' = message /\ torn' = torn /\ relay' = relay /\ cursor' = cursor
    BY <1>14 DEF DeleteSession, Await
  <2>2. inbox = <<>> /\ message = <<>>
    BY <2>1 DEF Lanes, Exchanging
  <2>3. sock'.down = <<>> /\ sock'.garbled = sock.garbled
    BY <1>14 DEF DeleteSession, Types, NetworkTypes, SocketType
  <2> QED BY <2>1, <2>2, <2>3 DEF Lanes, Exchanging, Dialing
<1>15. CASE SendDone
  BY <1>15 DEF SendDone, Lanes, Exchanging, Dialing, Types, ClientTypes, NetworkTypes, RelayType, SocketType, Settled, Reply, Status, SendFails, Resume, client, history, socket
<1>16. CASE SendRefused
  BY <1>16 DEF SendRefused, Lanes, Exchanging, Dialing, Types, ClientTypes, NetworkTypes, RelayType, SocketType, Settled, Reply, Status, SendFails, Resume, client, history, socket
<1>17. CASE SendBusy
  <2>1. /\ pc = "wait" /\ ex.req.kind = "up" /\ mode' = mode /\ sock' = sock /\ message' = message /\ torn' = torn
        /\ relay' = relay /\ cursor' = cursor /\ inbox' = inbox
    BY <1>17 DEF SendBusy, socket, client
  <2>2. CASE ex.tries < Tries /\ ~expired
    <3>1. pc' = "wait" /\ ex'.cont = ex.cont /\ ex'.req = ex.req
      BY <1>17, <2>2 DEF SendBusy, Await
    <3> QED BY <2>1, <3>1 DEF Lanes, Exchanging, Dialing
  <2>3. CASE ~(ex.tries < Tries /\ ~expired)
    <3>1. pc' = Resume
      BY <1>17, <2>3 DEF SendBusy, SendFails
    <3> QED BY <2>1, <3>1 DEF Lanes, Exchanging, Dialing, Resume
  <2> QED BY <2>2, <2>3
<1>18. CASE ReceiveDone
  <2>1. pc = "wait" /\ ex.req.kind = "down" /\ answer.cursor <= Len(relay.out)
    BY <1>18 DEF ReceiveDone, Answers, Exchanging
  <2>2. /\ pc' = "frames" /\ mode' = mode /\ sock' = sock /\ message' = message /\ torn' = torn
        /\ relay' = relay /\ cursor' = answer.cursor
    BY <1>18 DEF ReceiveDone, socket
  <2> QED BY <2>1, <2>2 DEF Lanes, Exchanging, Dialing
<1>19. CASE ReceiveBusy
  BY <1>19 DEF ReceiveBusy, Lanes, Exchanging, Dialing, Types, ClientTypes, NetworkTypes, RelayType, SocketType, Settled, Reply, Status, SendFails, Resume, client, history, socket
<1>20. CASE ReceiveRefused
  BY <1>20 DEF ReceiveRefused, Lanes, Exchanging, Dialing, Types, ClientTypes, NetworkTypes, RelayType, SocketType, Settled, Reply, Status, SendFails, Resume, client, history, socket
<1>21. CASE DeleteDone
  BY <1>21 DEF DeleteDone, Lanes, Exchanging, Dialing, Types, ClientTypes, NetworkTypes, RelayType, SocketType, Settled, Reply, Status, SendFails, Resume, client, history, socket
<1>22. ASSUME NEW arrives \in BOOLEAN, GiveUp(arrives) PROVE Lanes'
  BY <1>22 DEF GiveUp, Lanes, Exchanging, Dialing, Types, ClientTypes, NetworkTypes, RelayType, SocketType, Settled, Reply, Status, SendFails, Resume, client, history, socket
<1>23. CASE DeadlinePasses
  BY <1>23 DEF DeadlinePasses, Lanes, Exchanging, Dialing, Types, ClientTypes, NetworkTypes, RelayType, SocketType, Settled, Reply, Status, SendFails, Resume, client, history, socket
<1>24. CASE SocketWrites
  BY <1>24 DEF SocketWrites, Lanes, Exchanging, Dialing, Types, ClientTypes, NetworkTypes, RelayType, SocketType, Settled, Reply, Status, SendFails, Resume, client, history, socket
<1>25. CASE SocketWriteFails
  BY <1>25 DEF SocketWriteFails, Lanes, Exchanging, Dialing, Types, ClientTypes, NetworkTypes, RelayType, SocketType, Settled, Reply, Status, SendFails, Resume, client, history, socket
<1>26. CASE SocketReads
  <2>1. /\ pc = "receiving" /\ mode' = mode /\ relay' = relay /\ cursor' = cursor
        /\ sock'.garbled = sock.garbled /\ ~sock.garbled
    BY <1>26, SocketReadsEffect DEF SocketReads, client
  <2>2. mode = "ws"
    BY <2>1 DEF Lanes
  <2>3. inbox = <<>>
    BY <2>1 DEF Lanes, Exchanging
  <2>4. \/ pc' = pc /\ inbox' = inbox
        \/ pc' = "idle" /\ inbox' = inbox /\ message' = <<>>
        \/ pc' = "frames" /\ message' = <<>>
    BY <1>26, SocketReadsEffect DEF ReceiveFails, MessageDone
  <2> QED BY <2>1, <2>2, <2>3, <2>4 DEF Lanes, Exchanging, Dialing
<1>27. ASSUME NEW b \in BOOLEAN, SocketReadsGarbage(b) PROVE Lanes'
  <2>1. /\ pc = "receiving" /\ mode' = mode /\ relay' = relay /\ cursor' = cursor
        /\ sock'.garbled = sock.garbled /\ sock.garbled
    BY <1>27 DEF SocketReadsGarbage, client, Types, NetworkTypes, SocketType
  <2>2. mode = "ws" /\ message = <<>> /\ torn
    BY <2>1 DEF Lanes
  <2>3. inbox = <<>>
    BY <2>1 DEF Lanes, Exchanging
  <2>4. /\ message' = <<>> /\ torn'
        /\ (pc' = "idle" /\ inbox' = inbox) \/ pc' = "frames"
    BY <1>27, <2>2 DEF SocketReadsGarbage, ReceiveFails
  <2> QED BY <2>1, <2>2, <2>3, <2>4 DEF Lanes, Exchanging, Dialing
<1>28. ASSUME NEW b \in BOOLEAN, SocketTimeOut(b) PROVE Lanes'
  BY <1>28 DEF SocketTimeOut, Lanes, Exchanging, Dialing, Types, ClientTypes, NetworkTypes, RelayType, SocketType, Settled, Reply, Status, SendFails, Resume, client, history, socket
<1>29. ASSUME NEW req \in wire, RelayCommits(req) PROVE Lanes'
  <2>1. relay'.out = relay.out /\ relay'.pushed = relay.pushed
    BY <1>29, CommitKeeps
  <2> QED BY <1>29, <2>1 DEF RelayCommits, Reply, Lanes, Exchanging, client, history, socket
<1>30. ASSUME NEW req \in wire, RelayRepeats(req) PROVE Lanes'
  BY <1>30 DEF RelayRepeats, Lanes, Exchanging, Dialing, Types, ClientTypes, NetworkTypes, RelayType, SocketType, Settled, Reply, Status, SendFails, Resume, client, history, socket
<1>31. ASSUME NEW req \in wire, RelaySeesGap(req) PROVE Lanes'
  BY <1>31 DEF RelaySeesGap, Lanes, Exchanging, Dialing, Types, ClientTypes, NetworkTypes, RelayType, SocketType, Settled, Reply, Status, SendFails, Resume, client, history, socket
<1>32. ASSUME NEW req \in wire, RelayBusy(req) PROVE Lanes'
  BY <1>32 DEF RelayBusy, Lanes, Exchanging, Dialing, Types, ClientTypes, NetworkTypes, RelayType, SocketType, Settled, Reply, Status, SendFails, Resume, client, history, socket
<1>33. ASSUME NEW req \in wire, RelayGone(req) PROVE Lanes'
  BY <1>33 DEF RelayGone, Lanes, Exchanging, Dialing, Types, ClientTypes, NetworkTypes, RelayType, SocketType, Settled, Reply, Status, SendFails, Resume, client, history, socket
<1>34. ASSUME NEW req \in wire, RelayDelivers(req) PROVE Lanes'
  BY <1>34 DEF RelayDelivers, Lanes, Exchanging, Dialing, Types, ClientTypes, NetworkTypes, RelayType, SocketType, Settled, Reply, Status, SendFails, Resume, client, history, socket
<1>35. ASSUME NEW req \in wire, RelayDeletes(req) PROVE Lanes'
  BY <1>35 DEF RelayDeletes, Lanes, Exchanging, Dialing, Types, ClientTypes, NetworkTypes, RelayType, SocketType, Settled, Reply, Status, SendFails, Resume, client, history, socket
<1>36. CASE RelayForgets
  BY <1>36 DEF RelayForgets, Lanes, Exchanging, Dialing, Types, ClientTypes, NetworkTypes, RelayType, SocketType, Settled, Reply, Status, SendFails, Resume, client, history, socket
<1>37. CASE RelayTakes
  <2> QED BY <1>37, TakeKeeps DEF RelayTakes, Lanes, Exchanging, client, history
<1>38. ASSUME NEW cut \in 0..Len(relay.out), NEW to \in 0..Len(relay.out), NEW within \in BOOLEAN, RelayPushes(cut, to, within) PROVE Lanes'
  BY <1>38 DEF RelayPushes, Lanes, Exchanging, Dialing, Types, ClientTypes, NetworkTypes, RelayType, SocketType, Settled, Reply, Status, SendFails, Resume, client, history, socket
<1>39. ASSUME NEW op \in {"ping", "text", "close"}, NEW i \in 1..(Len(sock.down) + 1), RelayInserts(op, i) PROVE Lanes'
  BY <1>39 DEF RelayInserts, Lanes, Exchanging, Dialing, Types, ClientTypes, NetworkTypes, RelayType, SocketType, Settled, Reply, Status, SendFails, Resume, client, history, socket
<1>40. ASSUME NEW k \in {"DATA", "PING", "CLOSE", "BYE"}, RelayProduces(k) PROVE Lanes'
  BY <1>40 DEF RelayProduces, Lanes, Exchanging, Dialing, Types, ClientTypes, NetworkTypes, RelayType, SocketType, Settled, Reply, Status, SendFails, Resume, client, history, socket
<1> QED BY <1>1, <1>2, <1>3, <1>4, <1>5, <1>6, <1>7, <1>8, <1>9, <1>10, <1>11, <1>12, <1>13, <1>14, <1>15, <1>16, <1>17, <1>18, <1>19, <1>20, <1>21, <1>22, <1>23, <1>24, <1>25, <1>26, <1>27, <1>28, <1>29, <1>30, <1>31, <1>32, <1>33, <1>34, <1>35, <1>36, <1>37, <1>38, <1>39, <1>40 DEF Next, Dial, Call, Step, RelayHandles

LEMMA AnswersStep ==
  ASSUME Types, Exchange, Lanes, Answers, Next
  PROVE  Answers'
<1>1. ASSUME NEW ok \in BOOLEAN, FetchBridge(ok) PROVE Answers'
  BY <1>1 DEF FetchBridge, Answers, Exchanging, Settled, Reply, Status, SendFails, Resume, NoAnswer, client, history, socket
<1>2. ASSUME NEW o \in {"refused", "lost", "malformed", "welcome"}, CreateSession(o) PROVE Answers'
  BY <1>2 DEF CreateSession, Answers, Exchanging, Settled, Reply, Status, SendFails, Resume, NoAnswer, client, history, socket
<1>3. ASSUME NEW m \in {"none", "https", "ws"}, ChooseTransport(m) PROVE Answers'
  BY <1>3 DEF ChooseTransport, Answers, Exchanging, Settled, Reply, Status, SendFails, Resume, NoAnswer, client, history, socket
<1>4. ASSUME NEW ok \in BOOLEAN, Upgrade(ok) PROVE Answers'
  BY <1>4 DEF Upgrade, Answers, Exchanging, Settled, Reply, Status, SendFails, Resume, NoAnswer, client, history, socket
<1>5. CASE Write
  <2>1. Chunk \in Batch
    BY <1>5, ChunkTyped, WriteSends, Zenon
  <2>2. Send("write", Chunk)
    BY <1>5, ChunkTyped, WriteSends, Zenon
  <2>5. CASE Send("write", Chunk)
    BY <2>1, <2>5, AnswersSent
  <2> QED BY <2>2, <2>5
<1>6. CASE Read
  BY <1>6 DEF Read, Answers, Exchanging, Settled, Reply, Status, SendFails, Resume, NoAnswer, client, history, socket
<1>7. ASSUME NEW n \in 1..Len(readBuf), ReadBuffered(n) PROVE Answers'
  <2>1. <<Frame("WINDOW", debt + n)>> \in Batch
    BY <1>7, ReadEffect, Zenon
  <2>2. Send("grant", <<Frame("WINDOW", debt + n)>>) \/ (pc' = "idle" /\ UNCHANGED <<ex, answer, wire, upSeq>>)
    BY <1>7, ReadEffect, Zenon
  <2>5. CASE Send("grant", <<Frame("WINDOW", debt + n)>>)
    BY <2>1, <2>5, AnswersSent
  <2>6. CASE pc' = "idle" /\ UNCHANGED <<ex, answer, wire, upSeq>>
    BY <2>6 DEF Answers, Exchanging
  <2> QED BY <2>2, <2>5, <2>6
<1>8. CASE ReadEnds
  BY <1>8 DEF ReadEnds, Answers, Exchanging, Settled, Reply, Status, SendFails, Resume, NoAnswer, client, history, socket
<1>9. CASE Pump
  <2>1. IF mode = "ws" THEN pc' = "receiving" ELSE pc' = "wait" /\ ex'.req = DownRequest /\ answer' = NoAnswer
    BY <1>9 DEF Pump, Await
  <2>2. DownRequest.cursor = cursor /\ cursor' = cursor
    BY <1>9 DEF Pump, DownRequest, client
  <2> QED BY <2>1, <2>2 DEF Answers, Exchanging, NoAnswer
<1>10. CASE FilePing
  <2>1. <<Frame("PONG", 0)>> \in Batch
    BY <1>10, PingEffect, Zenon
  <2>2. Send("pong", <<Frame("PONG", 0)>>)
    BY <1>10, PingEffect, Zenon
  <2>5. CASE Send("pong", <<Frame("PONG", 0)>>)
    BY <2>1, <2>5, AnswersSent
  <2> QED BY <2>2, <2>5
<1>11. CASE FileFrame
  BY <1>11 DEF FileFrame, Answers, Exchanging, Settled, Reply, Status, SendFails, Resume, NoAnswer, client, history, socket
<1>12. CASE PumpDone
  BY <1>12 DEF PumpDone, Answers, Exchanging, Settled, Reply, Status, SendFails, Resume, NoAnswer, client, history, socket
<1>13. CASE Close
  <2>1. <<Frame("CLOSE", 0)>> \in Batch
    BY <1>13, CloseEffect, Zenon
  <2>2. Send("close", <<Frame("CLOSE", 0)>>) \/ (pc' = "closing" /\ UNCHANGED <<ex, answer, wire, upSeq>>)
    BY <1>13, CloseEffect, Zenon
  <2>5. CASE Send("close", <<Frame("CLOSE", 0)>>)
    BY <2>1, <2>5, AnswersSent
  <2>6. CASE pc' = "closing" /\ UNCHANGED <<ex, answer, wire, upSeq>>
    BY <2>6 DEF Answers, Exchanging
  <2> QED BY <2>2, <2>5, <2>6
<1>14. CASE DeleteSession
  <2>1. ex'.req.kind = "delete"
    BY <1>14 DEF DeleteSession, Await
  <2> QED BY <2>1 DEF Answers
<1>15. CASE SendDone
  BY <1>15 DEF SendDone, Answers, Exchanging, Settled, Reply, Status, SendFails, Resume, NoAnswer, client, history, socket
<1>16. CASE SendRefused
  BY <1>16 DEF SendRefused, Answers, Exchanging, Settled, Reply, Status, SendFails, Resume, NoAnswer, client, history, socket
<1>17. CASE SendBusy
  <2>1. pc' # "wait" \/ ex'.req.kind = "up"
    BY <1>17 DEF SendBusy, Await, SendFails, Resume
  <2> QED BY <2>1 DEF Answers, Exchanging
<1>18. CASE ReceiveDone
  BY <1>18 DEF ReceiveDone, Answers, Exchanging, Settled, Reply, Status, SendFails, Resume, NoAnswer, client, history, socket
<1>19. CASE ReceiveBusy
  BY <1>19 DEF ReceiveBusy, Answers, Exchanging, Settled, Reply, Status, SendFails, Resume, NoAnswer, client, history, socket
<1>20. CASE ReceiveRefused
  BY <1>20 DEF ReceiveRefused, Answers, Exchanging, Settled, Reply, Status, SendFails, Resume, NoAnswer, client, history, socket
<1>21. CASE DeleteDone
  BY <1>21 DEF DeleteDone, Answers, Exchanging, Settled, Reply, Status, SendFails, Resume, NoAnswer, client, history, socket
<1>22. ASSUME NEW arrives \in BOOLEAN, GiveUp(arrives) PROVE Answers'
  BY <1>22 DEF GiveUp, Answers, Exchanging, Settled, Reply, Status, SendFails, Resume, NoAnswer, client, history, socket
<1>23. CASE DeadlinePasses
  BY <1>23 DEF DeadlinePasses, Answers, Exchanging, Settled, Reply, Status, SendFails, Resume, NoAnswer, client, history, socket
<1>24. CASE SocketWrites
  BY <1>24 DEF SocketWrites, Answers, Exchanging, Settled, Reply, Status, SendFails, Resume, NoAnswer, client, history, socket
<1>25. CASE SocketWriteFails
  BY <1>25 DEF SocketWriteFails, Answers, Exchanging, Settled, Reply, Status, SendFails, Resume, NoAnswer, client, history, socket
<1>26. CASE SocketReads
  <2>1. pc' # "wait"
    BY <1>26, SocketReadsEffect DEF ReceiveFails, MessageDone, SocketReads
  <2> QED BY <2>1 DEF Answers, Exchanging
<1>27. ASSUME NEW b \in BOOLEAN, SocketReadsGarbage(b) PROVE Answers'
  <2>1. pc' # "wait"
    BY <1>27 DEF SocketReadsGarbage, ReceiveFails
  <2> QED BY <2>1 DEF Answers, Exchanging
<1>28. ASSUME NEW b \in BOOLEAN, SocketTimeOut(b) PROVE Answers'
  BY <1>28 DEF SocketTimeOut, Answers, Exchanging, Settled, Reply, Status, SendFails, Resume, NoAnswer, client, history, socket
<1>29. ASSUME NEW req \in wire, RelayCommits(req) PROVE Answers'
  <2>1. relay'.out = relay.out
    BY <1>29, CommitKeeps
  <2>2. pc' = pc /\ ex' = ex /\ cursor' = cursor /\ (ex.req.kind = "down" => answer' = answer)
    BY <1>29 DEF RelayCommits, Reply, client
  <2> QED BY <2>1, <2>2 DEF Answers, Exchanging
<1>30. ASSUME NEW req \in wire, RelayRepeats(req) PROVE Answers'
  BY <1>30 DEF RelayRepeats, Answers, Exchanging, Settled, Reply, Status, SendFails, Resume, NoAnswer, client, history, socket
<1>31. ASSUME NEW req \in wire, RelaySeesGap(req) PROVE Answers'
  BY <1>31 DEF RelaySeesGap, Answers, Exchanging, Settled, Reply, Status, SendFails, Resume, NoAnswer, client, history, socket
<1>32. ASSUME NEW req \in wire, RelayBusy(req) PROVE Answers'
  BY <1>32 DEF RelayBusy, Answers, Exchanging, Settled, Reply, Status, SendFails, Resume, NoAnswer, client, history, socket
<1>33. ASSUME NEW req \in wire, RelayGone(req) PROVE Answers'
  BY <1>33 DEF RelayGone, Answers, Exchanging, Settled, Reply, Status, SendFails, Resume, NoAnswer, client, history, socket
<1>34. ASSUME NEW req \in wire, RelayDelivers(req) PROVE Answers'
  <2>1. PICK k \in {Len(relay.out)} \cup (({req.cursor + 1}) \cap (1..Len(relay.out))) :
             Reply(req, [status |-> "ok", cursor |-> k,
                         frames |-> SubSeq(relay.out, req.cursor + 1, k),
                         lane |-> k = Len(relay.out) /\ Has(relay.out, "CLOSE")])
    BY <1>34 DEF RelayDelivers
  <2>2. relay' = relay /\ pc' = pc /\ ex' = ex /\ cursor' = cursor
    BY <1>34, <2>1 DEF RelayDelivers, Reply, client
  <2>3. CASE Exchanging /\ ex.req = req
    <3>1. /\ answer'.cursor = k /\ answer'.frames = SubSeq(relay.out, req.cursor + 1, k)
          /\ answer'.lane => k = Len(relay.out) /\ Has(relay.out, "CLOSE")
      BY <2>1, <2>3 DEF Reply, Exchanging
    <3>2. Exchanging /\ ex.req.kind = "down" => req.cursor = cursor
      BY <2>3 DEF Answers
    <3>3. cursor \in Nat /\ cursor <= Len(relay.out) /\ Len(relay.out) \in Nat
      BY DEF Lanes, Types, ClientTypes, NetworkTypes, RelayType, Batch
    <3>4. req.cursor = cursor => k \in cursor..Len(relay.out)
      BY <3>3
    <3> QED BY <2>2, <3>1, <3>2, <3>4 DEF Answers, Exchanging
  <2>4. CASE ~(Exchanging /\ ex.req = req)
    <3>1. answer' = answer
      BY <2>1, <2>4 DEF Reply, Exchanging
    <3> QED BY <2>2, <3>1 DEF Answers, Exchanging
  <2> QED BY <2>3, <2>4
<1>35. ASSUME NEW req \in wire, RelayDeletes(req) PROVE Answers'
  BY <1>35 DEF RelayDeletes, Answers, Exchanging, Settled, Reply, Status, SendFails, Resume, NoAnswer, client, history, socket
<1>36. CASE RelayForgets
  BY <1>36 DEF RelayForgets, Answers, Exchanging, Settled, Reply, Status, SendFails, Resume, NoAnswer, client, history, socket
<1>37. CASE RelayTakes
  <2>1. relay'.out = relay.out /\ pc' = pc /\ ex' = ex /\ cursor' = cursor /\ answer' = answer
    BY <1>37, TakeKeeps DEF RelayTakes, client
  <2> QED BY <2>1 DEF Answers, Exchanging
<1>38. ASSUME NEW cut \in 0..Len(relay.out), NEW to \in 0..Len(relay.out), NEW within \in BOOLEAN, RelayPushes(cut, to, within) PROVE Answers'
  BY <1>38 DEF RelayPushes, Answers, Exchanging, Settled, Reply, Status, SendFails, Resume, NoAnswer, client, history, socket
<1>39. ASSUME NEW op \in {"ping", "text", "close"}, NEW i \in 1..(Len(sock.down) + 1), RelayInserts(op, i) PROVE Answers'
  BY <1>39 DEF RelayInserts, Answers, Exchanging, Settled, Reply, Status, SendFails, Resume, NoAnswer, client, history, socket
<1>40. ASSUME NEW k \in {"DATA", "PING", "CLOSE", "BYE"}, RelayProduces(k) PROVE Answers'
  <2>1. PICK f \in FrameType : relay'.out = Append(relay.out, f)
    BY <1>40, Produced
  <2>2. pc' = pc /\ ex' = ex /\ cursor' = cursor /\ answer' = answer /\ ~Has(relay.out, "CLOSE")
    BY <1>40 DEF RelayProduces, client
  <2>3. relay.out \in Seq(FrameType) /\ cursor \in Nat
    BY DEF Types, ClientTypes, NetworkTypes, RelayType, Batch
  <2>4. Len(relay'.out) = Len(relay.out) + 1 /\ Len(relay.out) \in Nat
    BY <2>1, <2>3
  <2>5. ASSUME NEW n \in cursor..Len(relay.out)
        PROVE  SubSeq(relay'.out, cursor + 1, n) = SubSeq(relay.out, cursor + 1, n) /\ n \in cursor..Len(relay'.out)
    <3>1. n \in Nat /\ cursor <= n /\ n <= Len(relay.out)
      BY <2>3, <2>4
    <3> QED BY <2>1, <2>3, <2>4, <3>1, PartOfLonger
  <2> QED BY <2>2, <2>5 DEF Answers, Exchanging
<1> QED BY <1>1, <1>2, <1>3, <1>4, <1>5, <1>6, <1>7, <1>8, <1>9, <1>10, <1>11, <1>12, <1>13, <1>14, <1>15, <1>16, <1>17, <1>18, <1>19, <1>20, <1>21, <1>22, <1>23, <1>24, <1>25, <1>26, <1>27, <1>28, <1>29, <1>30, <1>31, <1>32, <1>33, <1>34, <1>35, <1>36, <1>37, <1>38, <1>39, <1>40 DEF Next, Dial, Call, Step, RelayHandles

-----------------------------------------------------------------------------
(* What the client files away.                                              *)
LEMMA FiledKept ==
  ASSUME NEW q, Filed(q), got' \o readBuf' = got \o readBuf, inbox' = inbox, torn' = torn, eof' = eof,
         relay'.out = relay.out
  PROVE  Filed(q)'
<1>1. UnitsOf(inbox)' = UnitsOf(inbox) /\ (got \o readBuf)' = got \o readBuf
  OBVIOUS
<1>2. (got \o readBuf \o UnitsOf(inbox))' = got \o readBuf \o UnitsOf(inbox)
  BY <1>1
<1>3. \A n : UnitsTo(n)' = UnitsTo(n)
  BY DEF UnitsTo
<1> QED BY <1>1, <1>2, <1>3, Zenon DEF Filed

(* A part that is more than empty begins with the frame behind its start.   *)
LEMMA PartHead ==
  ASSUME NEW T, NEW out \in Seq(T), NEW a \in Nat, NEW b \in Nat, a <= b, b <= Len(out),
         SubSeq(out, a + 1, b) # <<>>
  PROVE  /\ a + 1 <= b /\ Head(SubSeq(out, a + 1, b)) = out[a + 1]
         /\ Tail(SubSeq(out, a + 1, b)) = SubSeq(out, a + 2, b)
<1>1. a + 1 <= b
  OBVIOUS
<1> DEFINE s == SubSeq(out, a + 1, b)
<1>2. s \in Seq(T) /\ Len(s) = b - a /\ \A i \in 1..(b - a) : s[i] = out[a + i]
  OBVIOUS
<1> HIDE DEF s
<1>3. Head(s) = out[a + 1]
  BY <1>1, <1>2
<1>4. Tail(s) = SubSeq(out, a + 2, b)
  <2> DEFINE t == Tail(s)
             u == SubSeq(out, (a + 1) + 1, b)
  <2>1. t \in Seq(T) /\ Len(t) = b - a - 1 /\ \A i \in 1..(b - a - 1) : t[i] = s[i + 1]
    BY <1>1, <1>2
  <2>2. u \in Seq(T) /\ Len(u) = b - (a + 1) /\ \A i \in 1..(b - (a + 1)) : u[i] = out[(a + 1) + i]
    BY <1>1, PartTyped
  <2> HIDE DEF t, u
  <2>3. Len(t) = Len(u)
    BY <2>1, <2>2
  <2>4. ASSUME NEW i \in 1..Len(t) PROVE t[i] = u[i]
    <3>1. i \in 1..(b - a - 1) /\ i + 1 \in 1..(b - a) /\ i \in 1..(b - (a + 1)) /\ a + (i + 1) = (a + 1) + i
      BY <1>1, <2>1
    <3> QED BY <1>2, <2>1, <2>2, <3>1
  <2>5. t = u
    BY <2>1, <2>2, <2>3, <2>4, SeqEqual
  <2> QED BY <2>5 DEF t, u
<1> QED BY <1>1, <1>3, <1>4 DEF s

LEMMA PartOne ==
  ASSUME NEW T, NEW out \in Seq(T), NEW a \in 1..Len(out)
  PROVE  SubSeq(out, a, a) = <<out[a]>>
<1> DEFINE s == SubSeq(out, a, a)
           t == <<out[a]>>
<1>1. s \in Seq(T) /\ Len(s) = 1 /\ s[1] = out[a]
  OBVIOUS
<1>2. t \in Seq(T) /\ Len(t) = 1 /\ t[1] = out[a]
  OBVIOUS
<1> HIDE DEF s, t
<1>3. s = t
  BY <1>1, <1>2, SeqEqual
<1> QED BY <1>3 DEF s, t

LEMMA HeadTail ==
  ASSUME NEW T, NEW s \in Seq(T), s # <<>>
  PROVE  Head(s) \in T /\ Tail(s) \in Seq(T) /\ s = <<Head(s)>> \o Tail(s)
OBVIOUS

LEMMA BetweenNat ==
  ASSUME NEW q \in Nat, NEW p \in 0..q
  PROVE  p \in Nat /\ p <= q
OBVIOUS

(* The first frame of the inbox is filed away; behind a BYE the rest goes.  *)
LEMMA FiledOne ==
  ASSUME Types, Outgoing, NEW q \in Nat, q <= Len(relay.out), Filed(q), inbox # <<>>,
         got' \o readBuf' = (got \o readBuf) \o UnitsOf(<<Head(inbox)>>),
         inbox' = Tail(inbox) \/ (inbox' = <<>> /\ Head(inbox).kind = "BYE"),
         torn' = torn, eof' => eof \/ Head(inbox).kind \in {"CLOSE", "BYE"}, relay'.out = relay.out
  PROVE  Filed(q)'
<1> DEFINE out == relay.out
           h == Head(inbox)
           rest == Tail(inbox)
           g == got \o readBuf
<1>1. g \in Seq(Nat) /\ inbox \in Seq(FrameType) /\ out \in Seq(FrameType) /\ Len(out) \in Nat
  BY Reads
<1>2. h \in FrameType /\ rest \in Seq(FrameType) /\ inbox = <<h>> \o rest /\ <<h>> \in Seq(FrameType)
  BY <1>1, HeadTail
<1>3. got' \o readBuf' = g \o UnitsOf(<<h>>) /\ (inbox' = rest \/ (inbox' = <<>> /\ h.kind = "BYE"))
  OBVIOUS
<1>4. /\ Rising(g \o UnitsOf(inbox), Len(UnitsTo(q)))
      /\ ~torn => \E p \in 0..q : g = UnitsTo(p) /\ inbox = SubSeq(relay.out, p + 1, q)
      /\ eof /\ ~torn => q = Len(relay.out) /\ (Has(relay.out, "CLOSE") \/ Has(relay.out, "BYE"))
  BY DEF Filed
<1>5. eof' => eof \/ h.kind \in {"CLOSE", "BYE"}
  OBVIOUS
<1>6. ~torn => inbox # <<>>
  OBVIOUS
<1> HIDE DEF out, h, rest, g
<1>7. UnitsOf(<<h>>) \in Seq(Nat) /\ UnitsOf(rest) \in Seq(Nat) /\ UnitsOf(inbox) = UnitsOf(<<h>>) \o UnitsOf(rest)
  BY <1>2, UnitsTyped, UnitsOfConcat
<1>8. (g \o UnitsOf(<<h>>)) \o UnitsOf(rest) = g \o UnitsOf(inbox)
  <2> DEFINE x == UnitsOf(<<h>>)
             y == UnitsOf(rest)
  <2>1. g \in Seq(Nat) /\ x \in Seq(Nat) /\ y \in Seq(Nat) /\ UnitsOf(inbox) = x \o y
    BY <1>1, <1>7
  <2> HIDE DEF x, y
  <2>2. (g \o x) \o y = g \o (x \o y)
    BY <2>1, ConcatAssociative, SMTT(30)
  <2> QED BY <2>1, <2>2 DEF x, y
<1>9. g \o UnitsOf(<<h>>) \in Seq(Nat) /\ Len(UnitsTo(q)) \in Nat
  <2>1. UnitsTo(q) \in Seq(Nat)
    BY UnitsToSplit
  <2> QED BY <1>1, <1>7, <2>1
<1>10. UnitsTo(q)' = UnitsTo(q)
  BY DEF UnitsTo
<1>11. Rising(got' \o readBuf' \o UnitsOf(inbox'), Len(UnitsTo(q)))
  <2>1. CASE inbox' = rest
    <3>1. got' \o readBuf' \o UnitsOf(inbox') = g \o UnitsOf(inbox)
      BY <1>3, <1>8, <2>1, Zenon
    <3> QED BY <1>4, <3>1, Zenon
  <2>2. CASE inbox' = <<>>
    <3>1. got' \o readBuf' \o UnitsOf(inbox') = g \o UnitsOf(<<h>>)
      <4> DEFINE x == g \o UnitsOf(<<h>>)
      <4>1. x \in Seq(Nat) /\ got' \o readBuf' = x
        BY <1>3, <1>9
      <4> HIDE DEF x
      <4>2. UnitsOf(inbox') = <<>> /\ x \o <<>> = x
        BY <2>2, <4>1, UnitsOfNone
      <4>3. got' \o readBuf' \o UnitsOf(inbox') = x \o <<>>
        BY <4>1, <4>2, Zenon
      <4> QED BY <4>2, <4>3 DEF x
    <3>2. Rising((g \o UnitsOf(<<h>>)) \o UnitsOf(rest), Len(UnitsTo(q)))
      BY <1>4, <1>8, Zenon
    <3>3. Rising(g \o UnitsOf(<<h>>), Len(UnitsTo(q)))
      BY <1>7, <1>9, <3>2, RisingPrefix
    <3> QED BY <3>1, <3>3, Zenon
  <2> QED BY <1>3, <2>1, <2>2, Zenon
<1>12. ASSUME ~torn
       PROVE  /\ \E p \in 0..q : got' \o readBuf' = UnitsTo(p) /\ inbox' = SubSeq(out, p + 1, q)
              /\ eof' => q = Len(out) /\ (Has(out, "CLOSE") \/ Has(out, "BYE"))
  <2>1. PICK p \in 0..q : g = UnitsTo(p) /\ inbox = SubSeq(out, p + 1, q)
    BY <1>4, <1>12 DEF out
  <2>2. p \in Nat /\ p <= q /\ SubSeq(out, p + 1, q) # <<>>
    <3>1. SubSeq(out, p + 1, q) # <<>>
      BY <1>6, <1>12, <2>1, Zenon
    <3> QED BY <3>1, BetweenNat
  <2>3. q <= Len(out)
    BY DEF out
  <2>4. p + 1 <= q /\ h = out[p + 1] /\ rest = SubSeq(out, p + 2, q)
    BY <1>1, <2>1, <2>2, <2>3, PartHead DEF h, rest
  <2>5. p + 1 \in 0..q /\ (p + 1) + 1 = p + 2 /\ p + 1 <= Len(out) /\ p + 1 \in Nat /\ p + 1 \in 1..Len(out)
    BY <1>1, <2>2, <2>3, <2>4
  <2>6. SubSeq(out, p + 1, p + 1) = <<h>>
    BY <1>1, <2>4, <2>5, PartOne
  <2>7. UnitsTo(p + 1) = UnitsTo(p) \o UnitsOf(<<h>>)
    <3>1. UnitsTo(p + 1) = UnitsTo(p) \o UnitsOf(SubSeq(relay.out, p + 1, p + 1))
      <4>1. p <= p + 1 /\ p + 1 <= Len(relay.out)
        BY <2>2, <2>5 DEF out
      <4> QED BY <2>2, <2>5, <4>1, UnitsToSplit
    <3> QED BY <2>6, <3>1, Zenon DEF out
  <2>8. got' \o readBuf' = UnitsTo(p + 1)
    BY <1>3, <2>1, <2>7, Zenon
  <2>9. h.kind \in {"CLOSE", "BYE"} => p + 1 = Len(out)
    BY <2>4, <2>5 DEF Outgoing, out
  <2>10. h.kind \in {"CLOSE", "BYE"} => q = Len(out)
    BY <1>1, <2>3, <2>4, <2>9
  <2>11. inbox' = SubSeq(out, (p + 1) + 1, q)
    <3>1. CASE inbox' = rest
      BY <2>4, <2>5, <3>1
    <3>2. CASE inbox' = <<>> /\ h.kind = "BYE"
      <4>1. p + 1 = q
        BY <2>9, <2>10, <3>2
      <4>2. SubSeq(out, (p + 1) + 1, p + 1) = <<>>
        BY <1>1, <2>5, PartNone
      <4> QED BY <3>2, <4>1, <4>2
    <3> QED BY <1>3, <3>1, <3>2
  <2>12. eof' => q = Len(out) /\ (Has(out, "CLOSE") \/ Has(out, "BYE"))
    <3>1. CASE eof
      BY <1>4, <1>12, <3>1 DEF out
    <3>2. CASE h.kind \in {"CLOSE", "BYE"}
      BY <2>4, <2>5, <2>10, <3>2 DEF Has
    <3> QED BY <1>5, <3>1, <3>2
  <2> QED BY <2>5, <2>8, <2>11, <2>12
<1>13. \A n : UnitsTo(n)' = UnitsTo(n)
  BY DEF UnitsTo
<1> QED BY <1>11, <1>12, <1>13, Zenon DEF Filed, out

(* The next frames have arrived. *)
LEMMA FiledMore ==
  ASSUME Types, Outgoing, NEW q \in Nat, NEW r \in Nat, q <= r, r <= Len(relay.out), Filed(q), inbox = <<>>,
         got' = got, readBuf' = readBuf, inbox' = SubSeq(relay.out, q + 1, r), torn' = torn,
         eof' => eof \/ (r = Len(relay.out) /\ Has(relay.out, "CLOSE")), relay'.out = relay.out
  PROVE  Filed(r)'
<1> DEFINE out == relay.out
           g == got \o readBuf
           t == UnitsOf(SubSeq(relay.out, q + 1, r))
<1>1. g \in Seq(Nat) /\ out \in Seq(FrameType) /\ Len(out) \in Nat
  BY Reads
<1>2. /\ Rising(g \o UnitsOf(inbox), Len(UnitsTo(q)))
      /\ ~torn => \E p \in 0..q : g = UnitsTo(p) /\ inbox = SubSeq(relay.out, p + 1, q)
      /\ eof /\ ~torn => q = Len(relay.out) /\ (Has(relay.out, "CLOSE") \/ Has(relay.out, "BYE"))
  BY DEF Filed
<1>3. /\ UnitsTo(q) \in Seq(Nat) /\ t \in Seq(Nat) /\ Len(UnitsTo(r)) = Len(UnitsTo(q)) + Len(t)
      /\ \A i \in 1..Len(t) : t[i] = Len(UnitsTo(q)) + i
  BY UnitsToSplit
<1>4. UnitsOf(inbox') = t /\ got' \o readBuf' = g
  BY Zenon
<1> HIDE DEF out, g, t
<1>5. Rising(g, Len(UnitsTo(q)))
  <2>1. g \o UnitsOf(inbox) = g
    BY <1>1, UnitsOfNone
  <2> QED BY <1>2, <2>1, Zenon
<1>6. Rising(g \o t, Len(UnitsTo(r)))
  <2>1. Len(UnitsTo(q)) \in Nat
    BY <1>3
  <2> QED BY <1>1, <1>3, <1>5, <2>1, RisingOn
<1>7. ASSUME ~torn
      PROVE  /\ \E p \in 0..r : g = UnitsTo(p) /\ inbox' = SubSeq(out, p + 1, r)
             /\ eof' => r = Len(out) /\ (Has(out, "CLOSE") \/ Has(out, "BYE"))
  <2>1. PICK p \in 0..q : g = UnitsTo(p) /\ inbox = SubSeq(out, p + 1, q)
    BY <1>2, <1>7 DEF out
  <2>2. p = q
    <3>1. p \in Nat /\ p <= q /\ q <= Len(out)
      BY DEF out
    <3>2. Len(SubSeq(out, p + 1, q)) = q - p
      BY <1>1, <3>1, PartTyped
    <3>3. Len(SubSeq(out, p + 1, q)) = 0
      BY <2>1
    <3> QED BY <3>1, <3>2, <3>3
  <2>3. eof => r = Len(out)
    BY <1>1, <1>2, <1>7 DEF out
  <2>4. q \in 0..r
    OBVIOUS
  <2> QED BY <1>2, <1>7, <2>1, <2>2, <2>3, <2>4 DEF out
<1>8. \A n : UnitsTo(n)' = UnitsTo(n)
  BY DEF UnitsTo
<1> QED BY <1>4, <1>6, <1>7, <1>8, Zenon DEF Filed, out

(* Frames that arrived are thrown away: the way down is torn. *)
LEMMA FiledLess ==
  ASSUME Types, Outgoing, NEW q \in Nat, NEW r \in Nat, q <= r, r <= Len(relay.out), Filed(q),
         got' = got, readBuf' = readBuf, inbox' = inbox, torn => torn', q # r => torn',
         eof' = eof, relay'.out = relay.out
  PROVE  Filed(r)'
<1>1. /\ Len(UnitsTo(q)) \in Nat /\ Len(UnitsTo(r)) \in Nat /\ Len(UnitsTo(q)) <= Len(UnitsTo(r))
  <2>1. /\ UnitsTo(q) \in Seq(Nat) /\ UnitsTo(r) \in Seq(Nat)
        /\ Len(UnitsTo(r)) = Len(UnitsTo(q)) + Len(UnitsOf(SubSeq(relay.out, q + 1, r)))
        /\ UnitsOf(SubSeq(relay.out, q + 1, r)) \in Seq(Nat)
    BY UnitsToSplit
  <2> QED BY <2>1
<1>2. Rising(got \o readBuf \o UnitsOf(inbox), Len(UnitsTo(r)))
  <2>1. Rising(got \o readBuf \o UnitsOf(inbox), Len(UnitsTo(q)))
    BY DEF Filed
  <2> QED BY <1>1, <2>1, Reads, RisingWider
<1>3. \A n : UnitsTo(n)' = UnitsTo(n)
  BY DEF UnitsTo
<1>4. CASE torn'
  BY <1>2, <1>3, <1>4, Zenon DEF Filed
<1>5. CASE ~torn'
  <2>1. q = r /\ ~torn
    BY <1>5
  <2> QED BY <1>2, <1>3, <1>5, <2>1, Zenon DEF Filed
<1> QED BY <1>4, <1>5

(* A unit that nobody sent. *)
LEMMA FiledOdd ==
  ASSUME Types, Outgoing, NEW q \in Nat, NEW r \in Nat, q <= r, r <= Len(relay.out), Filed(q), inbox = <<>>, torn',
         got' = got, readBuf' = readBuf, inbox' = <<Frame("DATA", 0)>>, relay'.out = relay.out
  PROVE  Filed(r)'
<1> DEFINE g == got \o readBuf
<1>1. Len(UnitsTo(q)) \in Nat /\ Len(UnitsTo(r)) \in Nat /\ Len(UnitsTo(q)) <= Len(UnitsTo(r))
  <2>1. /\ UnitsTo(q) \in Seq(Nat) /\ UnitsTo(r) \in Seq(Nat)
        /\ Len(UnitsTo(r)) = Len(UnitsTo(q)) + Len(UnitsOf(SubSeq(relay.out, q + 1, r)))
        /\ UnitsOf(SubSeq(relay.out, q + 1, r)) \in Seq(Nat)
    BY UnitsToSplit
  <2> QED BY <2>1
<1>2. g \in Seq(Nat)
  BY Reads
<1>3. Rising(g \o UnitsOf(inbox), Len(UnitsTo(q)))
  BY DEF Filed
<1>4. got' \o readBuf' = g
  OBVIOUS
<1> HIDE DEF g
<1>5. Rising(g, Len(UnitsTo(q)))
  <2>1. g \o UnitsOf(inbox) = g
    BY <1>2, UnitsOfNone
  <2> QED BY <1>3, <2>1, Zenon
<1>6. Rising(Append(g, 0), Len(UnitsTo(r)))
  <2>1. Rising(Append(g, 0), Len(UnitsTo(q))) /\ Append(g, 0) \in Seq(Nat)
    BY <1>1, <1>2, <1>5, RisingOdd
  <2> QED BY <1>1, <2>1, RisingWider
<1>7. UnitsOf(inbox') = <<0>>
  <2>1. Frame("DATA", 0) \in FrameType /\ Frame("DATA", 0).kind = "DATA" /\ Frame("DATA", 0).val = 0
    BY PlainFrames DEF Frame
  <2>2. UnitsOf(<<Frame("DATA", 0)>>) = <<Frame("DATA", 0).val>>
    BY <2>1, UnitsOfOne
  <2> QED BY <2>1, <2>2
<1>8. g \o <<0>> = Append(g, 0)
  BY <1>2
<1>9. \A n : UnitsTo(n)' = UnitsTo(n)
  BY DEF UnitsTo
<1> QED BY <1>4, <1>6, <1>7, <1>8, <1>9, Zenon DEF Filed

-----------------------------------------------------------------------------
(* The way down, step by step.                                              *)
TrackUntouched ==
  /\ message' = message /\ sock'.down = sock.down /\ mode' = mode /\ cursor' = cursor /\ closed' = closed
  /\ relay'.out = relay.out /\ relay'.pushed = relay.pushed

LEMMA TrackKept ==
  ASSUME NEW q, NEW m, NEW e, Track(q, m, e), TrackUntouched
  PROVE  Track(q, m, e)'
<1>1. Covers(message, q, m, relay.out)' /\ Covers(sock.down, m, e, relay.out)'
  BY DEF Track, TrackUntouched, Covers, Spans, Cut
<1> QED BY <1>1 DEF Track, TrackUntouched

LEMMA TrackBounds ==
  ASSUME Types, NEW q, NEW m, NEW e, Track(q, m, e)
  PROVE  /\ q \in Nat /\ m \in Nat /\ e \in Nat /\ q <= m /\ m <= e /\ e <= Len(relay.out) /\ Len(relay.out) \in Nat
         /\ q \in 0..Len(relay.out) /\ m \in 0..Len(relay.out) /\ e \in 0..Len(relay.out)
         /\ message = <<>> => q = m
         /\ sock.down = <<>> => m = e
<1>1. relay.out \in Batch /\ message \in Seq(Element) /\ sock.down \in Seq(Element)
  <2>1. \A s \in Seq(Piece) : s \in Seq(Element)
    BY DEF Element
  <2> QED BY <2>1 DEF Types, ClientTypes, NetworkTypes, RelayType, SocketType, Element
<1>2. /\ q \in 0..Len(relay.out) /\ m \in 0..Len(relay.out) /\ q <= m /\ (message = <<>> => q = m)
  BY <1>1, CoversBounds DEF Track
<1>3. e \in 0..Len(relay.out) /\ m <= e /\ (sock.down = <<>> => m = e)
  BY <1>1, CoversBounds DEF Track
<1>4. Len(relay.out) \in Nat
  BY <1>1 DEF Batch
<1> QED BY <1>2, <1>3, <1>4

LEMMA DownlinkKept ==
  ASSUME Downlink, TrackUntouched, got' \o readBuf' = got \o readBuf, inbox' = inbox, torn' = torn, eof' = eof
  PROVE  Downlink'
<1>1. PICK q, m, e : Track(q, m, e) /\ Filed(q)
  BY DEF Downlink
<1>2. Track(q, m, e)'
  BY <1>1, TrackKept
<1>3. Filed(q)'
  BY <1>1, FiledKept DEF TrackUntouched
<1> QED BY <1>2, <1>3, Zenon DEF Downlink

LEMMA DownlinkChosen ==
  ASSUME Types, Lanes, Downlink, NEW t, ChooseTransport(t)
  PROVE  Downlink'
<1>1. PICK q, m, e : Track(q, m, e) /\ Filed(q)
  BY DEF Downlink
<1>2. /\ mode = "none" /\ message = <<>> /\ sock.down = <<>> /\ relay.pushed = 0 /\ cursor = 0
  BY DEF ChooseTransport, Lanes, Dialing
<1>3. q = 0 /\ m = 0 /\ e = 0
  BY <1>1, <1>2, TrackBounds DEF Track
<1>4. /\ message' = message /\ sock'.down = sock.down /\ cursor' = cursor /\ closed' = closed
      /\ relay' = relay /\ got' = got /\ readBuf' = readBuf /\ inbox' = inbox /\ torn' = torn /\ eof' = eof
  BY DEF ChooseTransport, client, history
<1>5. Covers(message, q, m, relay.out)' /\ Covers(sock.down, m, e, relay.out)'
  BY <1>1, <1>4 DEF Track, Covers, Spans, Cut
<1>6. Track(q, m, e)'
  BY <1>2, <1>3, <1>4, <1>5 DEF Track
<1>7. Filed(q)'
  BY <1>1, <1>4, FiledKept
<1> QED BY <1>6, <1>7, Zenon DEF Downlink

LEMMA PartsWhole ==
  ASSUME NEW T, NEW out \in Seq(T), NEW n \in 0..Len(out)
  PROVE  SubSeq(out, 1, n) \o SubSeq(out, n + 1, Len(out)) = out
<1>1. PICK o : o = 0
  OBVIOUS
<1>2. o \in Nat /\ o <= n /\ n \in Nat /\ n <= Len(out) /\ Len(out) \in Nat /\ Len(out) <= Len(out)
  BY <1>1
<1>3. SubSeq(out, o + 1, n) \o SubSeq(out, n + 1, Len(out)) = SubSeq(out, o + 1, Len(out))
  BY <1>2, PartsJoin
<1>4. o + 1 = 1
  BY <1>1
<1>5. SubSeq(out, 1, Len(out)) = out
  BY PartWhole
<1> QED BY <1>3, <1>4, <1>5, Zenon

LEMMA ConcatNat ==
  ASSUME NEW a \in Seq(Nat), NEW b \in Seq(Nat), NEW c \in Seq(Nat)
  PROVE  (a \o b) \o c = a \o (b \o c)
BY ConcatAssociative

LEMMA DownlinkRead ==
  ASSUME Types, Downlink, NEW n \in 1..Len(readBuf), ReadBuffered(n)
  PROVE  Downlink'
<1>1. got \in Seq(Nat) /\ readBuf \in Seq(Nat) /\ n \in Nat
  BY Reads
<1> DEFINE a == SubSeq(readBuf, 1, n)
           b == SubSeq(readBuf, n + 1, Len(readBuf))
<1>2. a \in Seq(Nat) /\ b \in Seq(Nat)
  BY <1>1
<1>3. a \o b = readBuf
  BY <1>1, PartsWhole
<1>4. got' = got \o a /\ readBuf' = b
  BY DEF ReadBuffered
<1> HIDE DEF a, b
<1>5. (got \o a) \o b = got \o (a \o b)
  BY <1>1, <1>2, ConcatNat
<1>6. got' \o readBuf' = got \o readBuf
  BY <1>3, <1>4, <1>5
<1>7. TrackUntouched /\ inbox' = inbox /\ torn' = torn /\ eof' = eof
  BY DEF ReadBuffered, TrackUntouched, socket
<1> QED BY <1>6, <1>7, DownlinkKept

LEMMA DownlinkFiled ==
  ASSUME Types, Outgoing, Downlink, FilePing \/ FileFrame
  PROVE  Downlink'
<1>1. PICK q, m, e : Track(q, m, e) /\ Filed(q)
  BY DEF Downlink
<1>2. q \in Nat /\ q <= Len(relay.out)
  BY <1>1, TrackBounds
<1>3. TrackUntouched /\ torn' = torn /\ inbox # <<>> /\ got' = got
  BY DEF FilePing, FileFrame, TrackUntouched, client, history, socket
<1>4. inbox \in Seq(FrameType) /\ got \in Seq(Nat) /\ readBuf \in Seq(Nat)
  BY Reads
<1>5. Head(inbox) \in FrameType
  BY <1>3, <1>4
<1>6. UnitsOf(<<Head(inbox)>>) = IF Head(inbox).kind = "DATA" THEN <<Head(inbox).val>> ELSE <<>>
  BY <1>5, UnitsOfOne
<1>7. /\ readBuf' = readBuf \o UnitsOf(<<Head(inbox)>>)
      /\ inbox' = Tail(inbox) \/ (inbox' = <<>> /\ Head(inbox).kind = "BYE")
      /\ eof' => eof \/ Head(inbox).kind \in {"CLOSE", "BYE"}
  <2>1. CASE FilePing
    <3>1. readBuf \o <<>> = readBuf
      BY <1>4
    <3> QED BY <1>6, <2>1, <3>1 DEF FilePing
  <2>2. CASE FileFrame
    <3>1. /\ readBuf' = IF Head(inbox).kind = "DATA" THEN Append(readBuf, Head(inbox).val) ELSE readBuf
          /\ eof' = (eof \/ Head(inbox).kind \in {"CLOSE", "BYE"})
          /\ inbox' = IF Head(inbox).kind = "BYE" THEN <<>> ELSE Tail(inbox)
      BY <2>2 DEF FileFrame
    <3>2. Head(inbox).val \in Nat
      BY <1>5 DEF FrameType
    <3>3. readBuf \o <<>> = readBuf /\ readBuf \o <<Head(inbox).val>> = Append(readBuf, Head(inbox).val)
      BY <1>4, <3>2
    <3> QED BY <1>6, <3>1, <3>3
  <2> QED BY <2>1, <2>2
<1>8. got' \o readBuf' = (got \o readBuf) \o UnitsOf(<<Head(inbox)>>)
  <2> DEFINE x == UnitsOf(<<Head(inbox)>>)
  <2>1. x \in Seq(Nat)
    <3>1. <<Head(inbox)>> \in Seq(FrameType)
      BY <1>5
    <3> QED BY <3>1, UnitsTyped
  <2>2. got' = got /\ readBuf' = readBuf \o x
    BY <1>3, <1>7
  <2> HIDE DEF x
  <2>3. (got \o readBuf) \o x = got \o (readBuf \o x)
    BY <1>4, <2>1, ConcatNat
  <2> QED BY <2>2, <2>3 DEF x
<1>9. Track(q, m, e)'
  BY <1>1, <1>3, TrackKept
<1>10. Filed(q)'
  BY <1>1, <1>2, <1>3, <1>7, <1>8, FiledOne DEF TrackUntouched
<1> QED BY <1>9, <1>10, Zenon DEF Downlink

LEMMA DownlinkReceived ==
  ASSUME Types, Outgoing, Lanes, Answers, Downlink, ReceiveDone
  PROVE  Downlink'
<1>1. PICK q, m, e : Track(q, m, e) /\ Filed(q)
  BY DEF Downlink
<1>2. /\ Exchanging /\ ex.req.kind = "down" /\ answer.status = "ok"
      /\ cursor' = answer.cursor /\ eof' = (eof \/ answer.lane) /\ inbox' = answer.frames
      /\ message' = message /\ sock' = sock /\ mode' = mode /\ closed' = closed /\ torn' = torn
      /\ relay' = relay /\ got' = got /\ readBuf' = readBuf
  BY DEF ReceiveDone, Exchanging, socket, history
<1>3. mode # "ws" /\ inbox = <<>> /\ message = <<>> /\ sock.down = <<>>
  BY <1>2 DEF Lanes, Exchanging
<1>4. q = cursor /\ q \in Nat /\ Len(relay.out) \in Nat
  BY <1>1, <1>3, TrackBounds DEF Track
<1>5. PICK r : r = answer.cursor
  OBVIOUS
<1>6. /\ r \in cursor..Len(relay.out)
      /\ answer.frames = SubSeq(relay.out, cursor + 1, r)
      /\ answer.lane => r = Len(relay.out) /\ Has(relay.out, "CLOSE")
  BY <1>2, <1>5 DEF Answers
<1>7. r \in Nat /\ q <= r /\ r <= Len(relay.out) /\ r \in 0..Len(relay.out)
  BY <1>4, <1>6
<1>8. Filed(r)'
  BY <1>1, <1>2, <1>3, <1>4, <1>6, <1>7, FiledMore
<1>9. Covers(<<>>, r, r, relay.out)
  <2>1. relay.out \in Batch
    BY DEF Types, NetworkTypes, RelayType
  <2> QED BY <1>7, <2>1, CoversNone
<1>10. Covers(message, r, r, relay.out)' /\ Covers(sock.down, r, r, relay.out)'
  BY <1>2, <1>3, <1>9 DEF Covers, Spans, Cut
<1>11. Track(r, r, r)'
  BY <1>2, <1>3, <1>5, <1>10 DEF Track
<1> QED BY <1>8, <1>11, Zenon DEF Downlink

LEMMA DownlinkDeleted ==
  ASSUME Types, Downlink, DeleteSession
  PROVE  Downlink'
<1>1. PICK q, m, e : Track(q, m, e) /\ Filed(q)
  BY DEF Downlink
<1>2. /\ q \in Nat /\ m \in Nat /\ e \in Nat /\ m <= e /\ m \in 0..Len(relay.out) /\ relay.pushed \in Nat
  BY <1>1, TrackBounds DEF Types, NetworkTypes, RelayType
<1>3. /\ message' = message /\ sock'.down = <<>> /\ mode' = mode /\ cursor' = cursor /\ closed' = TRUE
      /\ relay' = relay /\ got' = got /\ readBuf' = readBuf /\ inbox' = inbox /\ torn' = torn /\ eof' = eof
  BY DEF DeleteSession, Types, NetworkTypes, SocketType
<1>4. Covers(<<>>, m, m, relay.out)
  <2>1. relay.out \in Batch
    BY DEF Types, NetworkTypes, RelayType
  <2> QED BY <1>2, <2>1, CoversNone
<1>5. Covers(message, q, m, relay.out)' /\ Covers(sock.down, m, m, relay.out)'
  <2>1. Covers(message, q, m, relay.out)'
    BY <1>1, <1>3 DEF Track, Covers, Spans, Cut
  <2>2. Covers(sock.down, m, m, relay.out)'
    BY <1>3, <1>4 DEF Covers, Spans, Cut
  <2> QED BY <2>1, <2>2
<1>6. Track(q, m, m)'
  BY <1>1, <1>2, <1>3, <1>5 DEF Track
<1>7. Filed(q)'
  BY <1>1, <1>3, FiledKept
<1> QED BY <1>6, <1>7, Zenon DEF Downlink

LEMMA DownlinkTimedOut ==
  ASSUME Types, Outgoing, Lanes, Downlink, NEW b \in BOOLEAN, SocketTimeOut(b)
  PROVE  Downlink'
<1>1. PICK q, m, e : Track(q, m, e) /\ Filed(q)
  BY DEF Downlink
<1>2. /\ q \in Nat /\ m \in Nat /\ q <= m /\ m <= Len(relay.out) /\ m \in 0..Len(relay.out)
      /\ message = <<>> => q = m
  BY <1>1, TrackBounds
<1>3. /\ message' = <<>> /\ mode' = mode /\ cursor' = cursor /\ closed' = closed
      /\ relay' = relay /\ got' = got /\ readBuf' = readBuf /\ inbox' = inbox /\ eof' = eof
      /\ torn' = (torn \/ b \/ message # <<>>)
      /\ sock'.down = sock.down
  BY DEF SocketTimeOut, client, history, Types, NetworkTypes, SocketType
<1>4. Covers(<<>>, m, m, relay.out)
  <2>1. relay.out \in Batch
    BY DEF Types, NetworkTypes, RelayType
  <2> QED BY <1>2, <2>1, CoversNone
<1>5. Covers(message, m, m, relay.out)' /\ Covers(sock.down, m, e, relay.out)'
  BY <1>1, <1>3, <1>4 DEF Track, Covers, Spans, Cut
<1>6. Track(m, m, e)'
  <2>1. mode = "ws"
    BY DEF SocketTimeOut, Lanes
  <2> QED BY <1>1, <1>3, <1>5, <2>1 DEF Track
<1>7. Filed(m)'
  <2>1. (torn => torn') /\ (q # m => torn')
    BY <1>2, <1>3
  <2> QED BY <1>1, <1>2, <1>3, <2>1, FiledLess
<1> QED BY <1>6, <1>7, Zenon DEF Downlink

LEMMA ElementTyped ==
  ASSUME Types
  PROVE  /\ relay.out \in Batch /\ relay.out \in Seq(FrameType)
         /\ message \in Seq(Piece) /\ message \in Seq(Element) /\ sock.down \in Seq(Element)
         /\ sock \in SocketType
<1>1. \A s \in Seq(Piece) : s \in Seq(Element)
  BY DEF Element
<1> QED BY <1>1 DEF Types, ClientTypes, NetworkTypes, RelayType, SocketType, Element, Batch

(* The first piece on the socket, taken off it. *)
LEMMA TrackHead ==
  ASSUME Types, NEW q, NEW m, NEW e, Track(q, m, e), sock.down # <<>>
  PROVE  /\ Head(sock.down) \in Element /\ Tail(sock.down) \in Seq(Element)
         /\ \E k \in 0..Len(relay.out) :
              /\ m <= k /\ Cut(Head(sock.down), m, k, relay.out) /\ Covers(<<Head(sock.down)>>, m, k, relay.out)
              /\ Covers(Tail(sock.down), k, e, relay.out)
<1> DEFINE h == Head(sock.down)
           t == Tail(sock.down)
<1>1. h \in Element /\ t \in Seq(Element) /\ <<h>> \in Seq(Element) /\ sock.down = <<h>> \o t
  <2>1. sock.down \in Seq(Element)
    BY ElementTyped
  <2>2. h \in Element /\ t \in Seq(Element) /\ sock.down = <<h>> \o t
    BY <2>1, HeadTail
  <2> QED BY <2>2
<1> HIDE DEF h, t
<1>2. Covers(<<h>> \o t, m, e, relay.out)
  BY <1>1 DEF Track
<1>3. relay.out \in Batch /\ m \in 0..Len(relay.out)
  BY ElementTyped, TrackBounds
<1>4. PICK k : Covers(<<h>>, m, k, relay.out) /\ Covers(t, k, e, relay.out)
  BY <1>1, <1>2, <1>3, CoversSplit
<1>5. k \in 0..Len(relay.out)
  BY <1>1, <1>3, <1>4, CoversBounds
<1>6. m <= k /\ Cut(h, m, k, relay.out)
  BY <1>1, <1>3, <1>4, <1>5, CoversOne
<1> QED BY <1>1, <1>4, <1>5, <1>6 DEF h, t

LEMMA DownlinkSocket ==
  ASSUME Types, Outgoing, Lanes, Downlink, SocketReads
  PROVE  Downlink'
<1>1. PICK q, m, e : Track(q, m, e) /\ Filed(q)
  BY DEF Downlink
<1> DEFINE f == Head(sock.down)
           t == Tail(sock.down)
<1>2. /\ f \in Piece \cup Control /\ sock.down # <<>> /\ sock'.down = t
      /\ \/ UNCHANGED <<pc, message, torn, inbox>> /\ f \in Control
         \/ /\ f \in Piece /\ ~f.final
            /\ message' = Append(message, f) /\ UNCHANGED <<pc, torn, inbox>>
         \/ f \in Piece /\ f.final /\ MessageDone(Append(message, f))
         \/ ReceiveFails /\ f \in Control
  BY SocketReadsEffect
<1>3. PICK k \in 0..Len(relay.out) :
        /\ m <= k /\ Cut(f, m, k, relay.out) /\ Covers(<<f>>, m, k, relay.out) /\ Covers(t, k, e, relay.out)
  BY <1>1, <1>2, TrackHead
<1>4. /\ q \in Nat /\ m \in Nat /\ k \in Nat /\ q <= m /\ q <= k /\ m <= Len(relay.out) /\ k <= Len(relay.out)
      /\ m \in 0..Len(relay.out) /\ (message = <<>> => q = m)
  <2>1. /\ q \in Nat /\ m \in Nat /\ q <= m /\ m <= Len(relay.out) /\ m \in 0..Len(relay.out)
        /\ (message = <<>> => q = m) /\ Len(relay.out) \in Nat
    BY <1>1, TrackBounds
  <2> QED BY <1>3, <2>1
<1>5. mode = "ws" /\ pc = "receiving" /\ inbox = <<>>
  BY DEF SocketReads, Lanes, Exchanging
<1>6. /\ mode' = mode /\ cursor' = cursor /\ closed' = closed /\ relay' = relay /\ got' = got
      /\ readBuf' = readBuf /\ eof' = eof
  BY DEF SocketReads, client, history
<1>7. f \in Control => f.op # "data"
  BY DEF Control
<1>8. f \in Control => k = m
  BY <1>3, <1>7 DEF Cut
<1>9. e <= relay.pushed /\ (~closed => e = relay.pushed)
  BY <1>1, <1>5 DEF Track
<1>10. relay.out \in Batch /\ message \in Seq(Element) /\ message \in Seq(Piece)
  BY ElementTyped
<1>11. Covers(message, q, m, relay.out)
  BY <1>1 DEF Track
<1> HIDE DEF f, t
<1>12. ASSUME NEW x, NEW y, Covers(message', x, y, relay.out), Covers(t, y, e, relay.out)
       PROVE  Track(x, y, e)'
  <2>1. Covers(message, x, y, relay.out)'
    BY <1>6, <1>12 DEF Covers, Spans, Cut
  <2>2. Covers(sock.down, y, e, relay.out)'
    BY <1>2, <1>6, <1>12 DEF Covers, Spans, Cut
  <2> QED BY <1>5, <1>6, <1>9, <2>1, <2>2 DEF Track
<1>13. f \in Piece => /\ Append(message, f) \in Seq(Piece)
                      /\ Covers(Append(message, f), q, k, relay.out)
  <2>1. SUFFICES ASSUME f \in Piece
                 PROVE  Append(message, f) \in Seq(Piece) /\ Covers(Append(message, f), q, k, relay.out)
    OBVIOUS
  <2>2. <<f>> \in Seq(Element) /\ Append(message, f) \in Seq(Piece) /\ Append(message, f) = message \o <<f>>
    BY <1>10, <2>1 DEF Element
  <2>3. Covers(message \o <<f>>, q, k, relay.out)
    BY <1>3, <1>10, <1>11, <2>2, CoversJoin
  <2> QED BY <2>2, <2>3
<1>14. CASE UNCHANGED <<pc, message, torn, inbox>> /\ f \in Control
  <2>1. Track(q, m, e)'
    BY <1>3, <1>8, <1>11, <1>12, <1>14
  <2>2. Filed(q)'
    BY <1>1, <1>6, <1>14, FiledKept
  <2> QED BY <2>1, <2>2, Zenon DEF Downlink
<1>15. CASE /\ f \in Piece /\ ~f.final
            /\ message' = Append(message, f) /\ UNCHANGED <<pc, torn, inbox>>
  <2>1. Track(q, k, e)'
    BY <1>3, <1>12, <1>13, <1>15
  <2>2. Filed(q)'
    BY <1>1, <1>6, <1>15, FiledKept
  <2> QED BY <2>1, <2>2, Zenon DEF Downlink
<1>16. CASE f \in Piece /\ f.final /\ MessageDone(Append(message, f))
  <2> DEFINE whole == Append(message, f)
  <2>1. whole \in Seq(Piece) /\ Covers(whole, q, k, relay.out)
    BY <1>13, <1>16
  <2>2. /\ message' = <<>>
        /\ \/ /\ inbox' = FlattenSeq([i \in DOMAIN whole |-> whole[i].frames])
              /\ torn' = torn
           \/ torn' = TRUE /\ inbox' = inbox
    BY <1>16 DEF MessageDone
  <2> HIDE DEF whole
  <2>3. Track(k, k, e)'
    <3>1. Covers(<<>>, k, k, relay.out)
      BY <1>3, <1>10, CoversNone
    <3> QED BY <1>3, <1>12, <2>2, <3>1
  <2>4. CASE inbox' = FlattenSeq([i \in DOMAIN whole |-> whole[i].frames]) /\ torn' = torn
    <3>1. inbox' = SubSeq(relay.out, q + 1, k)
      BY <1>10, <2>1, <2>4, CoversMessage
    <3>2. Filed(k)'
      BY <1>1, <1>4, <1>5, <1>6, <2>4, <3>1, FiledMore
    <3> QED BY <2>3, <3>2, Zenon DEF Downlink
  <2>5. CASE torn' = TRUE /\ inbox' = inbox
    <3>1. Filed(k)'
      BY <1>1, <1>4, <1>6, <2>5, FiledLess
    <3> QED BY <2>3, <3>1, Zenon DEF Downlink
  <2> QED BY <2>2, <2>4, <2>5
<1>17. CASE ReceiveFails /\ f \in Control
  <2>1. message' = <<>> /\ torn' = (torn \/ message # <<>>) /\ inbox' = inbox
    BY <1>17 DEF ReceiveFails
  <2>2. Track(m, m, e)'
    <3>1. Covers(<<>>, m, m, relay.out)
      BY <1>4, <1>10, CoversNone
    <3> QED BY <1>3, <1>8, <1>12, <1>17, <2>1, <3>1
  <2>3. Filed(m)'
    <3>1. (torn => torn') /\ (q # m => torn')
      BY <1>4, <2>1
    <3> QED BY <1>1, <1>4, <1>6, <2>1, <3>1, FiledLess
  <2> QED BY <2>2, <2>3, Zenon DEF Downlink
<1> QED BY <1>2, <1>14, <1>15, <1>16, <1>17

LEMMA DownlinkGarbled ==
  ASSUME Types, Outgoing, Lanes, Downlink, NEW b \in BOOLEAN, SocketReadsGarbage(b)
  PROVE  Downlink'
<1>1. PICK q, m, e : Track(q, m, e) /\ Filed(q)
  BY DEF Downlink
<1> DEFINE f == Head(sock.down)
           t == Tail(sock.down)
<1>2. /\ sock.down # <<>> /\ pc = "receiving" /\ sock.garbled /\ sock' = [sock EXCEPT !.down = Tail(sock.down)]
      /\ IF b THEN inbox' = <<Frame("DATA", 0)>> /\ UNCHANGED <<message, torn>> ELSE ReceiveFails
      /\ mode' = mode /\ cursor' = cursor /\ closed' = closed /\ relay' = relay /\ got' = got
      /\ readBuf' = readBuf /\ eof' = eof
  BY DEF SocketReadsGarbage, client, history
<1>3. sock'.down = t
  BY <1>2, ElementTyped DEF SocketType
<1>4. PICK k \in 0..Len(relay.out) :
        /\ m <= k /\ Cut(f, m, k, relay.out) /\ Covers(<<f>>, m, k, relay.out) /\ Covers(t, k, e, relay.out)
  BY <1>1, <1>2, TrackHead
<1>5. mode = "ws" /\ inbox = <<>> /\ message = <<>> /\ torn
  BY <1>2 DEF Lanes, Exchanging
<1>6. q \in Nat /\ k \in Nat /\ q <= k /\ k <= Len(relay.out)
  <2>1. q \in Nat /\ m \in Nat /\ q <= m /\ Len(relay.out) \in Nat
    BY <1>1, TrackBounds
  <2> QED BY <1>4, <2>1
<1> HIDE DEF f, t
<1>7. message' = <<>> /\ torn' /\ (inbox' = inbox \/ inbox' = <<Frame("DATA", 0)>>)
  BY <1>2, <1>5 DEF ReceiveFails
<1>8. Covers(<<>>, k, k, relay.out)
  BY <1>4, ElementTyped, CoversNone
<1>9. Track(k, k, e)'
  <2>1. Covers(message, k, k, relay.out)'
    BY <1>2, <1>7, <1>8 DEF Covers, Spans, Cut
  <2>2. Covers(sock.down, k, e, relay.out)'
    BY <1>2, <1>3, <1>4 DEF Covers, Spans, Cut
  <2> QED BY <1>1, <1>2, <1>5, <2>1, <2>2 DEF Track
<1>10. Filed(k)'
  <2>1. CASE inbox' = inbox
    BY <1>1, <1>2, <1>6, <1>7, <2>1, FiledLess
  <2>2. CASE inbox' = <<Frame("DATA", 0)>>
    BY <1>1, <1>2, <1>5, <1>6, <1>7, <2>2, FiledOdd
  <2> QED BY <1>7, <2>1, <2>2
<1> QED BY <1>9, <1>10, Zenon DEF Downlink

LEMMA TwoPieces ==
  ASSUME NEW T, NEW a \in T, NEW b \in T
  PROVE  <<a>> \in Seq(T) /\ <<b>> \in Seq(T) /\ <<a, b>> \in Seq(T) /\ <<a>> \o <<b>> = <<a, b>>
<1> DEFINE x == <<a>>
           y == <<b>>
           z == <<a, b>>
           w == x \o y
<1>1. x \in Seq(T) /\ y \in Seq(T) /\ Len(x) = 1 /\ Len(y) = 1 /\ x[1] = a /\ y[1] = b
  OBVIOUS
<1>2. z \in Seq(T) /\ Len(z) = 2 /\ z[1] = a /\ z[2] = b
  OBVIOUS
<1> HIDE DEF x, y, z
<1>3. w \in Seq(T) /\ Len(w) = 2 /\ w[1] = a /\ w[2] = b
  <2>1. /\ w \in Seq(T) /\ Len(w) = Len(x) + Len(y)
        /\ \A i \in 1..(Len(x) + Len(y)) : w[i] = IF i <= Len(x) THEN x[i] ELSE y[i - Len(x)]
    BY <1>1, ConcatProperties
  <2> HIDE DEF w
  <2>2. 1 \in 1..(Len(x) + Len(y)) /\ 1 <= Len(x) /\ 2 \in 1..(Len(x) + Len(y)) /\ ~(2 <= Len(x)) /\ 2 - Len(x) = 1
    BY <1>1
  <2>3. w[1] = x[1] /\ w[2] = y[2 - Len(x)]
    BY <2>1, <2>2
  <2> QED BY <1>1, <2>1, <2>2, <2>3
<1> HIDE DEF w
<1>4. ASSUME NEW i \in 1..Len(w) PROVE w[i] = z[i]
  <2>1. i = 1 \/ i = 2
    BY <1>3
  <2> QED BY <1>2, <1>3, <2>1
<1>5. w = z
  BY <1>2, <1>3, <1>4, SeqEqual
<1> QED BY <1>1, <1>2, <1>5 DEF x, y, z, w

LEMMA DownlinkPushed ==
  ASSUME Types, Lanes, Release, Downlink,
         NEW cut \in 0..Len(relay.out), NEW to \in 0..Len(relay.out), NEW within \in BOOLEAN,
         RelayPushes(cut, to, within)
  PROVE  Downlink'
<1>1. PICK q, m, e : Track(q, m, e) /\ Filed(q)
  BY DEF Downlink
<1> DEFINE one == Fragment(relay.pushed, to, TRUE, TRUE)
           two == Fragment(relay.pushed, cut, FALSE, TRUE)
           three == Fragment(cut, to, TRUE, ~within)
           more == IF cut = to THEN <<one>> ELSE <<two, three>>
<1>2. /\ pc = "receiving" /\ relay.pushed <= cut /\ cut <= to
      /\ sock' = [sock EXCEPT !.down = sock.down \o more]
      /\ relay' = [relay EXCEPT !.pushed = to]
      /\ message' = message /\ mode' = mode /\ cursor' = cursor /\ closed' = closed
      /\ got' = got /\ readBuf' = readBuf /\ inbox' = inbox /\ torn' = torn /\ eof' = eof
  BY DEF RelayPushes, client, history
<1>3. mode = "ws" /\ ~closed
  BY <1>2 DEF Lanes, Release
<1>4. e = relay.pushed
  BY <1>1, <1>3 DEF Track
<1>5. relay \in RelayType /\ e \in Nat /\ e \in 0..Len(relay.out)
  BY <1>1, TrackBounds DEF Types, NetworkTypes
<1>6. one \in Element /\ two \in Element /\ three \in Element
  <2>1. /\ e \in Nat /\ cut \in Nat /\ to \in Nat /\ cut <= Len(relay.out) /\ to <= Len(relay.out)
        /\ TRUE \in BOOLEAN /\ FALSE \in BOOLEAN /\ (~within) \in BOOLEAN
    <3>1. Len(relay.out) \in Nat
      BY <1>5 DEF RelayType, Batch
    <3> QED BY <1>5, <3>1
  <2>2. one \in Piece /\ two \in Piece /\ three \in Piece
    BY <1>4, <1>5, <2>1, FragmentTyped
  <2> QED BY <2>2 DEF Element
<1>7. Cut(one, e, to, relay.out) /\ Cut(two, e, cut, relay.out) /\ Cut(three, cut, to, relay.out)
  BY <1>4 DEF Cut, Fragment
<1> HIDE DEF one, two, three
<1>8. relay.out \in Batch
  BY ElementTyped
<1>9. more \in Seq(Element) /\ Covers(more, e, to, relay.out)
  <2>1. CASE cut = to
    <3>1. Covers(<<one>>, e, to, relay.out) /\ <<one>> \in Seq(Element)
      BY <1>2, <1>4, <1>5, <1>6, <1>7, <1>8, <2>1, CoversOne
    <3> QED BY <2>1, <3>1
  <2>2. CASE cut # to
    <3>1. <<two>> \in Seq(Element) /\ <<three>> \in Seq(Element) /\ <<two>> \o <<three>> = <<two, three>>
      BY <1>6, TwoPieces
    <3>2. Covers(<<two>>, e, cut, relay.out) /\ Covers(<<three>>, cut, to, relay.out)
      BY <1>2, <1>4, <1>5, <1>6, <1>7, <1>8, CoversOne
    <3>3. Covers(<<two>> \o <<three>>, e, to, relay.out)
      BY <1>8, <3>1, <3>2, CoversJoin
    <3>4. more = <<two>> \o <<three>>
      BY <2>2, <3>1
    <3>5. <<two>> \o <<three>> \in Seq(Element)
      BY <3>1
    <3> QED BY <3>3, <3>4, <3>5, Zenon
  <2> QED BY <2>1, <2>2
<1> HIDE DEF more
<1>10. Covers(sock.down \o more, m, to, relay.out)
  BY <1>1, <1>8, <1>9, ElementTyped, CoversJoin DEF Track
<1>11. sock'.down = sock.down \o more /\ relay'.out = relay.out /\ relay'.pushed = to
  BY <1>2, <1>5, ElementTyped DEF SocketType, RelayType
<1>12. Track(q, m, to)'
  <2>1. Covers(message, q, m, relay.out)'
    BY <1>1, <1>2, <1>11 DEF Track, Covers, Spans, Cut
  <2>2. Covers(sock.down, m, to, relay.out)'
    BY <1>10, <1>11 DEF Covers, Spans, Cut
  <2>3. to <= to
    OBVIOUS
  <2> QED BY <1>2, <1>3, <1>11, <2>1, <2>2, <2>3 DEF Track
<1>13. Filed(q)'
  BY <1>1, <1>2, <1>11, FiledKept
<1> QED BY <1>12, <1>13, Zenon DEF Downlink

LEMMA DownlinkInserted ==
  ASSUME Types, Lanes, Downlink,
         NEW op \in {"ping", "text", "close"}, NEW i \in 1..(Len(sock.down) + 1), RelayInserts(op, i)
  PROVE  Downlink'
<1>1. PICK q, m, e : Track(q, m, e) /\ Filed(q)
  BY DEF Downlink
<1> DEFINE s == sock.down
           c == [op |-> op]
           a == SubSeq(s, 1, i - 1)
           b == SubSeq(s, i, Len(s))
<1>2. /\ pc = "receiving" /\ sock' = [sock EXCEPT !.down = InsertAt(s, i, c)]
      /\ relay' = relay /\ message' = message /\ mode' = mode /\ cursor' = cursor /\ closed' = closed
      /\ got' = got /\ readBuf' = readBuf /\ inbox' = inbox /\ torn' = torn /\ eof' = eof
  BY DEF RelayInserts, client, history
<1>3. s \in Seq(Element) /\ relay.out \in Batch
  BY ElementTyped
<1>4. sock'.down = InsertAt(s, i, c)
  BY <1>2, ElementTyped DEF SocketType
<1>5. InsertAt(s, i, c) = (a \o <<c>>) \o b
  BY DEF InsertAt
<1>6. c \in Element /\ c.op # "data" /\ <<c>> \in Seq(Element)
  BY DEF Element, Control
<1>7. a \in Seq(Element) /\ b \in Seq(Element) /\ a \o b = s
  <2>1. PICK n : n = i - 1
    OBVIOUS
  <2>2. Len(s) \in Nat /\ n \in 0..Len(s) /\ n + 1 = i
    BY <1>3, <2>1
  <2>3. SubSeq(s, 1, n) \o SubSeq(s, n + 1, Len(s)) = s
    BY <1>3, <2>2, PartsWhole
  <2>4. a = SubSeq(s, 1, n) /\ b = SubSeq(s, n + 1, Len(s))
    BY <2>1, <2>2
  <2>5. a \in Seq(Element) /\ b \in Seq(Element)
    BY <1>3, <2>2, <2>4
  <2> HIDE DEF s, a, b
  <2> QED BY <2>3, <2>4, <2>5
<1> HIDE DEF c, a, b
<1>8. PICK k : Covers(a, m, k, relay.out) /\ Covers(b, k, e, relay.out)
  BY <1>1, <1>3, <1>7, CoversSplit DEF Track
<1>9. k \in 0..Len(relay.out) /\ k <= k
  BY <1>3, <1>7, <1>8, CoversBounds
<1>10. Covers(<<c>>, k, k, relay.out)
  BY <1>3, <1>6, <1>9, CoversOne DEF Cut
<1>11. Covers(a \o <<c>>, m, k, relay.out) /\ a \o <<c>> \in Seq(Element)
  <2>1. Covers(a \o <<c>>, m, k, relay.out)
    BY <1>3, <1>6, <1>7, <1>8, <1>10, CoversJoin
  <2>2. a \o <<c>> \in Seq(Element)
    BY <1>6, <1>7
  <2> QED BY <2>1, <2>2
<1>12. Covers((a \o <<c>>) \o b, m, e, relay.out)
  BY <1>3, <1>7, <1>8, <1>11, CoversJoin
<1>13. Track(q, m, e)'
  <2>1. Covers(message, q, m, relay.out)'
    BY <1>1, <1>2 DEF Track, Covers, Spans, Cut
  <2>2. Covers(sock.down, m, e, relay.out)'
    <3>1. sock'.down = (a \o <<c>>) \o b
      BY <1>4, <1>5
    <3> QED BY <1>2, <1>12, <3>1 DEF Covers, Spans, Cut
  <2> QED BY <1>1, <1>2, <2>1, <2>2 DEF Track
<1>14. Filed(q)'
  BY <1>1, <1>2, FiledKept
<1> QED BY <1>13, <1>14, Zenon DEF Downlink

LEMMA DownlinkProduced ==
  ASSUME Types, Downlink, NEW k \in {"DATA", "PING", "CLOSE", "BYE"}, RelayProduces(k)
  PROVE  Downlink'
<1>1. PICK q, m, e : Track(q, m, e) /\ Filed(q)
  BY DEF Downlink
<1>2. PICK f \in FrameType : relay'.out = Append(relay.out, f)
  BY Produced
<1>3. /\ relay'.pushed = relay.pushed /\ sock' = sock /\ message' = message /\ mode' = mode /\ cursor' = cursor
      /\ closed' = closed /\ got' = got /\ readBuf' = readBuf /\ inbox' = inbox /\ torn' = torn /\ eof' = eof
      /\ ~Has(relay.out, "CLOSE") /\ ~Has(relay.out, "BYE")
  BY DEF RelayProduces, client, history, socket, Types, NetworkTypes, RelayType
<1>4. relay.out \in Batch /\ relay.out \in Seq(FrameType) /\ message \in Seq(Element) /\ sock.down \in Seq(Element)
  BY ElementTyped
<1>5. q \in Nat /\ q <= Len(relay.out)
  BY <1>1, TrackBounds
<1>6. Track(q, m, e)'
  <2>1. Covers(message, q, m, Append(relay.out, f)) /\ Covers(sock.down, m, e, Append(relay.out, f))
    BY <1>1, <1>4, CoversLonger DEF Track
  <2>2. Covers(message, q, m, relay.out)' /\ Covers(sock.down, m, e, relay.out)'
    BY <1>2, <1>3, <2>1 DEF Covers, Spans, Cut
  <2> QED BY <1>1, <1>3, <2>2 DEF Track
<1>7. ASSUME NEW p \in 0..q
      PROVE  SubSeq(relay'.out, p + 1, q) = SubSeq(relay.out, p + 1, q)
  <2>1. p \in Nat /\ p <= q
    BY <1>5
  <2> QED BY <1>2, <1>4, <1>5, <2>1, PartOfLonger
<1>8. UnitsTo(q)' = UnitsTo(q) /\ \A p \in 0..q : UnitsTo(p)' = UnitsTo(p)
  <2>1. ASSUME NEW p \in 0..q PROVE UnitsTo(p)' = UnitsTo(p)
    <3>1. PICK o : o = 0
      OBVIOUS
    <3>2. o \in Nat /\ p \in Nat /\ o <= p /\ p <= Len(relay.out) /\ o + 1 = 1
      <4>1. Len(relay.out) \in Nat
        BY <1>4
      <4> QED BY <1>5, <3>1, <4>1
    <3>3. SubSeq(relay'.out, o + 1, p) = SubSeq(relay.out, o + 1, p)
      BY <1>2, <1>4, <3>2, PartOfLonger
    <3> QED BY <3>2, <3>3, Zenon DEF UnitsTo
  <2>2. q \in 0..q
    BY <1>5
  <2> QED BY <2>1, <2>2
<1>9. Filed(q)'
  <2>1. /\ Rising(got \o readBuf \o UnitsOf(inbox), Len(UnitsTo(q)))
        /\ ~torn => \E p \in 0..q : got \o readBuf = UnitsTo(p) /\ inbox = SubSeq(relay.out, p + 1, q)
        /\ ~(eof /\ ~torn)
    BY <1>1, <1>3 DEF Filed
  <2>2. Rising(got' \o readBuf' \o UnitsOf(inbox'), Len(UnitsTo(q)'))
    BY <1>3, <1>8, <2>1, Zenon
  <2>3. ASSUME ~torn'
        PROVE  \E p \in 0..q : got' \o readBuf' = UnitsTo(p)' /\ inbox' = SubSeq(relay'.out, p + 1, q)
    <3>1. PICK p \in 0..q : got \o readBuf = UnitsTo(p) /\ inbox = SubSeq(relay.out, p + 1, q)
      BY <1>3, <2>1, <2>3
    <3>2. got' \o readBuf' = UnitsTo(p)'
      BY <1>3, <1>8, <3>1, Zenon
    <3>3. inbox' = SubSeq(relay'.out, p + 1, q)
      BY <1>3, <1>7, <3>1, Zenon
    <3> QED BY <3>2, <3>3
  <2>4. ~(eof' /\ ~torn')
    BY <1>3, <2>1
  <2> QED BY <2>2, <2>3, <2>4, Zenon DEF Filed
<1> QED BY <1>6, <1>9, Zenon DEF Downlink

LEMMA DownlinkStep ==
  ASSUME Types, Release, Outgoing, Lanes, Answers, Downlink, Next
  PROVE  Downlink'
<1>1. ASSUME NEW ok \in BOOLEAN, FetchBridge(ok) PROVE Downlink'
  <2>1. TrackUntouched /\ got' = got /\ readBuf' = readBuf /\ inbox' = inbox /\ torn' = torn /\ eof' = eof
    BY <1>1 DEF FetchBridge, TrackUntouched, Reply, SendFails, Settled, client, history, socket
  <2> QED BY <2>1, DownlinkKept
<1>2. ASSUME NEW o \in {"refused", "lost", "malformed", "welcome"}, CreateSession(o) PROVE Downlink'
  <2>1. TrackUntouched /\ got' = got /\ readBuf' = readBuf /\ inbox' = inbox /\ torn' = torn /\ eof' = eof
    BY <1>2 DEF CreateSession, Types, NetworkTypes, SocketType, RelayType, TrackUntouched, Reply, SendFails, Settled, client, history, socket
  <2> QED BY <2>1, DownlinkKept
<1>3. ASSUME NEW m \in {"none", "https", "ws"}, ChooseTransport(m) PROVE Downlink'
  BY <1>3, DownlinkChosen
<1>4. ASSUME NEW ok \in BOOLEAN, Upgrade(ok) PROVE Downlink'
  <2>1. TrackUntouched /\ got' = got /\ readBuf' = readBuf /\ inbox' = inbox /\ torn' = torn /\ eof' = eof
    BY <1>4 DEF Upgrade, TrackUntouched, Reply, SendFails, Settled, client, history, socket
  <2> QED BY <2>1, DownlinkKept
<1>5. CASE Write
  <2>1. TrackUntouched /\ got' = got /\ readBuf' = readBuf /\ inbox' = inbox /\ torn' = torn /\ eof' = eof
    BY <1>5 DEF Write, TrackUntouched, Reply, SendFails, Settled, client, history, socket
  <2> QED BY <2>1, DownlinkKept
<1>6. CASE Read
  <2>1. TrackUntouched /\ got' = got /\ readBuf' = readBuf /\ inbox' = inbox /\ torn' = torn /\ eof' = eof
    BY <1>6 DEF Read, TrackUntouched, Reply, SendFails, Settled, client, history, socket
  <2> QED BY <2>1, DownlinkKept
<1>7. ASSUME NEW n \in 1..Len(readBuf), ReadBuffered(n) PROVE Downlink'
  BY <1>7, DownlinkRead
<1>8. CASE ReadEnds
  <2>1. TrackUntouched /\ got' = got /\ readBuf' = readBuf /\ inbox' = inbox /\ torn' = torn /\ eof' = eof
    BY <1>8 DEF ReadEnds, TrackUntouched, Reply, SendFails, Settled, client, history, socket
  <2> QED BY <2>1, DownlinkKept
<1>9. CASE Pump
  <2>1. TrackUntouched /\ got' = got /\ readBuf' = readBuf /\ inbox' = inbox /\ torn' = torn /\ eof' = eof
    BY <1>9 DEF Pump, TrackUntouched, Reply, SendFails, Settled, client, history, socket
  <2> QED BY <2>1, DownlinkKept
<1>10. CASE FilePing
  BY <1>10, DownlinkFiled
<1>11. CASE FileFrame
  BY <1>11, DownlinkFiled
<1>12. CASE PumpDone
  <2>1. TrackUntouched /\ got' = got /\ readBuf' = readBuf /\ inbox' = inbox /\ torn' = torn /\ eof' = eof
    BY <1>12 DEF PumpDone, TrackUntouched, Reply, SendFails, Settled, client, history, socket
  <2> QED BY <2>1, DownlinkKept
<1>13. CASE Close
  <2>1. TrackUntouched /\ got' = got /\ readBuf' = readBuf /\ inbox' = inbox /\ torn' = torn /\ eof' = eof
    BY <1>13 DEF Close, TrackUntouched, Reply, SendFails, Settled, client, history, socket
  <2> QED BY <2>1, DownlinkKept
<1>14. CASE DeleteSession
  BY <1>14, DownlinkDeleted
<1>15. CASE SendDone
  <2>1. TrackUntouched /\ got' = got /\ readBuf' = readBuf /\ inbox' = inbox /\ torn' = torn /\ eof' = eof
    BY <1>15 DEF SendDone, TrackUntouched, Reply, SendFails, Settled, client, history, socket
  <2> QED BY <2>1, DownlinkKept
<1>16. CASE SendRefused
  <2>1. TrackUntouched /\ got' = got /\ readBuf' = readBuf /\ inbox' = inbox /\ torn' = torn /\ eof' = eof
    BY <1>16 DEF SendRefused, TrackUntouched, Reply, SendFails, Settled, client, history, socket
  <2> QED BY <2>1, DownlinkKept
<1>17. CASE SendBusy
  <2>1. TrackUntouched /\ got' = got /\ readBuf' = readBuf /\ inbox' = inbox /\ torn' = torn /\ eof' = eof
    BY <1>17 DEF SendBusy, TrackUntouched, Reply, SendFails, Settled, client, history, socket
  <2> QED BY <2>1, DownlinkKept
<1>18. CASE ReceiveDone
  BY <1>18, DownlinkReceived
<1>19. CASE ReceiveBusy
  <2>1. TrackUntouched /\ got' = got /\ readBuf' = readBuf /\ inbox' = inbox /\ torn' = torn /\ eof' = eof
    BY <1>19 DEF ReceiveBusy, TrackUntouched, Reply, SendFails, Settled, client, history, socket
  <2> QED BY <2>1, DownlinkKept
<1>20. CASE ReceiveRefused
  <2>1. TrackUntouched /\ got' = got /\ readBuf' = readBuf /\ inbox' = inbox /\ torn' = torn /\ eof' = eof
    BY <1>20 DEF ReceiveRefused, TrackUntouched, Reply, SendFails, Settled, client, history, socket
  <2> QED BY <2>1, DownlinkKept
<1>21. CASE DeleteDone
  <2>1. TrackUntouched /\ got' = got /\ readBuf' = readBuf /\ inbox' = inbox /\ torn' = torn /\ eof' = eof
    BY <1>21 DEF DeleteDone, TrackUntouched, Reply, SendFails, Settled, client, history, socket
  <2> QED BY <2>1, DownlinkKept
<1>22. ASSUME NEW arrives \in BOOLEAN, GiveUp(arrives) PROVE Downlink'
  <2>1. TrackUntouched /\ got' = got /\ readBuf' = readBuf /\ inbox' = inbox /\ torn' = torn /\ eof' = eof
    BY <1>22 DEF GiveUp, TrackUntouched, Reply, SendFails, Settled, client, history, socket
  <2> QED BY <2>1, DownlinkKept
<1>23. CASE DeadlinePasses
  <2>1. TrackUntouched /\ got' = got /\ readBuf' = readBuf /\ inbox' = inbox /\ torn' = torn /\ eof' = eof
    BY <1>23 DEF DeadlinePasses, TrackUntouched, Reply, SendFails, Settled, client, history, socket
  <2> QED BY <2>1, DownlinkKept
<1>24. CASE SocketWrites
  <2>1. TrackUntouched /\ got' = got /\ readBuf' = readBuf /\ inbox' = inbox /\ torn' = torn /\ eof' = eof
    BY <1>24 DEF SocketWrites, Types, NetworkTypes, SocketType, RelayType, TrackUntouched, Reply, SendFails, Settled, client, history, socket
  <2> QED BY <2>1, DownlinkKept
<1>25. CASE SocketWriteFails
  <2>1. TrackUntouched /\ got' = got /\ readBuf' = readBuf /\ inbox' = inbox /\ torn' = torn /\ eof' = eof
    BY <1>25 DEF SocketWriteFails, Types, NetworkTypes, SocketType, RelayType, TrackUntouched, Reply, SendFails, Settled, client, history, socket
  <2> QED BY <2>1, DownlinkKept
<1>26. CASE SocketReads
  BY <1>26, DownlinkSocket
<1>27. ASSUME NEW b \in BOOLEAN, SocketReadsGarbage(b) PROVE Downlink'
  BY <1>27, DownlinkGarbled
<1>28. ASSUME NEW b \in BOOLEAN, SocketTimeOut(b) PROVE Downlink'
  BY <1>28, DownlinkTimedOut
<1>29. ASSUME NEW req \in wire, RelayCommits(req) PROVE Downlink'
  <2>1. TrackUntouched /\ got' = got /\ readBuf' = readBuf /\ inbox' = inbox /\ torn' = torn /\ eof' = eof
    BY <1>29, CommitKeeps DEF RelayCommits, TrackUntouched, Reply, SendFails, Settled, client, history, socket
  <2> QED BY <2>1, DownlinkKept
<1>30. ASSUME NEW req \in wire, RelayRepeats(req) PROVE Downlink'
  <2>1. TrackUntouched /\ got' = got /\ readBuf' = readBuf /\ inbox' = inbox /\ torn' = torn /\ eof' = eof
    BY <1>30 DEF RelayRepeats, TrackUntouched, Reply, SendFails, Settled, client, history, socket
  <2> QED BY <2>1, DownlinkKept
<1>31. ASSUME NEW req \in wire, RelaySeesGap(req) PROVE Downlink'
  <2>1. TrackUntouched /\ got' = got /\ readBuf' = readBuf /\ inbox' = inbox /\ torn' = torn /\ eof' = eof
    BY <1>31 DEF RelaySeesGap, Types, NetworkTypes, SocketType, RelayType, TrackUntouched, Reply, SendFails, Settled, client, history, socket
  <2> QED BY <2>1, DownlinkKept
<1>32. ASSUME NEW req \in wire, RelayBusy(req) PROVE Downlink'
  <2>1. TrackUntouched /\ got' = got /\ readBuf' = readBuf /\ inbox' = inbox /\ torn' = torn /\ eof' = eof
    BY <1>32 DEF RelayBusy, TrackUntouched, Reply, SendFails, Settled, client, history, socket
  <2> QED BY <2>1, DownlinkKept
<1>33. ASSUME NEW req \in wire, RelayGone(req) PROVE Downlink'
  <2>1. TrackUntouched /\ got' = got /\ readBuf' = readBuf /\ inbox' = inbox /\ torn' = torn /\ eof' = eof
    BY <1>33 DEF RelayGone, TrackUntouched, Reply, SendFails, Settled, client, history, socket
  <2> QED BY <2>1, DownlinkKept
<1>34. ASSUME NEW req \in wire, RelayDelivers(req) PROVE Downlink'
  <2>1. TrackUntouched /\ got' = got /\ readBuf' = readBuf /\ inbox' = inbox /\ torn' = torn /\ eof' = eof
    BY <1>34 DEF RelayDelivers, TrackUntouched, Reply, SendFails, Settled, client, history, socket
  <2> QED BY <2>1, DownlinkKept
<1>35. ASSUME NEW req \in wire, RelayDeletes(req) PROVE Downlink'
  <2>1. TrackUntouched /\ got' = got /\ readBuf' = readBuf /\ inbox' = inbox /\ torn' = torn /\ eof' = eof
    BY <1>35 DEF RelayDeletes, Types, NetworkTypes, SocketType, RelayType, TrackUntouched, Reply, SendFails, Settled, client, history, socket
  <2> QED BY <2>1, DownlinkKept
<1>36. CASE RelayForgets
  <2>1. TrackUntouched /\ got' = got /\ readBuf' = readBuf /\ inbox' = inbox /\ torn' = torn /\ eof' = eof
    BY <1>36 DEF RelayForgets, Types, NetworkTypes, SocketType, RelayType, TrackUntouched, Reply, SendFails, Settled, client, history, socket
  <2> QED BY <2>1, DownlinkKept
<1>37. CASE RelayTakes
  <2>1. TrackUntouched /\ got' = got /\ readBuf' = readBuf /\ inbox' = inbox /\ torn' = torn /\ eof' = eof
    BY <1>37, TakeKeeps DEF RelayTakes, TrackUntouched, Reply, SendFails, Settled, client, history, socket
  <2> QED BY <2>1, DownlinkKept
<1>38. ASSUME NEW cut \in 0..Len(relay.out), NEW to \in 0..Len(relay.out), NEW within \in BOOLEAN, RelayPushes(cut, to, within) PROVE Downlink'
  BY <1>38, DownlinkPushed
<1>39. ASSUME NEW op \in {"ping", "text", "close"}, NEW i \in 1..(Len(sock.down) + 1), RelayInserts(op, i) PROVE Downlink'
  BY <1>39, DownlinkInserted
<1>40. ASSUME NEW k \in {"DATA", "PING", "CLOSE", "BYE"}, RelayProduces(k) PROVE Downlink'
  BY <1>40, DownlinkProduced
<1> QED BY <1>1, <1>2, <1>3, <1>4, <1>5, <1>6, <1>7, <1>8, <1>9, <1>10, <1>11, <1>12, <1>13, <1>14, <1>15, <1>16, <1>17, <1>18, <1>19, <1>20, <1>21, <1>22, <1>23, <1>24, <1>25, <1>26, <1>27, <1>28, <1>29, <1>30, <1>31, <1>32, <1>33, <1>34, <1>35, <1>36, <1>37, <1>38, <1>39, <1>40 DEF Next, Dial, Call, Step, RelayHandles

-----------------------------------------------------------------------------
(* The way up.  A batch that brings the units written to y from x carries   *)
(* the one of a Write, or none.                                             *)
Brings(b, x, y) == \/ UnitsOf(b) = <<>> /\ y = x
                   \/ UnitsOf(b) = <<y>> /\ y = x + 1

(* The batches with a number, and the relay between two of them.            *)
Numbered(d) ==
  /\ d \in [0..upSeq -> Nat]
  /\ \A i, j \in 0..upSeq : i <= j => d[i] <= d[j]
  /\ d[relay.seq] = Len(relay.up) /\ d[upSeq] = written
  /\ \A r \in UpReqs : Brings(r.frames, d[r.seq - 1], d[r.seq])

(* The batches on their way over a WebSocket, and the one in hand.          *)
Queued(d) ==
  /\ d \in [0..Len(sock.up) -> Nat]
  /\ \A i, j \in 0..Len(sock.up) : i <= j => d[i] <= d[j]
  /\ d[0] = Len(relay.up)
  /\ \A k \in 1..Len(sock.up) : Brings(sock.up[k], d[k - 1], d[k])
  /\ d[Len(sock.up)] <= written
  /\ ~sock.fails => Brings(InHand, d[Len(sock.up)], written)

Uplink == /\ mode # "ws" => \E d : Numbered(d)
          /\ mode = "ws" => \E d : Queued(d)

(* What the relay appends when a batch reaches it. *)
Appends(b) == \/ UnitsOf(b) = <<>>
              \/ UnitsOf(b) = <<Len(relay.up) + 1>> /\ Len(relay.up) < written

LEMMA UplinkKept ==
  ASSUME Uplink, mode' = mode, upSeq' = upSeq, written' = written,
         relay'.seq = relay.seq, relay'.up = relay.up, sock'.up = sock.up,
         UpReqs' \subseteq UpReqs, ~sock'.fails => ~sock.fails /\ InHand' = InHand
  PROVE  Uplink'
<1>1. CASE mode # "ws"
  <2>1. PICK d : Numbered(d)
    BY <1>1 DEF Uplink
  <2>2. Numbered(d)'
    BY <2>1 DEF Numbered, Brings
  <2> QED BY <1>1, <2>2, Zenon DEF Uplink
<1>2. CASE mode = "ws"
  <2>1. PICK d : Queued(d)
    BY <1>2 DEF Uplink
  <2>2. Queued(d)'
    BY <2>1 DEF Queued, Brings
  <2> QED BY <1>2, <2>2, Zenon DEF Uplink
<1> QED BY <1>1, <1>2

LEMMA BringsNone ==
  ASSUME NEW x \in Nat, NEW y \in Nat
  PROVE  Brings(<<>>, x, y) <=> y = x
<1>1. UnitsOf(<<>>) = <<>> /\ <<>> # <<y>>
  BY UnitsOfNone
<1> QED BY <1>1 DEF Brings

(* A chain that goes one further. *)
Chain(d, n) == d \in [0..n -> Nat] /\ \A i, j \in 0..n : i <= j => d[i] <= d[j]

Longer(c, d, n, y) == Chain(c, n + 1) /\ c[n + 1] = y /\ \A i \in 0..n : c[i] = d[i]

LEMMA ChainLonger ==
  ASSUME NEW n \in Nat, NEW d, NEW y \in Nat, Chain(d, n), d[n] <= y
  PROVE  \E c : Longer(c, d, n, y)
<1> USE DEF Chain
<1>1. PICK c : c = [i \in 0..(n + 1) |-> IF i = n + 1 THEN y ELSE d[i]]
  OBVIOUS
<1>2. \A i \in 0..(n + 1) : i = n + 1 \/ i \in 0..n
  OBVIOUS
<1>3. c \in [0..(n + 1) -> Nat] /\ c[n + 1] = y /\ \A i \in 0..n : c[i] = d[i]
  BY <1>1, <1>2
<1>4. ASSUME NEW i \in 0..(n + 1), NEW j \in 0..(n + 1), i <= j
      PROVE  c[i] <= c[j]
  <2>1. CASE j \in 0..n
    <3>1. i \in 0..n
      BY <1>4, <2>1
    <3> QED BY <1>3, <1>4, <2>1, <3>1
  <2>2. CASE j = n + 1 /\ i \in 0..n
    <3>1. n \in 0..n /\ i <= n
      BY <2>2
    <3>2. d[i] <= d[n] /\ d[i] \in Nat /\ d[n] \in Nat
      BY <2>2, <3>1
    <3> QED BY <1>3, <2>2, <3>2
  <2>3. CASE j = n + 1 /\ i = n + 1
    BY <1>3, <2>3
  <2> QED BY <1>2, <2>1, <2>2, <2>3
<1> QED BY <1>3, <1>4 DEF Longer

LEMMA UplinkChosen ==
  ASSUME Types, Exchange, Order, Uplink, NEW t \in {"none", "https", "ws"}, ChooseTransport(t), pc = "transport" => mode = "none"
  PROVE  Uplink'
<1>1. /\ upSeq = 0 /\ sock.up = <<>> /\ InHand = <<>>
  BY InHandNone DEF ChooseTransport, Order, Dialing, Exchanging
<1>2. mode # "ws"
  BY DEF ChooseTransport
<1>3. /\ upSeq' = upSeq /\ written' = written /\ relay' = relay /\ sock' = sock /\ ex' = ex /\ wire' = wire /\ pc' # "wait"
  BY DEF ChooseTransport, client, history
<1>4. PICK d : Numbered(d)
  BY <1>2 DEF Uplink
<1>5. relay.seq = 0 /\ written \in Nat /\ relay.up \in Seq(Nat)
  BY <1>1 DEF Types, ClientTypes, NetworkTypes, RelayType, Order
<1>6. CASE mode' # "ws"
  <2>1. Numbered(d)'
    BY <1>3, <1>4 DEF Numbered, Brings, UpReqs
  <2> QED BY <1>6, <2>1, Zenon DEF Uplink
<1>7. CASE mode' = "ws"
  <2>1. d \in [0..0 -> Nat] /\ d[0] = Len(relay.up) /\ d[0] = written
    BY <1>1, <1>4, <1>5 DEF Numbered
  <2>2. InHand' = <<>>
    BY <1>3 DEF InHand, Exchanging
  <2>3. Brings(InHand', d[0], written)
    <3>1. d[0] \in Nat
      BY <2>1
    <3> QED BY <1>5, <2>1, <2>2, <3>1, BringsNone
  <2>4. Len(sock'.up) = 0
    BY <1>1, <1>3
  <2>5. Queued(d)'
    BY <1>3, <1>5, <2>1, <2>3, <2>4 DEF Queued, Brings
  <2> QED BY <1>7, <2>5, Zenon DEF Uplink
<1> QED BY <1>6, <1>7

(* A batch is sent. *)
LEMMA UplinkSent ==
  ASSUME Types, Exchange, Order, Types', Exchange', Uplink, pc # "wait",
         NEW cont, NEW b \in Batch, Send(cont, b), Brings(b, written, written'),
         mode' = mode, relay' = relay, sock' = sock
  PROVE  Uplink'
<1>1. upSeq \in Nat /\ written \in Nat /\ written' \in Nat /\ written <= written'
  BY DEF Types, ClientTypes, Brings
<1>2. InHand = <<>>
  BY InHandNone DEF Exchanging
<1>3. CASE mode = "ws" /\ SentMessage(b)
  <2>1. pc' = "wait" /\ ex'.req = [kind |-> "message", frames |-> b] /\ wire' = wire /\ upSeq' = upSeq
    BY <1>3 DEF SentMessage
  <2>2. InHand' = b
    BY <2>1 DEF InHand, Exchanging
  <2>3. PICK d : Queued(d)
    BY <1>3 DEF Uplink
  <2>4. sock.up \in Seq(Batch)
    BY DEF Types, NetworkTypes, SocketType
  <2>5. Len(sock.up) \in 0..Len(sock.up) /\ d[Len(sock.up)] \in Nat /\ d[Len(sock.up)] <= written
    BY <2>3, <2>4 DEF Queued
  <2>6. ~sock.fails => d[Len(sock.up)] = written
    BY <1>1, <1>2, <2>3, <2>5, BringsNone DEF Queued
  <2>7. d[Len(sock.up)] <= written'
    BY <1>1, <2>5
  <2>8. Queued(d)'
    BY <2>2, <2>3, <2>6, <2>7 DEF Queued, Brings
  <2> QED BY <1>3, <2>8, Zenon DEF Uplink
<1>4. CASE mode # "ws" /\ SentUp(b)
  <2> DEFINE new == UpRequest(upSeq + 1, b)
  <2>1. pc' = "wait" /\ ex'.req = new /\ wire' \in {wire, wire \cup {new}} /\ upSeq' = upSeq + 1
    BY <1>4 DEF SentUp
  <2>2. new.kind = "up" /\ new.seq = upSeq + 1 /\ new.frames = b
    BY DEF UpRequest
  <2> HIDE DEF new
  <2>3. PICK d : Numbered(d)
    BY <1>4 DEF Uplink
  <2>4. /\ d \in [0..upSeq -> Nat] /\ \A i, j \in 0..upSeq : i <= j => d[i] <= d[j]
        /\ d[upSeq] <= written' /\ d[upSeq] = written
    BY <1>1, <2>3 DEF Numbered
  <2>20. PICK c : Longer(c, d, upSeq, written')
    <3>1. Chain(d, upSeq) /\ d[upSeq] <= written'
      BY <2>4 DEF Chain
    <3> QED BY <1>1, <3>1, ChainLonger
  <2>5. /\ c \in [0..(upSeq + 1) -> Nat]
        /\ \A i \in 0..upSeq : c[i] = d[i]
        /\ c[upSeq + 1] = written'
        /\ \A i, j \in 0..(upSeq + 1) : i <= j => c[i] <= c[j]
    BY <2>20 DEF Longer, Chain
  <2>6. ASSUME NEW r \in UpReqs'
        PROVE  Brings(r.frames, c[r.seq - 1], c[r.seq])
    <3>1. r = new \/ r \in UpReqs
      BY <2>1 DEF UpReqs
    <3>2. CASE r = new
      <4>1. (upSeq + 1) - 1 = upSeq /\ upSeq \in 0..upSeq
        BY <1>1
      <4>2. c[upSeq] = written /\ c[upSeq + 1] = written'
        BY <2>4, <2>5, <4>1
      <4> QED BY <2>2, <3>2, <4>1, <4>2
    <3>3. CASE r \in UpReqs
      <4>1. r.seq \in 1..upSeq
        BY <3>3, UpReqsTyped
      <4>2. r.seq \in 0..upSeq /\ r.seq - 1 \in 0..upSeq
        BY <1>1, <4>1
      <4>3. Brings(r.frames, d[r.seq - 1], d[r.seq])
        BY <2>3, <3>3 DEF Numbered
      <4> QED BY <2>5, <4>2, <4>3
    <3> QED BY <3>1, <3>2, <3>3
  <2>7. relay.seq \in 0..upSeq
    BY <1>1 DEF Order, Types, NetworkTypes, RelayType
  <2>8. Numbered(c)'
    <3>1. c \in [0..upSeq' -> Nat] /\ \A i, j \in 0..upSeq' : i <= j => c[i] <= c[j]
      BY <2>1, <2>5
    <3>2. c[relay'.seq] = Len(relay'.up) /\ c[upSeq'] = written'
      BY <2>1, <2>3, <2>5, <2>7 DEF Numbered
    <3> QED BY <2>6, <3>1, <3>2, Zenon DEF Numbered
  <2> QED BY <1>4, <2>8, Zenon DEF Uplink
<1> QED BY <1>1, <1>3, <1>4, SendEffect, Zenon

(* The WebSocket takes the batch. *)
LEMMA UplinkTaken ==
  ASSUME Types, Exchange, Order, Uplink, SocketWrites
  PROVE  Uplink'
<1> DEFINE b == ex.req.frames
           n == Len(sock.up)
<1>1. /\ pc = "wait" /\ ex.req.kind = "message" /\ pc' # "wait" /\ wire' = wire /\ ~sock.fails
      /\ relay' = relay /\ mode' = mode /\ written' = written /\ upSeq' = upSeq
      /\ sock' = [sock EXCEPT !.up = Append(sock.up, b)]
  BY DEF SocketWrites, Resume, client
<1>2. mode = "ws" /\ InHand = b /\ InHand' = <<>> /\ b \in Batch
  BY <1>1, InHandTyped DEF Exchange, Exchanging, InHand, UpReq, DownReq, DeleteReq
<1>3. sock.up \in Seq(Batch) /\ n \in Nat /\ sock'.up = Append(sock.up, b) /\ written \in Nat
  BY <1>1 DEF Types, ClientTypes, NetworkTypes, SocketType
<1>4. PICK d : Queued(d)
  BY <1>2 DEF Uplink
<1>5. /\ d \in [0..n -> Nat] /\ \A i, j \in 0..n : i <= j => d[i] <= d[j]
      /\ d[n] <= written /\ d[0] = Len(relay.up)
      /\ \A k \in 1..n : Brings(sock.up[k], d[k - 1], d[k])
      /\ Brings(b, d[n], written)
  BY <1>1, <1>2, <1>4 DEF Queued
<1>11. PICK c : Longer(c, d, n, written)
  <2>1. Chain(d, n) /\ d[n] <= written
    BY <1>5 DEF Chain
  <2> HIDE DEF n
  <2> QED BY <1>3, <2>1, ChainLonger
<1>6. /\ c \in [0..(n + 1) -> Nat]
      /\ \A i \in 0..n : c[i] = d[i]
      /\ c[n + 1] = written
      /\ \A i, j \in 0..(n + 1) : i <= j => c[i] <= c[j]
  BY <1>11 DEF Longer, Chain
<1>7. /\ Len(sock'.up) = n + 1 /\ sock'.up[n + 1] = b
      /\ \A k \in 1..n : sock'.up[k] = sock.up[k]
  BY <1>2, <1>3
<1> HIDE DEF b, n
<1>8. ASSUME NEW k \in 1..(n + 1)
      PROVE  Brings(sock'.up[k], c[k - 1], c[k])
  <2>1. CASE k \in 1..n
    <3>1. k \in 0..n /\ k - 1 \in 0..n
      BY <1>3, <2>1
    <3> QED BY <1>5, <1>6, <1>7, <2>1, <3>1
  <2>2. CASE k = n + 1
    <3>1. k - 1 = n /\ n \in 0..n
      BY <1>3, <2>2
    <3> QED BY <1>5, <1>6, <1>7, <2>2, <3>1
  <2>3. k \in 1..n \/ k = n + 1
    BY <1>3
  <2> QED BY <2>1, <2>2, <2>3
<1>9. Brings(InHand', written, written)
  BY <1>2, <1>3, BringsNone
<1>10. Queued(c)'
  <2>1. c \in [0..Len(sock'.up) -> Nat] /\ \A i, j \in 0..Len(sock'.up) : i <= j => c[i] <= c[j]
    BY <1>6, <1>7
  <2>2. c[0] = Len(relay'.up)
    <3>1. 0 \in 0..n
      BY <1>3
    <3> QED BY <1>1, <1>5, <1>6, <3>1
  <2>3. \A k \in 1..Len(sock'.up) : Brings(sock'.up[k], c[k - 1], c[k])
    BY <1>7, <1>8
  <2>4. c[Len(sock'.up)] <= written' /\ Brings(InHand', c[Len(sock'.up)], written')
    BY <1>1, <1>3, <1>6, <1>7, <1>9
  <2> QED BY <2>1, <2>2, <2>3, <2>4, Zenon DEF Queued
<1> QED BY <1>1, <1>2, <1>10, Zenon DEF Uplink

(* The relay commits the batch that is next. *)
LEMMA UplinkCommitted ==
  ASSUME Types, Exchange, Order, Uplink, NEW req \in wire, RelayCommits(req)
  PROVE  /\ Uplink'
         /\ Appends(req.frames) /\ relay'.up = relay.up \o UnitsOf(req.frames) /\ written' = written
<1> DEFINE b == req.frames
<1>1. req \in UpReqs /\ req.kind = "up" /\ req.seq = relay.seq + 1 /\ req.seq \in 1..upSeq /\ b \in Batch
  BY UpReqsTyped DEF RelayCommits, UpReqs, UpReq
<1>2. mode # "ws"
  <2>1. upSeq # 0
    BY <1>1
  <2> QED BY <2>1 DEF Order
<1>3. After(b) \in RelayType /\ After(b).up = relay.up \o UnitsOf(b)
  BY <1>1, AfterTyped
<1>4. relay'.up = relay.up \o UnitsOf(b) /\ relay'.seq = req.seq
  <2>1. relay' = [After(b) EXCEPT !.seq = req.seq]
    BY DEF RelayCommits
  <2> HIDE DEF b
  <2> QED BY <1>3, <2>1 DEF RelayType
<1>5. wire' = wire \ {req} /\ ex' = ex /\ upSeq' = upSeq /\ written' = written /\ mode' = mode
  BY DEF RelayCommits, Reply, client, history, socket
<1>6. UpReqs' \subseteq UpReqs
  BY <1>5 DEF UpReqs
<1>7. PICK d : Numbered(d)
  BY <1>2 DEF Uplink
<1>8. relay.seq \in Nat /\ upSeq \in Nat /\ relay.up \in Seq(Nat) /\ written \in Nat
  BY DEF Types, ClientTypes, NetworkTypes, RelayType
<1>9. relay.seq \in 0..upSeq /\ relay.seq + 1 \in 0..upSeq /\ upSeq \in 0..upSeq /\ relay.seq + 1 <= upSeq
  BY <1>1, <1>8
<1>10. /\ d[relay.seq] = Len(relay.up) /\ d[upSeq] = written /\ d[relay.seq + 1] <= d[upSeq]
       /\ d[relay.seq + 1] \in Nat
  BY <1>7, <1>9 DEF Numbered
<1>11. Brings(b, Len(relay.up), d[relay.seq + 1])
  <2>1. req.seq - 1 = relay.seq
    BY <1>1, <1>8
  <2> QED BY <1>1, <1>7, <1>10, <2>1 DEF Numbered
<1> HIDE DEF b
<1>12. Len(relay.up \o UnitsOf(b)) = d[relay.seq + 1]
  <2>1. UnitsOf(b) \in Seq(Nat) /\ Len(<<d[relay.seq + 1]>>) = 1 /\ Len(<<>>) = 0
    BY <1>1, BatchCounts
  <2>2. Len(relay.up \o UnitsOf(b)) = Len(relay.up) + Len(UnitsOf(b)) /\ Len(relay.up) \in Nat
    BY <1>8, <2>1
  <2>3. CASE UnitsOf(b) = <<>> /\ d[relay.seq + 1] = Len(relay.up)
    BY <2>1, <2>2, <2>3
  <2>4. CASE UnitsOf(b) = <<d[relay.seq + 1]>> /\ d[relay.seq + 1] = Len(relay.up) + 1
    <3>1. Len(UnitsOf(b)) = 1
      BY <2>1, <2>4, Zenon
    <3> QED BY <2>2, <2>4, <3>1
  <2> QED BY <1>11, <2>3, <2>4 DEF Brings
<1>13. Numbered(d)'
  <2>1. d[relay'.seq] = Len(relay'.up) /\ d[upSeq'] = written'
    BY <1>1, <1>4, <1>5, <1>10, <1>12
  <2>2. \A r \in UpReqs' : Brings(r.frames, d[r.seq - 1], d[r.seq])
    BY <1>6, <1>7 DEF Numbered
  <2>3. d \in [0..upSeq' -> Nat] /\ \A i, j \in 0..upSeq' : i <= j => d[i] <= d[j]
    BY <1>5, <1>7 DEF Numbered
  <2> QED BY <2>1, <2>2, <2>3, Zenon DEF Numbered
<1>14. Appends(b)
  <2>1. CASE UnitsOf(b) = <<d[relay.seq + 1]>> /\ d[relay.seq + 1] = Len(relay.up) + 1
    <3>1. Len(relay.up) \in Nat /\ Len(relay.up) < written
      BY <1>8, <1>10, <2>1
    <3> QED BY <2>1, <3>1 DEF Appends
  <2>2. CASE UnitsOf(b) = <<>>
    BY <2>2 DEF Appends
  <2> QED BY <1>11, <2>1, <2>2 DEF Brings
<1> QED BY <1>2, <1>4, <1>5, <1>13, <1>14, Zenon DEF Uplink, b

(* The relay takes the next message off the WebSocket. *)
LEMMA UplinkReceived ==
  ASSUME Types, Exchange, Order, Uplink, RelayTakes
  PROVE  /\ Uplink'
         /\ Appends(Head(sock.up)) /\ relay'.up = relay.up \o UnitsOf(Head(sock.up)) /\ written' = written
<1> DEFINE b == Head(sock.up)
           n == Len(sock.up)
<1>1. sock.up \in Seq(Batch) /\ sock.up # <<>> /\ b \in Batch /\ sock'.up = Tail(sock.up) /\ sock'.fails = sock.fails
  BY DEF RelayTakes, Types, NetworkTypes, SocketType
<1>2. mode = "ws"
  BY <1>1 DEF Order
<1>3. relay'.up = relay.up \o UnitsOf(b) /\ relay'.seq = relay.seq
  BY <1>1, AfterTyped DEF RelayTakes
<1>4. pc' = pc /\ ex' = ex /\ wire' = wire /\ upSeq' = upSeq /\ written' = written /\ mode' = mode
  BY DEF RelayTakes, client, history
<1>5. InHand' = InHand
  BY <1>4 DEF InHand, Exchanging
<1>6. PICK d : Queued(d)
  BY <1>2 DEF Uplink
<1>7. /\ n \in Nat /\ n >= 1 /\ Len(sock'.up) = n - 1 /\ sock.up[1] = b
      /\ \A k \in 1..(n - 1) : sock'.up[k] = sock.up[k + 1]
  BY <1>1
<1>8. relay.up \in Seq(Nat) /\ written \in Nat /\ Len(relay.up) \in Nat
  BY DEF Types, ClientTypes, NetworkTypes, RelayType
<1>9. /\ d \in [0..n -> Nat] /\ \A i, j \in 0..n : i <= j => d[i] <= d[j]
      /\ d[n] <= written /\ d[0] = Len(relay.up)
      /\ \A k \in 1..n : Brings(sock.up[k], d[k - 1], d[k])
      /\ ~sock.fails => Brings(InHand, d[n], written)
  BY <1>6 DEF Queued
<1> HIDE DEF b, n
<1>10. /\ Brings(b, Len(relay.up), d[1]) /\ d[1] \in Nat /\ d[1] <= written
  <2>1. 1 \in 1..n /\ 1 \in 0..n /\ n \in 0..n /\ 1 <= n /\ 1 - 1 = 0
    BY <1>7
  <2>2. Brings(sock.up[1], d[1 - 1], d[1])
    BY <1>9, <2>1
  <2>3. d[1] <= d[n] /\ d[1] \in Nat /\ d[n] \in Nat
    BY <1>9, <2>1
  <2> QED BY <1>7, <1>8, <1>9, <2>1, <2>2, <2>3
<1>11. Len(relay.up \o UnitsOf(b)) = d[1]
  <2>1. UnitsOf(b) \in Seq(Nat) /\ Len(<<d[1]>>) = 1 /\ Len(<<>>) = 0
    BY <1>1, BatchCounts
  <2>2. Len(relay.up \o UnitsOf(b)) = Len(relay.up) + Len(UnitsOf(b)) /\ Len(relay.up) \in Nat
    BY <1>8, <2>1
  <2>3. CASE UnitsOf(b) = <<>> /\ d[1] = Len(relay.up)
    BY <2>1, <2>2, <2>3
  <2>4. CASE UnitsOf(b) = <<d[1]>> /\ d[1] = Len(relay.up) + 1
    <3>1. Len(UnitsOf(b)) = 1
      BY <2>1, <2>4, Zenon
    <3> QED BY <2>2, <2>4, <3>1
  <2> QED BY <1>10, <2>3, <2>4 DEF Brings
<1>12. PICK c : c = [k \in 0..(n - 1) |-> d[k + 1]]
  OBVIOUS
<1>13. \A k \in 0..(n - 1) : k + 1 \in 0..n /\ c[k] = d[k + 1] /\ d[k + 1] \in Nat
  BY <1>7, <1>9, <1>12
<1>14. Queued(c)'
  <2>1. c \in [0..(n - 1) -> Nat]
    BY <1>12, <1>13
  <2>2. ASSUME NEW i \in 0..(n - 1), NEW j \in 0..(n - 1), i <= j
        PROVE  c[i] <= c[j]
    <3>1. i + 1 <= j + 1
      BY <2>2
    <3> QED BY <1>9, <1>13, <3>1
  <2>3. c[0] = Len(relay'.up)
    <3>1. 0 \in 0..(n - 1) /\ 0 + 1 = 1
      BY <1>7
    <3>2. c[0] = d[1]
      BY <1>13, <3>1
    <3> QED BY <1>3, <1>11, <3>2
  <2>4. ASSUME NEW k \in 1..(n - 1)
        PROVE  Brings(sock'.up[k], c[k - 1], c[k])
    <3>1. k \in 0..(n - 1) /\ k - 1 \in 0..(n - 1) /\ (k - 1) + 1 = k /\ (k + 1) - 1 = k /\ k + 1 \in 1..n
      BY <1>7
    <3>2. Brings(sock.up[k + 1], d[(k + 1) - 1], d[k + 1])
      BY <1>9, <3>1
    <3>3. c[k - 1] = d[(k - 1) + 1] /\ c[k] = d[k + 1]
      BY <1>13, <3>1
    <3> QED BY <1>7, <3>1, <3>2, <3>3
  <2>5. c[n - 1] = d[n]
    <3>1. n - 1 \in 0..(n - 1) /\ (n - 1) + 1 = n
      BY <1>7
    <3> QED BY <1>13, <3>1
  <2>6. c[Len(sock'.up)] <= written' /\ (~sock'.fails => Brings(InHand', c[Len(sock'.up)], written'))
    BY <1>1, <1>4, <1>5, <1>7, <1>9, <2>5
  <2>7. /\ c \in [0..Len(sock'.up) -> Nat] /\ \A i, j \in 0..Len(sock'.up) : i <= j => c[i] <= c[j]
        /\ \A k \in 1..Len(sock'.up) : Brings(sock'.up[k], c[k - 1], c[k])
    BY <1>7, <2>1, <2>2, <2>4
  <2> QED BY <2>3, <2>6, <2>7, Zenon DEF Queued
<1>15. Appends(b)
  <2>1. CASE UnitsOf(b) = <<d[1]>> /\ d[1] = Len(relay.up) + 1
    <3>1. Len(relay.up) < written
      BY <1>8, <1>10, <2>1
    <3> QED BY <2>1, <3>1 DEF Appends
  <2>2. CASE UnitsOf(b) = <<>>
    BY <2>2 DEF Appends
  <2> QED BY <1>10, <2>1, <2>2 DEF Brings
<1> QED BY <1>2, <1>3, <1>4, <1>14, <1>15, Zenon DEF Uplink, b

LEMMA BringsNothing ==
  ASSUME Types, NEW b, UnitsOf(b) = <<>>, written' = written
  PROVE  Brings(b, written, written')
BY DEF Brings

LEMMA UplinkWrite ==
  ASSUME Types, Exchange, Order, Types', Exchange', Uplink, Write
  PROVE  Uplink'
<1>1. Chunk \in Batch /\ Send("write", Chunk) /\ UnitsOf(Chunk) = <<written + 1>>
  BY ChunkTyped, WriteSends, ChunkCounts
<1>2. pc # "wait" /\ mode' = mode /\ relay' = relay /\ sock' = sock /\ written' = written + 1
  BY DEF Write, socket
<1>3. Brings(Chunk, written, written')
  BY <1>1, <1>2 DEF Brings
<1> QED BY <1>1, <1>2, <1>3, UplinkSent

(* What most steps leave as it is. *)
UpUntouched ==
  /\ mode' = mode /\ upSeq' = upSeq /\ written' = written
  /\ relay'.seq = relay.seq /\ relay'.up = relay.up /\ sock'.up = sock.up /\ sock'.fails = sock.fails

LEMMA UplinkQuiet ==
  ASSUME Uplink, UpUntouched, UpReqs' \subseteq UpReqs, InHand' = InHand
  PROVE  Uplink'
BY UplinkKept DEF UpUntouched

LEMMA UplinkControl ==
  ASSUME Types, Exchange, Order, Types', Exchange', Uplink, pc # "wait",
         NEW cont, NEW b \in Batch, UnitsOf(b) = <<>>,
         Send(cont, b) \/ (pc' # "wait" /\ UNCHANGED <<ex, answer, wire, upSeq>>),
         mode' = mode, relay' = relay, sock' = sock, written' = written
  PROVE  Uplink'
<1>1. CASE Send(cont, b)
  <2>1. Brings(b, written, written') /\ pc # "wait"
    BY BringsNothing
  <2> QED BY <1>1, <2>1, UplinkSent
<1>2. CASE pc' # "wait" /\ UNCHANGED <<ex, answer, wire, upSeq>>
  <2>1. UpReqs' \subseteq UpReqs /\ InHand' = InHand
    BY <1>2 DEF UpReqs, InHand, Exchanging
  <2> QED BY <1>2, <2>1, UplinkQuiet DEF UpUntouched
<1> QED BY <1>1, <1>2

LEMMA UplinkRead ==
  ASSUME Types, Exchange, Order, Types', Exchange', Uplink, NEW n \in 1..Len(readBuf), ReadBuffered(n)
  PROVE  Uplink'
<1> DEFINE b == <<Frame("WINDOW", debt + n)>>
<1>1. debt + n \in Nat /\ b \in Batch
  BY ReadEffect
<1>2. UnitsOf(b) = <<>>
  BY <1>1, FrameCounts
<1>3. Send("grant", b) \/ (pc' # "wait" /\ UNCHANGED <<ex, answer, wire, upSeq>>)
  <2>1. Send("grant", b) \/ (pc' = "idle" /\ UNCHANGED <<ex, answer, wire, upSeq>>)
    BY ReadEffect, Zenon
  <2> QED BY <2>1
<1>4. pc # "wait" /\ mode' = mode /\ relay' = relay /\ sock' = sock /\ written' = written
  BY DEF ReadBuffered, socket
<1> QED BY <1>1, <1>2, <1>3, <1>4, UplinkControl

LEMMA UplinkPing ==
  ASSUME Types, Exchange, Order, Types', Exchange', Uplink, FilePing
  PROVE  Uplink'
<1> DEFINE b == <<Frame("PONG", 0)>>
<1>1. b \in Batch /\ Send("pong", b)
  BY PingEffect, Zenon
<1>2. UnitsOf(b) = <<>>
  BY FrameCounts
<1>3. pc # "wait" /\ mode' = mode /\ relay' = relay /\ sock' = sock /\ written' = written
  BY DEF FilePing, socket, history
<1> QED BY <1>1, <1>2, <1>3, UplinkControl

LEMMA UplinkClose ==
  ASSUME Types, Exchange, Order, Types', Exchange', Uplink, Close
  PROVE  Uplink'
<1> DEFINE b == <<Frame("CLOSE", 0)>>
<1>1. UnitsOf(b) = <<>>
  BY FrameCounts
<1>2. b \in Batch /\ (Send("close", b) \/ (pc' # "wait" /\ UNCHANGED <<ex, answer, wire, upSeq>>))
  <2>1. b \in Batch /\ (Send("close", b) \/ (pc' = "closing" /\ UNCHANGED <<ex, answer, wire, upSeq>>))
    BY CloseEffect, Zenon
  <2> QED BY <2>1
<1>3. pc # "wait" /\ mode' = mode /\ relay' = relay /\ sock' = sock /\ written' = written
  BY DEF Close, socket, history
<1> QED BY <1>1, <1>2, <1>3, UplinkControl

LEMMA UplinkWriteFails ==
  ASSUME Types, Uplink, SocketWriteFails
  PROVE  Uplink'
<1>1. wire' = wire /\ ex' = Idle /\ sock'.up = sock.up /\ sock'.fails
  BY DEF SocketWriteFails, Settled, Types, NetworkTypes, SocketType
<1>2. UpReqs' \subseteq UpReqs
  BY <1>1 DEF UpReqs, Idle
<1>3. mode' = mode /\ upSeq' = upSeq /\ written' = written /\ relay' = relay
  BY DEF SocketWriteFails, client
<1> QED BY <1>1, <1>2, <1>3, UplinkKept

LEMMA UplinkStep ==
  ASSUME Types, Exchange, Order, Types', Exchange', Lanes, Uplink, Next
  PROVE  Uplink'
<1>1. ASSUME NEW ok \in BOOLEAN, FetchBridge(ok) PROVE Uplink'
  <2>1. UpUntouched
    BY <1>1 DEF FetchBridge, UpUntouched, Types, NetworkTypes, RelayType, SocketType, Settled, Reply, SendFails, Resume, client, history, socket
  <2>2. UpReqs' \subseteq UpReqs /\ InHand' = InHand
    BY <1>1 DEF FetchBridge, UpReqs, InHand, Exchanging, Settled, Idle, Reply, SendFails, Resume, Await, DownRequest, client
  <2> QED BY <2>1, <2>2, UplinkQuiet
<1>2. ASSUME NEW o \in {"refused", "lost", "malformed", "welcome"}, CreateSession(o) PROVE Uplink'
  <2>1. UpUntouched
    BY <1>2 DEF CreateSession, UpUntouched, Types, NetworkTypes, RelayType, SocketType, Settled, Reply, SendFails, Resume, client, history, socket
  <2>2. UpReqs' \subseteq UpReqs /\ InHand' = InHand
    BY <1>2 DEF CreateSession, UpReqs, InHand, Exchanging, Settled, Idle, Reply, SendFails, Resume, Await, DownRequest, client
  <2> QED BY <2>1, <2>2, UplinkQuiet
<1>3. ASSUME NEW m \in {"none", "https", "ws"}, ChooseTransport(m) PROVE Uplink'
  <2>1. pc = "transport" => mode = "none"
    BY DEF Lanes
  <2> QED BY <1>3, <2>1, UplinkChosen
<1>4. ASSUME NEW ok \in BOOLEAN, Upgrade(ok) PROVE Uplink'
  <2>1. UpUntouched
    BY <1>4 DEF Upgrade, UpUntouched, Types, NetworkTypes, RelayType, SocketType, Settled, Reply, SendFails, Resume, client, history, socket
  <2>2. UpReqs' \subseteq UpReqs /\ InHand' = InHand
    BY <1>4 DEF Upgrade, UpReqs, InHand, Exchanging, Settled, Idle, Reply, SendFails, Resume, Await, DownRequest, client
  <2> QED BY <2>1, <2>2, UplinkQuiet
<1>5. CASE Write
  BY <1>5, UplinkWrite
<1>6. CASE Read
  <2>1. UpUntouched
    BY <1>6 DEF Read, UpUntouched, Types, NetworkTypes, RelayType, SocketType, Settled, Reply, SendFails, Resume, client, history, socket
  <2>2. UpReqs' \subseteq UpReqs /\ InHand' = InHand
    BY <1>6 DEF Read, UpReqs, InHand, Exchanging, Settled, Idle, Reply, SendFails, Resume, Await, DownRequest, client
  <2> QED BY <2>1, <2>2, UplinkQuiet
<1>7. ASSUME NEW n \in 1..Len(readBuf), ReadBuffered(n) PROVE Uplink'
  BY <1>7, UplinkRead
<1>8. CASE ReadEnds
  <2>1. UpUntouched
    BY <1>8 DEF ReadEnds, UpUntouched, Types, NetworkTypes, RelayType, SocketType, Settled, Reply, SendFails, Resume, client, history, socket
  <2>2. UpReqs' \subseteq UpReqs /\ InHand' = InHand
    BY <1>8 DEF ReadEnds, UpReqs, InHand, Exchanging, Settled, Idle, Reply, SendFails, Resume, Await, DownRequest, client
  <2> QED BY <2>1, <2>2, UplinkQuiet
<1>9. CASE Pump
  <2>1. UpUntouched
    BY <1>9 DEF Pump, UpUntouched, Types, NetworkTypes, RelayType, SocketType, Settled, Reply, SendFails, Resume, client, history, socket
  <2>2. UpReqs' \subseteq UpReqs /\ InHand' = InHand
    BY <1>9 DEF Pump, UpReqs, InHand, Exchanging, Settled, Idle, Reply, SendFails, Resume, Await, DownRequest, client
  <2> QED BY <2>1, <2>2, UplinkQuiet
<1>10. CASE FilePing
  BY <1>10, UplinkPing
<1>11. CASE FileFrame
  <2>1. UpUntouched
    BY <1>11 DEF FileFrame, UpUntouched, Types, NetworkTypes, RelayType, SocketType, Settled, Reply, SendFails, Resume, client, history, socket
  <2>2. UpReqs' \subseteq UpReqs /\ InHand' = InHand
    BY <1>11 DEF FileFrame, UpReqs, InHand, Exchanging, Settled, Idle, Reply, SendFails, Resume, Await, DownRequest, client
  <2> QED BY <2>1, <2>2, UplinkQuiet
<1>12. CASE PumpDone
  <2>1. UpUntouched
    BY <1>12 DEF PumpDone, UpUntouched, Types, NetworkTypes, RelayType, SocketType, Settled, Reply, SendFails, Resume, client, history, socket
  <2>2. UpReqs' \subseteq UpReqs /\ InHand' = InHand
    BY <1>12 DEF PumpDone, UpReqs, InHand, Exchanging, Settled, Idle, Reply, SendFails, Resume, Await, DownRequest, client
  <2> QED BY <2>1, <2>2, UplinkQuiet
<1>13. CASE Close
  BY <1>13, UplinkClose
<1>14. CASE DeleteSession
  <2>1. UpUntouched
    BY <1>14 DEF DeleteSession, UpUntouched, Types, NetworkTypes, RelayType, SocketType, Settled, Reply, SendFails, Resume, client, history, socket
  <2>2. UpReqs' \subseteq UpReqs /\ InHand' = InHand
    BY <1>14 DEF DeleteSession, UpReqs, InHand, Exchanging, Settled, Idle, Reply, SendFails, Resume, Await, DownRequest, client
  <2> QED BY <2>1, <2>2, UplinkQuiet
<1>15. CASE SendDone
  <2>1. UpUntouched
    BY <1>15 DEF SendDone, UpUntouched, Types, NetworkTypes, RelayType, SocketType, Settled, Reply, SendFails, Resume, client, history, socket
  <2>2. UpReqs' \subseteq UpReqs /\ InHand' = InHand
    BY <1>15 DEF SendDone, UpReqs, InHand, Exchanging, Settled, Idle, Reply, SendFails, Resume, Await, DownRequest, client
  <2> QED BY <2>1, <2>2, UplinkQuiet
<1>16. CASE SendRefused
  <2>1. UpUntouched
    BY <1>16 DEF SendRefused, UpUntouched, Types, NetworkTypes, RelayType, SocketType, Settled, Reply, SendFails, Resume, client, history, socket
  <2>2. UpReqs' \subseteq UpReqs /\ InHand' = InHand
    BY <1>16 DEF SendRefused, UpReqs, InHand, Exchanging, Settled, Idle, Reply, SendFails, Resume, Await, DownRequest, client
  <2> QED BY <2>1, <2>2, UplinkQuiet
<1>17. CASE SendBusy
  <2>1. UpUntouched
    BY <1>17 DEF SendBusy, UpUntouched, Types, NetworkTypes, RelayType, SocketType, Settled, Reply, SendFails, Resume, client, history, socket
  <2>2. UpReqs' \subseteq UpReqs /\ InHand' = InHand
    BY <1>17 DEF SendBusy, UpReqs, InHand, Exchanging, Settled, Idle, Reply, SendFails, Resume, Await, DownRequest, client
  <2> QED BY <2>1, <2>2, UplinkQuiet
<1>18. CASE ReceiveDone
  <2>1. UpUntouched
    BY <1>18 DEF ReceiveDone, UpUntouched, Types, NetworkTypes, RelayType, SocketType, Settled, Reply, SendFails, Resume, client, history, socket
  <2>2. UpReqs' \subseteq UpReqs /\ InHand' = InHand
    BY <1>18 DEF ReceiveDone, UpReqs, InHand, Exchanging, Settled, Idle, Reply, SendFails, Resume, Await, DownRequest, client
  <2> QED BY <2>1, <2>2, UplinkQuiet
<1>19. CASE ReceiveBusy
  <2>1. UpUntouched
    BY <1>19 DEF ReceiveBusy, UpUntouched, Types, NetworkTypes, RelayType, SocketType, Settled, Reply, SendFails, Resume, client, history, socket
  <2>2. UpReqs' \subseteq UpReqs /\ InHand' = InHand
    BY <1>19 DEF ReceiveBusy, UpReqs, InHand, Exchanging, Settled, Idle, Reply, SendFails, Resume, Await, DownRequest, client
  <2> QED BY <2>1, <2>2, UplinkQuiet
<1>20. CASE ReceiveRefused
  <2>1. UpUntouched
    BY <1>20 DEF ReceiveRefused, UpUntouched, Types, NetworkTypes, RelayType, SocketType, Settled, Reply, SendFails, Resume, client, history, socket
  <2>2. UpReqs' \subseteq UpReqs /\ InHand' = InHand
    BY <1>20 DEF ReceiveRefused, UpReqs, InHand, Exchanging, Settled, Idle, Reply, SendFails, Resume, Await, DownRequest, client
  <2> QED BY <2>1, <2>2, UplinkQuiet
<1>21. CASE DeleteDone
  <2>1. UpUntouched
    BY <1>21 DEF DeleteDone, UpUntouched, Types, NetworkTypes, RelayType, SocketType, Settled, Reply, SendFails, Resume, client, history, socket
  <2>2. UpReqs' \subseteq UpReqs /\ InHand' = InHand
    BY <1>21 DEF DeleteDone, UpReqs, InHand, Exchanging, Settled, Idle, Reply, SendFails, Resume, Await, DownRequest, client
  <2> QED BY <2>1, <2>2, UplinkQuiet
<1>22. ASSUME NEW arrives \in BOOLEAN, GiveUp(arrives) PROVE Uplink'
  <2>1. UpUntouched
    BY <1>22 DEF GiveUp, UpUntouched, Types, NetworkTypes, RelayType, SocketType, Settled, Reply, SendFails, Resume, client, history, socket
  <2>2. UpReqs' \subseteq UpReqs /\ InHand' = InHand
    BY <1>22 DEF GiveUp, UpReqs, InHand, Exchanging, Settled, Idle, Reply, SendFails, Resume, Await, DownRequest, client
  <2> QED BY <2>1, <2>2, UplinkQuiet
<1>23. CASE DeadlinePasses
  <2>1. UpUntouched
    BY <1>23 DEF DeadlinePasses, UpUntouched, Types, NetworkTypes, RelayType, SocketType, Settled, Reply, SendFails, Resume, client, history, socket
  <2>2. UpReqs' \subseteq UpReqs /\ InHand' = InHand
    BY <1>23 DEF DeadlinePasses, UpReqs, InHand, Exchanging, Settled, Idle, Reply, SendFails, Resume, Await, DownRequest, client
  <2> QED BY <2>1, <2>2, UplinkQuiet
<1>24. CASE SocketWrites
  BY <1>24, UplinkTaken
<1>25. CASE SocketWriteFails
  BY <1>25, UplinkWriteFails
<1>26. CASE SocketReads
  <2>1. /\ mode' = mode /\ upSeq' = upSeq /\ written' = written /\ relay' = relay
        /\ sock'.up = sock.up /\ (~sock'.fails => ~sock.fails)
    BY <1>26, SocketReadsEffect DEF SocketReads, client, history
  <2>2. pc = "receiving" /\ pc' \in {"receiving", "idle", "frames"} /\ ex' = ex /\ wire' = wire
    BY <1>26, SocketReadsEffect DEF ReceiveFails, MessageDone, SocketReads
  <2>3. UpReqs' \subseteq UpReqs /\ InHand' = InHand
    BY <2>2 DEF UpReqs, InHand, Exchanging
  <2> QED BY <2>1, <2>3, UplinkKept
<1>27. ASSUME NEW b \in BOOLEAN, SocketReadsGarbage(b) PROVE Uplink'
  <2>1. UpUntouched
    BY <1>27 DEF SocketReadsGarbage, Types, NetworkTypes, SocketType, UpUntouched, client, history
  <2>2. pc = "receiving" /\ pc' \in {"idle", "frames"} /\ ex' = ex /\ wire' = wire
    BY <1>27 DEF ReceiveFails, SocketReadsGarbage
  <2>3. UpReqs' \subseteq UpReqs /\ InHand' = InHand
    BY <2>2 DEF UpReqs, InHand, Exchanging
  <2> QED BY <2>1, <2>3, UplinkQuiet
<1>28. ASSUME NEW b \in BOOLEAN, SocketTimeOut(b) PROVE Uplink'
  <2>1. UpUntouched
    BY <1>28 DEF SocketTimeOut, UpUntouched, Types, NetworkTypes, RelayType, SocketType, Settled, Reply, SendFails, Resume, client, history, socket
  <2>2. UpReqs' \subseteq UpReqs /\ InHand' = InHand
    BY <1>28 DEF SocketTimeOut, UpReqs, InHand, Exchanging, Settled, Idle, Reply, SendFails, Resume, Await, DownRequest, client
  <2> QED BY <2>1, <2>2, UplinkQuiet
<1>29. ASSUME NEW req \in wire, RelayCommits(req) PROVE Uplink'
  BY <1>29, UplinkCommitted
<1>30. ASSUME NEW req \in wire, RelayRepeats(req) PROVE Uplink'
  <2>1. UpUntouched
    BY <1>30 DEF RelayRepeats, UpUntouched, Types, NetworkTypes, RelayType, SocketType, Settled, Reply, SendFails, Resume, client, history, socket
  <2>2. UpReqs' \subseteq UpReqs /\ InHand' = InHand
    BY <1>30 DEF RelayRepeats, UpReqs, InHand, Exchanging, Settled, Idle, Reply, SendFails, Resume, Await, DownRequest, client
  <2> QED BY <2>1, <2>2, UplinkQuiet
<1>31. ASSUME NEW req \in wire, RelaySeesGap(req) PROVE Uplink'
  <2>1. UpUntouched
    BY <1>31 DEF RelaySeesGap, UpUntouched, Types, NetworkTypes, RelayType, SocketType, Settled, Reply, SendFails, Resume, client, history, socket
  <2>2. UpReqs' \subseteq UpReqs /\ InHand' = InHand
    BY <1>31 DEF RelaySeesGap, UpReqs, InHand, Exchanging, Settled, Idle, Reply, SendFails, Resume, Await, DownRequest, client
  <2> QED BY <2>1, <2>2, UplinkQuiet
<1>32. ASSUME NEW req \in wire, RelayBusy(req) PROVE Uplink'
  <2>1. UpUntouched
    BY <1>32 DEF RelayBusy, UpUntouched, Types, NetworkTypes, RelayType, SocketType, Settled, Reply, SendFails, Resume, client, history, socket
  <2>2. UpReqs' \subseteq UpReqs /\ InHand' = InHand
    BY <1>32 DEF RelayBusy, UpReqs, InHand, Exchanging, Settled, Idle, Reply, SendFails, Resume, Await, DownRequest, client
  <2> QED BY <2>1, <2>2, UplinkQuiet
<1>33. ASSUME NEW req \in wire, RelayGone(req) PROVE Uplink'
  <2>1. UpUntouched
    BY <1>33 DEF RelayGone, UpUntouched, Types, NetworkTypes, RelayType, SocketType, Settled, Reply, SendFails, Resume, client, history, socket
  <2>2. UpReqs' \subseteq UpReqs /\ InHand' = InHand
    BY <1>33 DEF RelayGone, UpReqs, InHand, Exchanging, Settled, Idle, Reply, SendFails, Resume, Await, DownRequest, client
  <2> QED BY <2>1, <2>2, UplinkQuiet
<1>34. ASSUME NEW req \in wire, RelayDelivers(req) PROVE Uplink'
  <2>1. UpUntouched
    BY <1>34 DEF RelayDelivers, UpUntouched, Types, NetworkTypes, RelayType, SocketType, Settled, Reply, SendFails, Resume, client, history, socket
  <2>2. UpReqs' \subseteq UpReqs /\ InHand' = InHand
    BY <1>34 DEF RelayDelivers, UpReqs, InHand, Exchanging, Settled, Idle, Reply, SendFails, Resume, Await, DownRequest, client
  <2> QED BY <2>1, <2>2, UplinkQuiet
<1>35. ASSUME NEW req \in wire, RelayDeletes(req) PROVE Uplink'
  <2>1. UpUntouched
    BY <1>35 DEF RelayDeletes, UpUntouched, Types, NetworkTypes, RelayType, SocketType, Settled, Reply, SendFails, Resume, client, history, socket
  <2>2. UpReqs' \subseteq UpReqs /\ InHand' = InHand
    BY <1>35 DEF RelayDeletes, UpReqs, InHand, Exchanging, Settled, Idle, Reply, SendFails, Resume, Await, DownRequest, client
  <2> QED BY <2>1, <2>2, UplinkQuiet
<1>36. CASE RelayForgets
  <2>1. UpUntouched
    BY <1>36 DEF RelayForgets, UpUntouched, Types, NetworkTypes, RelayType, SocketType, Settled, Reply, SendFails, Resume, client, history, socket
  <2>2. UpReqs' \subseteq UpReqs /\ InHand' = InHand
    BY <1>36 DEF RelayForgets, UpReqs, InHand, Exchanging, Settled, Idle, Reply, SendFails, Resume, Await, DownRequest, client
  <2> QED BY <2>1, <2>2, UplinkQuiet
<1>37. CASE RelayTakes
  BY <1>37, UplinkReceived
<1>38. ASSUME NEW cut \in 0..Len(relay.out), NEW to \in 0..Len(relay.out), NEW within \in BOOLEAN, RelayPushes(cut, to, within) PROVE Uplink'
  <2>1. UpUntouched
    BY <1>38 DEF RelayPushes, UpUntouched, Types, NetworkTypes, RelayType, SocketType, Settled, Reply, SendFails, Resume, client, history, socket
  <2>2. UpReqs' \subseteq UpReqs /\ InHand' = InHand
    BY <1>38 DEF RelayPushes, UpReqs, InHand, Exchanging, Settled, Idle, Reply, SendFails, Resume, Await, DownRequest, client
  <2> QED BY <2>1, <2>2, UplinkQuiet
<1>39. ASSUME NEW op \in {"ping", "text", "close"}, NEW i \in 1..(Len(sock.down) + 1), RelayInserts(op, i) PROVE Uplink'
  <2>1. UpUntouched
    BY <1>39 DEF RelayInserts, UpUntouched, Types, NetworkTypes, RelayType, SocketType, Settled, Reply, SendFails, Resume, client, history, socket
  <2>2. UpReqs' \subseteq UpReqs /\ InHand' = InHand
    BY <1>39 DEF RelayInserts, UpReqs, InHand, Exchanging, Settled, Idle, Reply, SendFails, Resume, Await, DownRequest, client
  <2> QED BY <2>1, <2>2, UplinkQuiet
<1>40. ASSUME NEW k \in {"DATA", "PING", "CLOSE", "BYE"}, RelayProduces(k) PROVE Uplink'
  <2>1. UpUntouched
    BY <1>40, Produced DEF RelayProduces, UpUntouched, client, history, socket
  <2>2. UpReqs' \subseteq UpReqs /\ InHand' = InHand
    BY <1>40 DEF RelayProduces, UpReqs, InHand, Exchanging
  <2> QED BY <2>1, <2>2, UplinkQuiet
<1> QED BY <1>1, <1>2, <1>3, <1>4, <1>5, <1>6, <1>7, <1>8, <1>9, <1>10, <1>11, <1>12, <1>13, <1>14, <1>15, <1>16, <1>17, <1>18, <1>19, <1>20, <1>21, <1>22, <1>23, <1>24, <1>25, <1>26, <1>27, <1>28, <1>29, <1>30, <1>31, <1>32, <1>33, <1>34, <1>35, <1>36, <1>37, <1>38, <1>39, <1>40 DEF Next, Dial, Call, Step, RelayHandles

-----------------------------------------------------------------------------
(* What is sent, on its way and read, on top of Inv.                        *)
Content == Outgoing /\ Lanes /\ Answers /\ Downlink /\ Uplink

LEMMA ContentInit == Init => Content
<1> SUFFICES ASSUME Init PROVE Content
  OBVIOUS
<1>1. Types /\ relay.out = <<>> /\ UnitsOf(<<>>) = <<>>
  BY InvInit, UnitsOfNone DEF Inv, Init
<1>2. Outgoing
  BY <1>1 DEF Outgoing, Counting
<1>3. Lanes /\ Answers
  BY DEF Init, Lanes, Answers, Exchanging, Dialing
<1>4. Downlink
  <2>1. PICK o : o = 0
    OBVIOUS
  <2>2. o \in 0..Len(relay.out) /\ relay.out \in Batch /\ o \in 0..o
    <3>1. <<>> \in Batch
      BY DEF Batch
    <3> QED BY <1>1, <2>1, <3>1
  <2>3. Covers(<<>>, o, o, relay.out)
    BY <2>2, CoversNone
  <2>4. Track(o, o, o)
    BY <2>1, <2>3 DEF Track, Init
  <2>5. SubSeq(relay.out, 1, o) = <<>> /\ SubSeq(relay.out, o + 1, o) = <<>>
    BY <1>1, <2>1
  <2>6. UnitsTo(o) = <<>>
    BY <1>1, <2>5 DEF UnitsTo
  <2>7. got \o readBuf = <<>> /\ (got \o readBuf) \o UnitsOf(inbox) = <<>> /\ inbox = <<>> /\ ~eof
    BY <1>1 DEF Init
  <2>8. Rising(<<>>, Len(<<>>))
    BY DEF Rising
  <2>9. Rising(got \o readBuf \o UnitsOf(inbox), Len(UnitsTo(o)))
    BY <2>6, <2>7, <2>8
  <2>10. got \o readBuf = UnitsTo(o) /\ inbox = SubSeq(relay.out, o + 1, o)
    BY <2>5, <2>6, <2>7
  <2>11. Filed(o)
    BY <2>2, <2>7, <2>9, <2>10 DEF Filed
  <2> QED BY <2>4, <2>11 DEF Downlink
<1>5. Uplink
  <2>1. PICK Z : Z = [i \in 0..0 |-> 0]
    OBVIOUS
  <2>2. upSeq = 0 /\ relay.seq = 0 /\ Len(relay.up) = 0 /\ written = 0 /\ UpReqs = {} /\ mode # "ws"
    BY DEF Init, UpReqs, Idle
  <2>3. Numbered(Z)
    BY <2>1, <2>2 DEF Numbered
  <2> QED BY <2>2, <2>3 DEF Uplink
<1> QED BY <1>2, <1>3, <1>4, <1>5 DEF Content

LEMMA ContentStep == Inv /\ Content /\ [Next]_vars => Content'
<1> SUFFICES ASSUME Inv, Content, [Next]_vars PROVE Content'
  OBVIOUS
<1>1. Types /\ Exchange /\ Order /\ Release /\ Types' /\ Exchange'
  BY InvStep DEF Inv
<1>2. Outgoing /\ Lanes /\ Answers /\ Downlink /\ Uplink
  BY DEF Content
<1>3. CASE Next
  <2>1. Outgoing'
    BY <1>1, <1>2, <1>3, OutgoingStep
  <2>2. Lanes'
    BY <1>1, <1>2, <1>3, LanesStep
  <2>3. Answers'
    BY <1>1, <1>2, <1>3, AnswersStep
  <2>4. Downlink'
    BY <1>1, <1>2, <1>3, DownlinkStep
  <2>5. Uplink'
    BY <1>1, <1>2, <1>3, UplinkStep
  <2> QED BY <2>1, <2>2, <2>3, <2>4, <2>5 DEF Content
<1>4. CASE UNCHANGED vars
  <2> USE <1>4 DEF vars, client, history, socket
  <2>1. Outgoing' /\ Lanes' /\ Answers'
    BY <1>2 DEF Outgoing, Lanes, Answers, Exchanging
  <2>2. Downlink'
    BY <1>2, DownlinkKept DEF TrackUntouched
  <2>3. Uplink'
    <3>1. UpReqs' = UpReqs /\ InHand' = InHand
      BY DEF UpReqs, InHand, Exchanging
    <3> QED BY <1>2, <3>1, UplinkKept
  <2> QED BY <2>1, <2>2, <2>3 DEF Content
<1> QED BY <1>3, <1>4

THEOREM ContentHolds == Spec => [](Inv /\ Content)
<1>1. Init => Inv /\ Content
  BY InvInit, ContentInit
<1>2. Inv /\ Content /\ [Next]_vars => (Inv /\ Content)'
  BY InvStep, ContentStep
<1> QED BY <1>1, <1>2, PTL DEF Spec

LEMMA ContentWhole == Inv /\ Content => NoTruncation
<1> SUFFICES ASSUME Inv, Content, eof, ~torn
             PROVE  got \o readBuf \o UnitsOf(inbox) = UnitsOf(relay.out)
  BY DEF NoTruncation
<1>1. Types /\ Outgoing
  BY DEF Inv, Content
<1>2. PICK q, m, e : Track(q, m, e) /\ Filed(q)
  BY DEF Content, Downlink
<1>3. q = Len(relay.out) /\ q \in Nat
  BY <1>1, <1>2, TrackBounds DEF Filed
<1>4. PICK p \in 0..q : got \o readBuf = UnitsTo(p) /\ inbox = SubSeq(relay.out, p + 1, q)
  BY <1>2 DEF Filed
<1>5. p \in Nat /\ p <= q /\ q <= Len(relay.out)
  BY <1>3
<1>6. UnitsTo(q) = UnitsTo(p) \o UnitsOf(SubSeq(relay.out, p + 1, q))
  BY <1>1, <1>3, <1>5, UnitsToSplit
<1>7. UnitsTo(q) = UnitsOf(relay.out)
  BY <1>1, <1>3, UnitsToAll
<1> QED BY <1>4, <1>6, <1>7, Zenon

(* The end of the stream loses nothing, over either transport, as long as   *)
(* no receive gave up inside a message: what is read, buffered or about to  *)
(* be filed away once eof is set is everything the relay sent, whatever was *)
(* refused, repeated or answered in vain (receive's cursor, pump's eof,     *)
(* X-Lane-Closed, the fragments of wsCarrier.receive).                      *)
THEOREM EndLosesNothing == Spec => []NoTruncation
BY ContentHolds, ContentWhole, PTL

-----------------------------------------------------------------------------
(* The carrier implements ByteStream, step by step.  Most steps change      *)
(* nothing the abstract connection shows.                                   *)
Sent == UnitsOf(relay.out)

Stays == written' = written /\ relay'.up = relay.up /\ relay'.out = relay.out /\ got' = got /\ torn' = torn

Implemented == [Stream!Next]_(Stream!vars)

LEMMA StaysImplemented == Stays => Implemented
<1> SUFFICES ASSUME Stays PROVE UNCHANGED Stream!vars
  BY DEF Implemented
<1>1. UnitsOf(relay.out)' = UnitsOf(relay.out)
  BY DEF Stays
<1> QED BY <1>1 DEF Stays, Stream!vars

LEMMA TearImplemented ==
  ASSUME written' = written, relay'.up = relay.up, relay'.out = relay.out, got' = got, torn' = torn \/ torn' = TRUE
  PROVE  Implemented
<1>1. CASE torn' = torn
  BY <1>1, StaysImplemented DEF Stays
<1>2. CASE torn' = TRUE
  <2>1. UnitsOf(relay.out)' = UnitsOf(relay.out)
    OBVIOUS
  <2>2. Stream!Tear
    BY <1>2, <2>1 DEF Stream!Tear
  <2> QED BY <2>2 DEF Implemented, Stream!Next
<1> QED BY <1>1, <1>2

(* A Write is the abstract Write; what it sends is not there yet. *)
LEMMA WriteImplemented ==
  ASSUME Write
  PROVE  Implemented
<1>1. written' = written + 1 /\ relay' = relay /\ got' = got /\ torn' = torn
  BY DEF Write, socket
<1>2. Stream!Write
  BY <1>1 DEF Stream!Write
<1> QED BY <1>2 DEF Implemented, Stream!Next

(* A batch reaches the relay with the unit of one Write, or none. *)
LEMMA BatchImplemented ==
  ASSUME Types, NEW b, Appends(b), relay'.up = relay.up \o UnitsOf(b), written' = written,
         relay'.out = relay.out, got' = got, torn' = torn
  PROVE  Implemented
<1>1. relay.up \in Seq(Nat) /\ Len(relay.up) \in Nat
  BY DEF Types, NetworkTypes, RelayType
<1>2. CASE UnitsOf(b) = <<>>
  <2>1. relay'.up = relay.up
    BY <1>1, <1>2
  <2> QED BY <2>1, StaysImplemented DEF Stays
<1>3. CASE UnitsOf(b) = <<Len(relay.up) + 1>> /\ Len(relay.up) < written
  <2>1. relay'.up = Append(relay.up, Len(relay.up) + 1)
    BY <1>1, <1>3
  <2>2. UnitsOf(relay.out)' = UnitsOf(relay.out)
    OBVIOUS
  <2>3. Stream!Receive
    BY <1>3, <2>1, <2>2 DEF Stream!Receive
  <2> QED BY <2>3 DEF Implemented, Stream!Next
<1> QED BY <1>2, <1>3 DEF Appends

LEMMA CommitImplemented ==
  ASSUME Types, Exchange, Order, Uplink, NEW req \in wire, RelayCommits(req)
  PROVE  Implemented
<1>1. Appends(req.frames) /\ relay'.up = relay.up \o UnitsOf(req.frames) /\ written' = written
  BY UplinkCommitted
<1>2. relay'.out = relay.out
  BY CommitKeeps
<1>3. got' = got /\ torn' = torn
  BY DEF RelayCommits, Reply, history, socket
<1> QED BY <1>1, <1>2, <1>3, BatchImplemented

LEMMA TakeImplemented ==
  ASSUME Types, Exchange, Order, Uplink, RelayTakes
  PROVE  Implemented
<1>1. Appends(Head(sock.up)) /\ relay'.up = relay.up \o UnitsOf(Head(sock.up)) /\ written' = written
  BY UplinkReceived
<1>2. relay'.out = relay.out
  BY TakeKeeps
<1>3. got' = got /\ torn' = torn
  BY DEF RelayTakes, history
<1> QED BY <1>1, <1>2, <1>3, BatchImplemented

LEMMA SendImplemented ==
  ASSUME Types, NEW k \in {"DATA", "PING", "CLOSE", "BYE"}, RelayProduces(k)
  PROVE  Implemented
<1>1. written' = written /\ relay'.up = relay.up /\ got' = got /\ torn' = torn
  BY Produced DEF RelayProduces, history, socket
<1>2. CASE k = "DATA"
  <2>1. UnitsOf(relay'.out) = Append(UnitsOf(relay.out), Len(UnitsOf(relay.out)) + 1)
    BY <1>2, Produced DEF Frame
  <2>2. Stream!Send
    BY <1>1, <2>1 DEF Stream!Send
  <2> QED BY <2>2 DEF Implemented, Stream!Next
<1>3. CASE k # "DATA"
  <2>1. UnitsOf(relay'.out) = UnitsOf(relay.out)
    BY <1>3, Produced
  <2>2. UNCHANGED Stream!vars
    BY <1>1, <2>1 DEF Stream!vars
  <2> QED BY <2>2 DEF Implemented
<1> QED BY <1>2, <1>3

LEMMA ConcatLength ==
  ASSUME NEW a \in Seq(Nat), NEW b \in Seq(Nat)
  PROVE  a \o b \in Seq(Nat) /\ Len(a \o b) = Len(a) + Len(b) /\ Len(a) \in Nat /\ Len(b) \in Nat
OBVIOUS

(* What one Read hands out continues what was read before. *)
LEMMA StartOf ==
  ASSUME NEW s \in Seq(Nat), NEW a \in Seq(Nat), NEW t \in Seq(Nat)
  PROVE  s \o a = SubSeq((s \o a) \o t, 1, Len(s \o a))
<1> DEFINE u == s \o a
           w == u \o t
<1>1. u \in Seq(Nat)
  OBVIOUS
<1> HIDE DEF u
<1>2. w \in Seq(Nat) /\ Len(u) \in Nat /\ Len(u) <= Len(w) /\ \A i \in 1..Len(u) : w[i] = u[i]
  BY <1>1
<1> HIDE DEF w
<1>3. SubSeq(w, 1, Len(u)) \in Seq(Nat) /\ Len(SubSeq(w, 1, Len(u))) = Len(u)
      /\ \A i \in 1..Len(u) : SubSeq(w, 1, Len(u))[i] = w[i]
  BY <1>2
<1>4. u = SubSeq(w, 1, Len(u))
  BY <1>1, <1>2, <1>3
<1> QED BY <1>4 DEF u, w

LEMMA StrictStart ==
  ASSUME NEW s \in Seq(Nat), NEW a \in Seq(Nat), Len(a) > 0
  PROVE  IsStrictPrefix(s, s \o a)
<1> DEFINE u == s \o a
<1>1. u \in Seq(Nat) /\ Len(u) = Len(s) + Len(a) /\ Len(s) \in Nat /\ Len(a) \in Nat
      /\ \A i \in 1..Len(s) : u[i] = s[i]
  OBVIOUS
<1> HIDE DEF u
<1>2. SubSeq(s, 1, Len(s)) = SubSeq(u, 1, Len(s))
  BY <1>1
<1>3. Len(s) <= Len(u) /\ s # u
  BY <1>1
<1> QED BY <1>2, <1>3 DEF IsStrictPrefix, IsPrefix, u

LEMMA ReadImplemented ==
  ASSUME Types, Outgoing, Downlink, NEW n \in 1..Len(readBuf), ReadBuffered(n)
  PROVE  Implemented
<1> DEFINE a == SubSeq(readBuf, 1, n)
           b == SubSeq(readBuf, n + 1, Len(readBuf))
<1>1. got \in Seq(Nat) /\ readBuf \in Seq(Nat) /\ n \in Nat /\ n > 0 /\ got \o readBuf \in Seq(Nat)
      /\ UnitsOf(inbox) \in Seq(Nat)
  BY Reads
<1>2. a \in Seq(Nat) /\ b \in Seq(Nat) /\ Len(a) = n
  BY <1>1
<1>3. a \o b = readBuf
  BY <1>1, PartsWhole
<1>4. got' = got \o a
  BY DEF ReadBuffered
<1> HIDE DEF a, b
<1>5. got \o readBuf = got' \o b /\ got' \in Seq(Nat) /\ Len(got') = Len(got) + n /\ Len(got) \in Nat
  <2>1. (got \o a) \o b = got \o (a \o b)
    BY <1>1, <1>2, ConcatNat, ZenonT(40)
  <2>2. got \o a \in Seq(Nat) /\ Len(got \o a) = Len(got) + Len(a) /\ Len(got) \in Nat
    BY <1>1, <1>2, ConcatLength
  <2> QED BY <1>2, <1>3, <1>4, <2>1, <2>2
<1>6. written' = written /\ relay' = relay /\ torn' = torn
  BY DEF ReadBuffered, socket
<1>7. UnitsOf(relay.out)' = UnitsOf(relay.out)
  BY <1>6
<1>8. PICK q, m, e : Track(q, m, e) /\ Filed(q)
  BY DEF Downlink
<1>9. q \in Nat /\ q <= Len(relay.out) /\ Len(relay.out) \in Nat
  BY <1>8, TrackBounds
<1>10. CASE ~torn
  <2>1. PICK p \in 0..q : got \o readBuf = UnitsTo(p)
    BY <1>8, <1>10 DEF Filed
  <2>2. p \in Nat /\ p <= Len(relay.out)
    BY <1>9
  <2> DEFINE L == Len(relay.out)
           t == UnitsOf(SubSeq(relay.out, p + 1, L))
  <2>3. t \in Seq(Nat) /\ UnitsTo(L) = UnitsTo(p) \o t
    <3>1. L \in Nat /\ p \in Nat /\ p <= L /\ L <= Len(relay.out)
      BY <1>9, <2>2
    <3> HIDE DEF L
    <3> QED BY <3>1, UnitsToSplit
  <2> HIDE DEF t
  <2>4. Sent = (got' \o b) \o t
    BY <1>5, <2>1, <2>3, UnitsToAll DEF Sent
  <2>5. b \o t \in Seq(Nat) /\ (got' \o b) \o t = got' \o (b \o t)
    <3>1. b \o t \in Seq(Nat)
      BY <1>2, <2>3
    <3> QED BY <1>2, <1>5, <2>3, <3>1, ConcatNat
  <2>6. got' = SubSeq(Sent, 1, Len(got'))
    <3>1. got \o a = SubSeq((got \o a) \o (b \o t), 1, Len(got \o a))
      BY <1>1, <1>2, <2>5, StartOf
    <3> QED BY <1>4, <2>4, <2>5, <3>1
  <2>7. Len(got') \in (Len(got) + 1)..Len(Sent)
    <3> DEFINE w == b \o t
    <3>1. w \in Seq(Nat) /\ Sent = got' \o w
      BY <2>4, <2>5
    <3> HIDE DEF w
    <3>2. Len(Sent) = Len(got') + Len(w) /\ Len(w) \in Nat
      BY <1>5, <3>1, ConcatLength
    <3> QED BY <1>1, <1>5, <3>2
  <2>8. Stream!Read
    BY <1>6, <1>7, <1>10, <2>6, <2>7 DEF Stream!Read, Sent
  <2> QED BY <2>8 DEF Implemented, Stream!Next
<1>11. CASE torn
  <2>1. Stream!IsStrictPrefix(got, got')
    <3>1. IsStrictPrefix(got, got')
      BY <1>1, <1>2, <1>4, StrictStart
    <3> QED BY <3>1 DEF IsStrictPrefix, IsPrefix, Stream!IsStrictPrefix, Stream!IsPrefix
  <2>2. Rising((got \o readBuf) \o UnitsOf(inbox), Len(UnitsTo(q)))
    BY <1>8 DEF Filed
  <2>3. Len(UnitsTo(q)) \in Nat /\ Len(Sent) \in Nat /\ Len(UnitsTo(q)) <= Len(Sent)
    <3>1. UnitsTo(q) \in Seq(Nat) /\ UnitsTo(Len(relay.out)) \in Seq(Nat) /\ Len(UnitsTo(q)) <= Len(UnitsOf(relay.out))
      BY <1>9, UnitsToSplit
    <3> QED BY <3>1, UnitsToAll DEF Sent
  <2>4. Rising(got' \o b, Len(UnitsTo(q)))
    BY <1>1, <1>5, <2>2, <2>3, RisingPrefix
  <2>5. Rising(got', Len(UnitsTo(q)))
    BY <1>2, <1>5, <2>3, <2>4, RisingPrefix
  <2>6. Rising(got', Len(Sent))
    BY <1>5, <2>3, <2>5, RisingWider
  <2>7. DOMAIN got' = 1..Len(got')
    BY <1>5
  <2>8. /\ \A i \in DOMAIN got' : got'[i] \in 0..Len(UnitsOf(relay.out))
        /\ \A i, j \in DOMAIN got' : i < j /\ got'[i] # 0 /\ got'[j] # 0 => got'[i] < got'[j]
    BY <2>6, <2>7, Zenon DEF Rising, Sent
  <2>9. Stream!ReadTorn
    BY <1>6, <1>7, <1>11, <2>1, <2>8 DEF Stream!ReadTorn
  <2> QED BY <2>9 DEF Implemented, Stream!Next
<1> QED BY <1>10, <1>11 DEF Types, ClientTypes

LEMMA StepImplemented ==
  ASSUME Types, Exchange, Order, Outgoing, Downlink, Uplink, Next
  PROVE  Implemented
<1>1. ASSUME NEW ok \in BOOLEAN, FetchBridge(ok) PROVE Implemented
  <2>1. Stays
    BY <1>1 DEF FetchBridge, Stays, Types, NetworkTypes, RelayType, SocketType, Settled, Reply, SendFails, Resume, client, history, socket
  <2> QED BY <2>1, StaysImplemented
<1>2. ASSUME NEW o \in {"refused", "lost", "malformed", "welcome"}, CreateSession(o) PROVE Implemented
  <2>1. Stays
    BY <1>2 DEF CreateSession, Stays, Types, NetworkTypes, RelayType, SocketType, Settled, Reply, SendFails, Resume, client, history, socket
  <2> QED BY <2>1, StaysImplemented
<1>3. ASSUME NEW m \in {"none", "https", "ws"}, ChooseTransport(m) PROVE Implemented
  <2>1. Stays
    BY <1>3 DEF ChooseTransport, Stays, Types, NetworkTypes, RelayType, SocketType, Settled, Reply, SendFails, Resume, client, history, socket
  <2> QED BY <2>1, StaysImplemented
<1>4. ASSUME NEW ok \in BOOLEAN, Upgrade(ok) PROVE Implemented
  <2>1. Stays
    BY <1>4 DEF Upgrade, Stays, Types, NetworkTypes, RelayType, SocketType, Settled, Reply, SendFails, Resume, client, history, socket
  <2> QED BY <2>1, StaysImplemented
<1>5. CASE Write
  BY <1>5, WriteImplemented
<1>6. CASE Read
  <2>1. Stays
    BY <1>6 DEF Read, Stays, Types, NetworkTypes, RelayType, SocketType, Settled, Reply, SendFails, Resume, client, history, socket
  <2> QED BY <2>1, StaysImplemented
<1>7. ASSUME NEW n \in 1..Len(readBuf), ReadBuffered(n) PROVE Implemented
  BY <1>7, ReadImplemented
<1>8. CASE ReadEnds
  <2>1. Stays
    BY <1>8 DEF ReadEnds, Stays, Types, NetworkTypes, RelayType, SocketType, Settled, Reply, SendFails, Resume, client, history, socket
  <2> QED BY <2>1, StaysImplemented
<1>9. CASE Pump
  <2>1. Stays
    BY <1>9 DEF Pump, Stays, Types, NetworkTypes, RelayType, SocketType, Settled, Reply, SendFails, Resume, client, history, socket
  <2> QED BY <2>1, StaysImplemented
<1>10. CASE FilePing
  <2>1. Stays
    BY <1>10 DEF FilePing, Stays, Types, NetworkTypes, RelayType, SocketType, Settled, Reply, SendFails, Resume, client, history, socket
  <2> QED BY <2>1, StaysImplemented
<1>11. CASE FileFrame
  <2>1. Stays
    BY <1>11 DEF FileFrame, Stays, Types, NetworkTypes, RelayType, SocketType, Settled, Reply, SendFails, Resume, client, history, socket
  <2> QED BY <2>1, StaysImplemented
<1>12. CASE PumpDone
  <2>1. Stays
    BY <1>12 DEF PumpDone, Stays, Types, NetworkTypes, RelayType, SocketType, Settled, Reply, SendFails, Resume, client, history, socket
  <2> QED BY <2>1, StaysImplemented
<1>13. CASE Close
  <2>1. Stays
    BY <1>13 DEF Close, Stays, Types, NetworkTypes, RelayType, SocketType, Settled, Reply, SendFails, Resume, client, history, socket
  <2> QED BY <2>1, StaysImplemented
<1>14. CASE DeleteSession
  <2>1. Stays
    BY <1>14 DEF DeleteSession, Stays, Types, NetworkTypes, RelayType, SocketType, Settled, Reply, SendFails, Resume, client, history, socket
  <2> QED BY <2>1, StaysImplemented
<1>15. CASE SendDone
  <2>1. Stays
    BY <1>15 DEF SendDone, Stays, Types, NetworkTypes, RelayType, SocketType, Settled, Reply, SendFails, Resume, client, history, socket
  <2> QED BY <2>1, StaysImplemented
<1>16. CASE SendRefused
  <2>1. Stays
    BY <1>16 DEF SendRefused, Stays, Types, NetworkTypes, RelayType, SocketType, Settled, Reply, SendFails, Resume, client, history, socket
  <2> QED BY <2>1, StaysImplemented
<1>17. CASE SendBusy
  <2>1. Stays
    BY <1>17 DEF SendBusy, Stays, Types, NetworkTypes, RelayType, SocketType, Settled, Reply, SendFails, Resume, client, history, socket
  <2> QED BY <2>1, StaysImplemented
<1>18. CASE ReceiveDone
  <2>1. Stays
    BY <1>18 DEF ReceiveDone, Stays, Types, NetworkTypes, RelayType, SocketType, Settled, Reply, SendFails, Resume, client, history, socket
  <2> QED BY <2>1, StaysImplemented
<1>19. CASE ReceiveBusy
  <2>1. Stays
    BY <1>19 DEF ReceiveBusy, Stays, Types, NetworkTypes, RelayType, SocketType, Settled, Reply, SendFails, Resume, client, history, socket
  <2> QED BY <2>1, StaysImplemented
<1>20. CASE ReceiveRefused
  <2>1. Stays
    BY <1>20 DEF ReceiveRefused, Stays, Types, NetworkTypes, RelayType, SocketType, Settled, Reply, SendFails, Resume, client, history, socket
  <2> QED BY <2>1, StaysImplemented
<1>21. CASE DeleteDone
  <2>1. Stays
    BY <1>21 DEF DeleteDone, Stays, Types, NetworkTypes, RelayType, SocketType, Settled, Reply, SendFails, Resume, client, history, socket
  <2> QED BY <2>1, StaysImplemented
<1>22. ASSUME NEW arrives \in BOOLEAN, GiveUp(arrives) PROVE Implemented
  <2>1. Stays
    BY <1>22 DEF GiveUp, Stays, Types, NetworkTypes, RelayType, SocketType, Settled, Reply, SendFails, Resume, client, history, socket
  <2> QED BY <2>1, StaysImplemented
<1>23. CASE DeadlinePasses
  <2>1. Stays
    BY <1>23 DEF DeadlinePasses, Stays, Types, NetworkTypes, RelayType, SocketType, Settled, Reply, SendFails, Resume, client, history, socket
  <2> QED BY <2>1, StaysImplemented
<1>24. CASE SocketWrites
  <2>1. Stays
    BY <1>24 DEF SocketWrites, Stays, Types, NetworkTypes, RelayType, SocketType, Settled, Reply, SendFails, Resume, client, history, socket
  <2> QED BY <2>1, StaysImplemented
<1>25. CASE SocketWriteFails
  <2>1. Stays
    BY <1>25 DEF SocketWriteFails, Stays, Types, NetworkTypes, RelayType, SocketType, Settled, Reply, SendFails, Resume, client, history, socket
  <2> QED BY <2>1, StaysImplemented
<1>26. CASE SocketReads
  <2>1. torn' = torn \/ torn' = TRUE
    BY <1>26, SocketReadsEffect DEF SocketReads, MessageDone, ReceiveFails, Types, ClientTypes
  <2>2. written' = written /\ relay' = relay /\ got' = got
    BY <1>26 DEF SocketReads, history
  <2> QED BY <2>1, <2>2, TearImplemented
<1>27. ASSUME NEW b \in BOOLEAN, SocketReadsGarbage(b) PROVE Implemented
  <2>1. torn' = torn \/ torn' = TRUE
    BY <1>27 DEF SocketReadsGarbage, ReceiveFails, Types, ClientTypes
  <2>2. written' = written /\ relay' = relay /\ got' = got
    BY <1>27 DEF SocketReadsGarbage, history
  <2> QED BY <2>1, <2>2, TearImplemented
<1>28. ASSUME NEW b \in BOOLEAN, SocketTimeOut(b) PROVE Implemented
  <2>1. torn' = torn \/ torn' = TRUE
    BY <1>28 DEF SocketTimeOut, ReceiveFails, Types, ClientTypes
  <2>2. written' = written /\ relay' = relay /\ got' = got
    BY <1>28 DEF SocketTimeOut, history
  <2> QED BY <2>1, <2>2, TearImplemented
<1>29. ASSUME NEW req \in wire, RelayCommits(req) PROVE Implemented
  BY <1>29, CommitImplemented
<1>30. ASSUME NEW req \in wire, RelayRepeats(req) PROVE Implemented
  <2>1. Stays
    BY <1>30 DEF RelayRepeats, Stays, Types, NetworkTypes, RelayType, SocketType, Settled, Reply, SendFails, Resume, client, history, socket
  <2> QED BY <2>1, StaysImplemented
<1>31. ASSUME NEW req \in wire, RelaySeesGap(req) PROVE Implemented
  <2>1. Stays
    BY <1>31 DEF RelaySeesGap, Stays, Types, NetworkTypes, RelayType, SocketType, Settled, Reply, SendFails, Resume, client, history, socket
  <2> QED BY <2>1, StaysImplemented
<1>32. ASSUME NEW req \in wire, RelayBusy(req) PROVE Implemented
  <2>1. Stays
    BY <1>32 DEF RelayBusy, Stays, Types, NetworkTypes, RelayType, SocketType, Settled, Reply, SendFails, Resume, client, history, socket
  <2> QED BY <2>1, StaysImplemented
<1>33. ASSUME NEW req \in wire, RelayGone(req) PROVE Implemented
  <2>1. Stays
    BY <1>33 DEF RelayGone, Stays, Types, NetworkTypes, RelayType, SocketType, Settled, Reply, SendFails, Resume, client, history, socket
  <2> QED BY <2>1, StaysImplemented
<1>34. ASSUME NEW req \in wire, RelayDelivers(req) PROVE Implemented
  <2>1. Stays
    BY <1>34 DEF RelayDelivers, Stays, Types, NetworkTypes, RelayType, SocketType, Settled, Reply, SendFails, Resume, client, history, socket
  <2> QED BY <2>1, StaysImplemented
<1>35. ASSUME NEW req \in wire, RelayDeletes(req) PROVE Implemented
  <2>1. Stays
    BY <1>35 DEF RelayDeletes, Stays, Types, NetworkTypes, RelayType, SocketType, Settled, Reply, SendFails, Resume, client, history, socket
  <2> QED BY <2>1, StaysImplemented
<1>36. CASE RelayForgets
  <2>1. Stays
    BY <1>36 DEF RelayForgets, Stays, Types, NetworkTypes, RelayType, SocketType, Settled, Reply, SendFails, Resume, client, history, socket
  <2> QED BY <2>1, StaysImplemented
<1>37. CASE RelayTakes
  BY <1>37, TakeImplemented
<1>38. ASSUME NEW cut \in 0..Len(relay.out), NEW to \in 0..Len(relay.out), NEW within \in BOOLEAN, RelayPushes(cut, to, within) PROVE Implemented
  <2>1. Stays
    BY <1>38 DEF RelayPushes, Stays, Types, NetworkTypes, RelayType, SocketType, Settled, Reply, SendFails, Resume, client, history, socket
  <2> QED BY <2>1, StaysImplemented
<1>39. ASSUME NEW op \in {"ping", "text", "close"}, NEW i \in 1..(Len(sock.down) + 1), RelayInserts(op, i) PROVE Implemented
  <2>1. Stays
    BY <1>39 DEF RelayInserts, Stays, Types, NetworkTypes, RelayType, SocketType, Settled, Reply, SendFails, Resume, client, history, socket
  <2> QED BY <2>1, StaysImplemented
<1>40. ASSUME NEW k \in {"DATA", "PING", "CLOSE", "BYE"}, RelayProduces(k) PROVE Implemented
  BY <1>40, SendImplemented
<1> QED BY <1>1, <1>2, <1>3, <1>4, <1>5, <1>6, <1>7, <1>8, <1>9, <1>10, <1>11, <1>12, <1>13, <1>14, <1>15, <1>16, <1>17, <1>18, <1>19, <1>20, <1>21, <1>22, <1>23, <1>24, <1>25, <1>26, <1>27, <1>28, <1>29, <1>30, <1>31, <1>32, <1>33, <1>34, <1>35, <1>36, <1>37, <1>38, <1>39, <1>40 DEF Next, Dial, Call, Step, RelayHandles

LEMMA ImplementedStep == Inv /\ Content /\ [Next]_vars => [Stream!Next]_(Stream!vars)
<1> SUFFICES ASSUME Inv, Content, [Next]_vars PROVE Implemented
  BY DEF Implemented
<1>1. CASE Next
  BY <1>1, StepImplemented DEF Inv, Content
<1>2. CASE UNCHANGED vars
  <2>1. Stays
    BY <1>2 DEF Stays, vars, history, socket
  <2> QED BY <2>1, StaysImplemented
<1> QED BY <1>1, <1>2

LEMMA ImplementedInit == Init => Stream!Init
BY UnitsOfNone DEF Init, Stream!Init

(* The carrier is a connection: whatever the network and the relay refuse,  *)
(* lose, delay, repeat or cut, and over either transport, messages written  *)
(* are received once and in order, and what is read is the beginning of     *)
(* what was sent, until a receive gives up inside a message; from then on   *)
(* units may be missing, but none is read twice or before an earlier one.   *)
THEOREM CarrierIsAStream == Spec => ImplementsStream
<1>1. Inv /\ Content /\ [Next]_vars => [Stream!Next]_(Stream!vars)
  BY ImplementedStep
<1>2. Init => Stream!Init
  BY ImplementedInit
<1> QED BY <1>1, <1>2, ContentHolds, PTL DEF Spec, ImplementsStream, Stream!Spec

=============================================================================
