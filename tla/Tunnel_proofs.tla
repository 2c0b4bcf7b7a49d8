-------------------------- MODULE Tunnel_proofs --------------------------
(***************************************************************************)
(* Proofs about Tunnel, for any number of packets, any lengths, any hello  *)
(* and any records: what goes out while the connection is set up and who   *)
(* is blamed when that fails, that both ends stay at the same byte of      *)
(* stream, record and keystream, and that the tunnel implements            *)
(* PacketChannel.                                                          *)
(*                                                                         *)
(* Negotiated says, step by step, what has been written and what the far   *)
(* side has answered to it. Matched numbers all that is on the way, from   *)
(* the piece being read to the last word the far side has not flushed: it  *)
(* is one unbroken run of the stream, and begins where the client is. It   *)
(* holds until a read gives up inside a packet. Orderly holds after that   *)
(* too: what still comes lies behind all that was handed out, in the order *)
(* of the stream. Matched makes each packet the next one, Orderly makes it *)
(* a later one or none that was sent, and that is the channel.             *)
(***************************************************************************)
EXTENDS Tunnel, WellFoundedInduction, SequenceTheorems, FiniteSetTheorems, TLAPS

-----------------------------------------------------------------------------
(* Induction over the naturals, for a set: every non-empty one has a least  *)
(* element.                                                                 *)
LEMMA LeastNat ==
  ASSUME NEW T \in SUBSET Nat, T # {}
  PROVE  \E x \in T : \A y \in T : x <= y
<1> DEFINE R == {ss \in Nat \X Nat : ss[1] < ss[2]}
<1>1. IsWellFoundedOn(R, Nat)
  BY NatLessThanWellFounded DEF OpToRel
<1>2. \A x, y \in Nat : y < x => <<y, x>> \in R
  OBVIOUS
<1> HIDE DEF R
<1>3. PICK x \in T : \A y \in T : ~(<<y, x>> \in R)
  BY <1>1, WFMin, ZenonT(40)
<1>4. \A y \in T : ~(y < x)
  BY <1>2, <1>3
<1> QED BY <1>4

Inductive(S) == 0 \in S /\ \A n \in S : n + 1 \in S

LEMMA Induction ==
  ASSUME NEW S \in SUBSET Nat, Inductive(S)
  PROVE  S = Nat
<1>0. 0 \in S /\ \A n \in S : n + 1 \in S
  BY DEF Inductive
<1>1. SUFFICES ASSUME Nat \ S # {} PROVE FALSE
  OBVIOUS
<1>2. PICK x \in Nat \ S : \A y \in Nat \ S : x <= y
  BY <1>1, LeastNat
<1>3. x # 0 /\ x - 1 \in Nat
  BY <1>0, <1>2
<1>4. x - 1 \in S
  BY <1>2, <1>3
<1>5. (x - 1) + 1 = x
  BY <1>2
<1>6. (x - 1) + 1 \in S
  BY <1>0, <1>4
<1> QED BY <1>2, <1>5, <1>6

(* Sequences.                                                              *)
LEMMA FunSeq ==
  ASSUME NEW T, NEW n \in Nat, NEW s \in [1..n -> T]
  PROVE  s \in Seq(T) /\ Len(s) = n
<1>1. s \in Seq(T)
  BY SeqDef
<1>2. Len(s) \in Nat /\ DOMAIN s = 1..Len(s)
  BY <1>1, LenProperties
<1>3. 1..Len(s) = 1..n
  BY <1>2
<1>4. Len(s) = n
  BY <1>2, <1>3
<1> QED BY <1>1, <1>4

LEMMA One == ASSUME NEW T, NEW x \in T PROVE <<x>> \in Seq(T) /\ Len(<<x>>) = 1 /\ <<x>>[1] = x
OBVIOUS

LEMMA Cons ==
  ASSUME NEW T, NEW x \in T, NEW s \in Seq(T)
  PROVE  /\ <<x>> \o s \in Seq(T) /\ Len(<<x>> \o s) = Len(s) + 1 /\ <<x>> \o s # <<>>
         /\ (<<x>> \o s)[1] = x /\ Head(<<x>> \o s) = x /\ Tail(<<x>> \o s) = s
         /\ \A i \in 1..Len(s) : (<<x>> \o s)[i + 1] = s[i]
<1> DEFINE c == <<x>> \o s
<1>1. <<x>> \in Seq(T) /\ Len(<<x>>) = 1 /\ <<x>>[1] = x /\ Len(s) \in Nat
  BY One
<1>2. c \in Seq(T) /\ Len(c) = 1 + Len(s) /\ \A i \in 1..(1 + Len(s)) : c[i] = IF i <= 1 THEN <<x>>[i] ELSE s[i - 1]
  BY <1>1, ConcatProperties
<1> HIDE DEF c
<1>3. c[1] = x /\ \A i \in 1..Len(s) : c[i + 1] = s[i]
  <2>1. c[1] = <<x>>[1]
    BY <1>1, <1>2
  <2>2. ASSUME NEW i \in 1..Len(s) PROVE c[i + 1] = s[i]
    <3>1. i + 1 \in 1..(1 + Len(s)) /\ ~(i + 1 <= 1) /\ (i + 1) - 1 = i
      BY <1>1
    <3> QED BY <1>2, <3>1
  <2> QED BY <1>1, <2>1, <2>2
<1>4. c # <<>> /\ Head(c) = x
  <2>1. c # <<>>
    BY <1>1, <1>2, EmptySeq
  <2> QED BY <1>3, <2>1
<1>5. Tail(c) = s
  <2>1. Tail(c) \in Seq(T) /\ Len(Tail(c)) = Len(s) /\ \A i \in 1..Len(Tail(c)) : Tail(c)[i] = c[i + 1]
    BY <1>1, <1>2, <1>4, HeadTailProperties
  <2>2. \A i \in 1..Len(Tail(c)) : Tail(c)[i] = s[i]
    BY <1>3, <2>1
  <2> QED BY <2>1, <2>2, SeqEqual
<1>6. Len(c) = Len(s) + 1
  BY <1>1, <1>2
<1> QED BY <1>2, <1>3, <1>4, <1>5, <1>6 DEF c

LEMMA Uncons ==
  ASSUME NEW T, NEW s \in Seq(T), s # <<>>
  PROVE  Head(s) \in T /\ Tail(s) \in Seq(T) /\ s = <<Head(s)>> \o Tail(s) /\ Head(s) = s[1]
         /\ Len(Tail(s)) = Len(s) - 1 /\ Len(s) \in Nat \ {0}
         /\ \A i \in 1..(Len(s) - 1) : Tail(s)[i] = s[i + 1]
<1> DEFINE h == Head(s)
           t == Tail(s)
           c == <<h>> \o t
<1>1. /\ h \in T /\ t \in Seq(T) /\ Len(t) = Len(s) - 1 /\ \A i \in 1..Len(t) : t[i] = s[i + 1]
      /\ Len(s) \in Nat \ {0} /\ h = s[1]
  BY HeadTailProperties, EmptySeq
<1> HIDE DEF h, t
<1>2. c \in Seq(T) /\ Len(c) = Len(t) + 1 /\ c[1] = h /\ \A i \in 1..Len(t) : c[i + 1] = t[i]
  BY <1>1, Cons
<1> HIDE DEF c
<1>3. ASSUME NEW i \in 1..Len(s) PROVE s[i] = c[i]
  <2>1. CASE i = 1
    BY <1>1, <1>2, <2>1
  <2>2. CASE i # 1
    <3>1. i - 1 \in 1..Len(t) /\ (i - 1) + 1 = i
      BY <1>1, <2>2
    <3> QED BY <1>1, <1>2, <3>1
  <2> QED BY <2>1, <2>2
<1>4. s = c
  BY <1>1, <1>2, <1>3, SeqEqual
<1>5. \A i \in 1..(Len(s) - 1) : t[i] = s[i + 1]
  BY <1>1
<1> QED BY <1>1, <1>4, <1>5 DEF c, h, t

-----------------------------------------------------------------------------
(* Framing.  Division, for the bytes of a length.                          *)
LEMMA Euclid ==
  ASSUME NEW B \in Int, B > 0, NEW n \in Int
  PROVE  n = B * (n \div B) + (n % B)
OBVIOUS

LEMMA DivMod ==
  ASSUME NEW B \in Nat \ {0}, NEW n \in Nat
  PROVE  n \div B \in Nat /\ n % B \in 0..(B - 1) /\ n = B * (n \div B) + (n % B)
<1>1. n \div B \in Int /\ n % B \in 0..(B - 1)
  OBVIOUS
<1>2. n = B * (n \div B) + (n % B)
  BY Euclid
<1> DEFINE q == n \div B
           r == n % B
<1>3. q \in Int /\ r \in 0..(B - 1) /\ n = B * q + r
  BY <1>1, <1>2
<1> HIDE DEF q, r
<1>4. q >= 0
  <2> SUFFICES ASSUME q <= -1 PROVE FALSE
    BY <1>3
  <2>1. q + 1 <= 0 /\ B > 0 /\ B \in Int
    BY <1>3
  <2>2. B * (q + 1) <= 0
    BY <1>3, <2>1
  <2>3. B * (q + 1) = B * q + B
    BY <1>3, <2>1
  <2>4. B * q \in Int
    BY <1>3, <2>1
  <2> QED BY <1>3, <2>1, <2>2, <2>3, <2>4
<1>5. n \div B >= 0
  BY <1>4 DEF q
<1>6. n \div B \in Nat
  BY <1>1, <1>5
<1> QED BY <1>1, <1>2, <1>6

LEMMA Digit ==
  ASSUME NEW B \in Nat \ {0}, NEW n \in Nat, n < B
  PROVE  n % B = n /\ n \div B = 0
<1> DEFINE q == n \div B
           r == n % B
<1>1. q \in Nat /\ r \in 0..(B - 1) /\ n = B * q + r
  BY DivMod
<1> HIDE DEF q, r
<1>2. q < 1
  <2> SUFFICES ASSUME q >= 1 PROVE FALSE
    BY <1>1
  <2>1. B * q >= B
    BY <1>1
  <2> QED BY <1>1, <2>1
<1>3. q = 0 /\ r = n
  BY <1>1, <1>2
<1> QED BY <1>3 DEF q, r

LEMMA Horner ==
  ASSUME NEW B \in Nat \ {0}, NEW n \in Nat
  PROVE  LET n1 == n \div B
             n2 == n1 \div B
             n3 == n2 \div B
         IN  /\ n1 \in Nat /\ n2 \in Nat /\ n3 \in Nat
             /\ n % B \in 0..(B-1) /\ n1 % B \in 0..(B-1) /\ n2 % B \in 0..(B-1) /\ n3 % B \in 0..(B-1)
             /\ n3 < B => n = (n % B) + B * ((n1 % B) + B * ((n2 % B) + B * (n3 % B)))
             /\ n3 = 0 => n = (n % B) + B * ((n1 % B) + B * (n2 % B))
<1> DEFINE n1 == n \div B
           n2 == n1 \div B
           n3 == n2 \div B
           r0 == n % B
           r1 == n1 % B
           r2 == n2 % B
           r3 == n3 % B
<1>1. n1 \in Nat /\ r0 \in 0..(B-1) /\ n = B * n1 + r0
  BY DivMod
<1>2. n2 \in Nat /\ r1 \in 0..(B-1) /\ n1 = B * n2 + r1
  BY <1>1, DivMod
<1>3. n3 \in Nat /\ r2 \in 0..(B-1) /\ n2 = B * n3 + r2
  BY <1>2, DivMod
<1>4. r3 \in 0..(B-1) /\ (n3 < B => r3 = n3)
  BY <1>3, DivMod, Digit
<1> HIDE DEF n1, n2, n3, r0, r1, r2, r3
<1>6. n3 < B => n = r0 + B * (r1 + B * (r2 + B * r3))
  BY <1>1, <1>2, <1>3, <1>4
<1>7. n3 = 0 => n = r0 + B * (r1 + B * r2)
  BY <1>1, <1>2, <1>3
<1> QED BY <1>1, <1>2, <1>3, <1>4, <1>6, <1>7 DEF n1, n2, n3, r0, r1, r2, r3

(* Dividing three times by B is dividing by its third power.               *)
LEMMA DivDiv ==
  ASSUME NEW B \in Nat \ {0}, NEW n \in Nat
  PROVE  /\ n < B * B * B => ((n \div B) \div B) \div B = 0
         /\ n \div (B * B * B) < B => ((n \div B) \div B) \div B < B
<1> DEFINE n1 == n \div B
           n2 == n1 \div B
           n3 == n2 \div B
           r0 == n % B
           r1 == n1 % B
           r2 == n2 % B
           C == B * B * B
<1>1. n1 \in Nat /\ r0 \in 0..(B-1) /\ n = B * n1 + r0
  BY DivMod
<1>2. n2 \in Nat /\ r1 \in 0..(B-1) /\ n1 = B * n2 + r1
  BY <1>1, DivMod
<1>3. n3 \in Nat /\ r2 \in 0..(B-1) /\ n2 = B * n3 + r2
  BY <1>2, DivMod
<1> HIDE DEF n1, n2, n3, r0, r1, r2
<1>4. B * n2 \in Nat /\ B * n3 \in Nat /\ B * (B * n3) \in Nat /\ B * n1 \in Nat
  BY <1>1, <1>2, <1>3
<1>5. n >= B * n1 /\ n1 >= B * n2 /\ n2 >= B * n3
  BY <1>1, <1>2, <1>3, <1>4
<1>6. n >= C * n3 /\ C \in Nat \ {0}
  <2>1. n1 >= B * (B * n3)
    <3>1. B * n2 >= B * (B * n3)
      BY <1>2, <1>4, <1>5
    <3> QED BY <1>1, <1>4, <1>5, <3>1
  <2>2. B * n1 >= B * (B * (B * n3))
    BY <1>1, <1>4, <2>1
  <2>3. C * n3 = B * (B * (B * n3))
    BY <1>3
  <2> QED BY <1>3, <1>4, <1>5, <2>2, <2>3
<1> DEFINE q == n \div C
           r == n % C
<1>7. q \in Nat /\ r \in 0..(C - 1) /\ n = C * q + r
  BY <1>6, DivMod
<1> HIDE DEF q, r, C
<1>8. n < C => n3 = 0
  <2> SUFFICES ASSUME n < C, n3 >= 1 PROVE FALSE
    BY <1>3
  <2>1. C * n3 >= C
    BY <1>3, <1>6
  <2> QED BY <1>3, <1>6, <2>1
<1>9. n3 < q + 1
  <2> SUFFICES ASSUME n3 >= q + 1 PROVE FALSE
    BY <1>3, <1>7
  <2>1. C * n3 >= C * (q + 1)
    BY <1>3, <1>6, <1>7
  <2>2. C * (q + 1) = C * q + C
    BY <1>6, <1>7
  <2> QED BY <1>3, <1>6, <1>7, <2>1, <2>2
<1>10. q < B => n3 < B
  BY <1>3, <1>7, <1>9
<1> QED BY <1>8, <1>10 DEF n1, n2, n3, q, C

(* The bytes of a number that fits three or four of them say that number.   *)
LEMMA DigitsSay ==
  ASSUME NEW n \in Nat
  PROVE  /\ Digits(n, 3) \in Seq(Nat) /\ Len(Digits(n, 3)) = 3
         /\ Digits(n, 4) \in Seq(Nat) /\ Len(Digits(n, 4)) = 4
         /\ n < Base * Base * Base => Value(Digits(n, 3)) = n
         /\ n \div (Base * Base * Base) < Base => Value(Digits(n, 4)) = n
         /\ \A i \in 1..3 : Digits(n, 3)[i] \in 0..(Base - 1)
         /\ \A i \in 1..4 : Digits(n, 4)[i] \in 0..(Base - 1)
<1>1. Base \in Nat \ {0}
  BY FramingAssumption
<1> DEFINE n1 == n \div Base
           n2 == n1 \div Base
           n3 == n2 \div Base
           r0 == n % Base
           r1 == n1 % Base
           r2 == n2 % Base
           r3 == n3 % Base
<1>2. /\ r0 \in 0..(Base - 1) /\ r1 \in 0..(Base - 1) /\ r2 \in 0..(Base - 1) /\ r3 \in 0..(Base - 1)
      /\ n3 < Base => n = r0 + Base * (r1 + Base * (r2 + Base * r3))
      /\ n3 = 0 => n = r0 + Base * (r1 + Base * r2)
  BY <1>1, Horner
<1>3. /\ n < Base * Base * Base => n3 = 0
      /\ n \div (Base * Base * Base) < Base => n3 < Base
  BY <1>1, DivDiv
<1> DEFINE three == Digits(n, 3)
           four == Digits(n, 4)
<1>4. /\ three = [i \in 1..3 |-> <<n, n1, n2, n3>>[i] % Base]
      /\ four = [i \in 1..4 |-> <<n, n1, n2, n3>>[i] % Base]
  BY DEF Digits
<1>5. /\ three[1] = r0 /\ three[2] = r1 /\ three[3] = r2
      /\ four[1] = r0 /\ four[2] = r1 /\ four[3] = r2 /\ four[4] = r3
  BY <1>4
<1>6. r0 \in Nat /\ r1 \in Nat /\ r2 \in Nat /\ r3 \in Nat
  BY <1>1, <1>2
<1>7. DOMAIN three = 1..3 /\ DOMAIN four = 1..4
  BY <1>4
<1>8. \A i \in 1..3 : three[i] \in Nat
  BY <1>5, <1>6
<1>9. \A i \in 1..4 : four[i] \in Nat
  BY <1>5, <1>6
<1>14. (\A i \in 1..3 : three[i] \in 0..(Base - 1)) /\ (\A i \in 1..4 : four[i] \in 0..(Base - 1))
  BY <1>2, <1>5
<1>10. three \in [1..3 -> Nat] /\ four \in [1..4 -> Nat]
  BY <1>4, <1>8, <1>9
<1> HIDE DEF n1, n2, n3, r0, r1, r2, r3, three, four
<1>11. three \in Seq(Nat) /\ Len(three) = 3 /\ four \in Seq(Nat) /\ Len(four) = 4
  BY <1>10, FunSeq
<1>12. Value(three) = r0 + Base * (r1 + Base * r2)
  <2>1. Value(three) = r0 + Base * (r1 + Base * (r2 + 0))
    BY <1>5, <1>11 DEF Value
  <2>2. r2 + 0 = r2
    BY <1>6
  <2> QED BY <2>1, <2>2, Zenon
<1>13. Value(four) = r0 + Base * (r1 + Base * (r2 + Base * r3))
  BY <1>5, <1>11 DEF Value
<1> QED BY <1>2, <1>3, <1>11, <1>12, <1>13, <1>14 DEF three, four

LEMMA ValueTypes ==
  ASSUME NEW s \in Seq(Nat), Len(s) \in {3, 4}
  PROVE  Value(s) \in Nat
<1>1. Base \in Nat
  BY FramingAssumption
<1>2. s[1] \in Nat /\ s[2] \in Nat /\ s[3] \in Nat /\ (Len(s) = 4 => s[4] \in Nat)
  OBVIOUS
<1> DEFINE z == IF Len(s) = 4 THEN Base * s[4] ELSE 0
<1>3. z \in Nat
  BY <1>1, <1>2
<1> HIDE DEF z
<1> DEFINE y == Base * (s[3] + z)
           x == Base * (s[2] + y)
<1>4. y \in Nat
  BY <1>1, <1>2, <1>3
<1> HIDE DEF y
<1>5. x \in Nat
  BY <1>1, <1>2, <1>4
<1> HIDE DEF x
<1>6. s[1] + x \in Nat
  BY <1>2, <1>5
<1> QED BY <1>6 DEF Value, x, y, z

HeadLen(t, len) == Len(Encode(t, len))

LEMMA LengthFacts ==
  ASSUME NEW t \in Transports, NEW len \in Lengths(t, Nat)
  PROVE  /\ len \in Nat
         /\ IF t = "abridged" THEN len % 4 = 0 /\ len \div 4 \in 1..(Base * Base * Base - 1)
            ELSE len \div (Base * Base * Base) < Base /\ Stripped(t, len) > 0
BY DEF Lengths

(* A head says the length it was written for, of every length a transport   *)
(* can carry.                                                              *)
LEMMA HeadOf ==
  ASSUME NEW t \in Transports, NEW len \in Lengths(t, Nat)
  PROVE  /\ Encode(t, len) \in Seq(Nat) /\ HeadLen(t, len) \in {1, 4}
         /\ Decode(t, Encode(t, len)) = len
         /\ t # "abridged" => HeadLen(t, len) = 4
         /\ t = "abridged" => (Encode(t, len)[1] = Long <=> HeadLen(t, len) = 4)
<1>1. CASE t # "abridged"
  <2>1. len \in Nat /\ len \div (Base * Base * Base) < Base
    BY <1>1, LengthFacts
  <2>2. Encode(t, len) = Digits(len, 4) /\ Decode(t, Digits(len, 4)) = Value(Digits(len, 4))
    BY <1>1 DEF Encode, Decode
  <2> QED BY <1>1, <2>1, <2>2, DigitsSay DEF HeadLen
<1>2. CASE t = "abridged"
  <2> DEFINE w == len \div 4
  <2>1. len \in Nat /\ w \in Nat /\ w < Base * Base * Base /\ len = 4 * w
    <3>1. Base \in Nat
      BY FramingAssumption
    <3>2. len \in Nat /\ len % 4 = 0 /\ w \in 1..(Base * Base * Base - 1)
      BY <1>2, LengthFacts
    <3>3. w \in Nat /\ w <= Base * Base * Base - 1 /\ Base * Base * Base \in Int
      BY <3>1, <3>2
    <3>4. len = 4 * w
      BY <3>2
    <3> HIDE DEF w
    <3> QED BY <3>2, <3>3, <3>4
  <2> HIDE DEF w
  <2>2. Encode(t, len) = IF w < Long THEN <<w>> ELSE <<Long>> \o Digits(w, 3)
    BY <1>2 DEF Encode, w
  <2>3. CASE w < Long
    <3>1. Encode(t, len) = <<w>>
      BY <2>2, <2>3
    <3>2. Decode(t, <<w>>) = 4 * w
      BY <1>2, <2>1 DEF Decode
    <3>3. <<w>> \in Seq(Nat) /\ Len(<<w>>) = 1 /\ <<w>>[1] = w /\ w # Long
      BY <2>1, <2>3, FramingAssumption
    <3>4. HeadLen(t, len) = 1 /\ Encode(t, len)[1] = w
      BY <3>1, <3>3, Zenon DEF HeadLen
    <3>5. Encode(t, len) \in Seq(Nat) /\ Decode(t, Encode(t, len)) = len
      BY <2>1, <3>1, <3>2, <3>3, Zenon
    <3>6. HeadLen(t, len) # 4 /\ Encode(t, len)[1] # Long
      BY <3>3, <3>4
    <3> QED BY <1>2, <3>4, <3>5, <3>6, Zenon
  <2>4. CASE ~(w < Long)
    <3> DEFINE d == Digits(w, 3)
    <3>1. d \in Seq(Nat) /\ Len(d) = 3 /\ Value(d) = w
      BY <2>1, DigitsSay
    <3>2. Long \in Nat
      BY FramingAssumption
    <3>3. Encode(t, len) = <<Long>> \o d
      BY <2>2, <2>4
    <3> HIDE DEF d
    <3>4. <<Long>> \o d \in Seq(Nat) /\ Len(<<Long>> \o d) = 4 /\ (<<Long>> \o d)[1] = Long
      <4>1. d \in Seq(Nat) /\ Len(d) + 1 = 4
        BY <3>1
      <4>2. <<Long>> \o d \in Seq(Nat) /\ Len(<<Long>> \o d) = Len(d) + 1 /\ (<<Long>> \o d)[1] = Long
        BY <3>2, <4>1, Cons
      <4> QED BY <4>1, <4>2, Zenon
    <3>5. Tail(<<Long>> \o d) = d
      BY <3>1, <3>2, Cons
    <3>6. Decode(t, <<Long>> \o d) = 4 * Value(Tail(<<Long>> \o d))
      BY <1>2, <3>4 DEF Decode
    <3>7. HeadLen(t, len) = 4 /\ Encode(t, len)[1] = Long
      BY <3>3, <3>4, Zenon DEF HeadLen
    <3>8. Encode(t, len) \in Seq(Nat) /\ Decode(t, Encode(t, len)) = len
      BY <2>1, <3>1, <3>3, <3>4, <3>5, <3>6, Zenon
    <3> QED BY <1>2, <3>7, <3>8, Zenon
  <2> QED BY <2>3, <2>4
<1> QED BY <1>1, <1>2

(* A receiver finds the end of every packet: at every length a transport    *)
(* can carry, what it encodes is read back as that length, from as many     *)
(* bytes as were written, short or long head, padded or not (transport.go:  *)
(* encode and decode of the three transports). Lengths of any size; the     *)
(* run evaluates it up to 1100 and around the boundaries.                   *)
THEOREM HeadsRoundTrip == \A t \in Transports : \A len \in Lengths(t, Nat) : RoundTrip(t, len)
<1> SUFFICES ASSUME NEW t \in Transports, NEW len \in Lengths(t, Nat) PROVE RoundTrip(t, len)
  OBVIOUS
<1> DEFINE h == Encode(t, len)
           first == SubSeq(h, 1, FirstRead(t))
<1>1. /\ h \in Seq(Nat) /\ Len(h) \in {1, 4} /\ Decode(t, h) = len
      /\ t # "abridged" => Len(h) = 4
      /\ t = "abridged" => (h[1] = Long <=> Len(h) = 4)
  BY HeadOf DEF HeadLen
<1>2. \A i \in 1..Len(h) : h[i] \in 0..(Base - 1)
  <2>1. CASE t # "abridged"
    <3>1. h = Digits(len, 4) /\ len \in Nat
      BY <2>1, LengthFacts DEF Encode
    <3> QED BY <1>1, <2>1, <3>1, DigitsSay
  <2>2. CASE t = "abridged"
    <3> DEFINE w == len \div 4
    <3>1. w \in Nat
      BY <2>2, LengthFacts
    <3>2. h = IF w < Long THEN <<w>> ELSE <<Long>> \o Digits(w, 3)
      BY <2>2 DEF Encode
    <3> HIDE DEF w, h
    <3>3. Long \in Nat /\ Long \in 1..(Base - 1) /\ Base \in Nat
      BY FramingAssumption
    <3>4. CASE w < Long
      <4>1. w \in 0..(Base - 1)
        BY <3>1, <3>3, <3>4
      <4>2. h = <<w>>
        BY <3>2, <3>4
      <4>3. Len(h) = 1 /\ h[1] = w
        BY <4>2
      <4>4. \A i \in 1..Len(h) : i = 1
        BY <4>3
      <4> QED BY <4>1, <4>3, <4>4
    <3>5. CASE ~(w < Long)
      <4> DEFINE d == Digits(w, 3)
                 c == <<Long>> \o d
      <4>1. d \in Seq(Nat) /\ Len(d) = 3 /\ \A i \in 1..3 : d[i] \in 0..(Base - 1)
        BY <3>1, DigitsSay
      <4>2. h = c
        BY <3>2, <3>5
      <4> HIDE DEF d
      <4>3. Len(c) = 4 /\ c[1] = Long /\ \A i \in 1..3 : c[i + 1] = d[i]
        <5>1. Long \in Nat /\ d \in Seq(Nat)
          BY <3>3, <4>1
        <5>2. Len(c) = Len(d) + 1 /\ c[1] = Long /\ \A i \in 1..Len(d) : c[i + 1] = d[i]
          BY <5>1, Cons
        <5> HIDE DEF c
        <5> QED BY <4>1, <5>2
      <4> HIDE DEF c
      <4>4. ASSUME NEW i \in 1..4 PROVE c[i] \in 0..(Base - 1)
        <5>1. CASE i = 1
          BY <3>3, <4>3, <5>1
        <5>2. CASE i # 1
          <6>1. i - 1 \in 1..3 /\ (i - 1) + 1 = i
            BY <5>2
          <6> QED BY <4>1, <4>3, <6>1
        <5> QED BY <5>1, <5>2
      <4> QED BY <4>2, <4>3, <4>4
    <3> QED BY <3>4, <3>5
  <2> QED BY <2>1, <2>2
<1> HIDE DEF h
<1>3. Len(h) = FirstRead(t) + (IF NeedsExt(t, first) THEN ExtRead ELSE 0)
  <2>1. CASE t # "abridged"
    BY <1>1, <2>1 DEF FirstRead, NeedsExt
  <2>2. CASE t = "abridged"
    <3>1. 1 \in 1..Len(h)
      BY <1>1
    <3>2. Len(first) = 1 /\ first[1] = h[1]
      BY <1>1, <2>2, <3>1, SubSeqProperties, ElementOfSeq DEF FirstRead
    <3>3. first \in Seq(Nat)
      BY <1>1, <2>2, <3>1, SubSeqProperties, ElementOfSeq DEF FirstRead
    <3> HIDE DEF first
    <3>4. first = <<Long>> <=> first[1] = Long
      <4>1. ASSUME first[1] = Long PROVE first = <<Long>>
        <5>1. Long \in Nat
          BY FramingAssumption
        <5> DEFINE o == <<Long>>
        <5>2. o \in Seq(Nat) /\ Len(o) = 1 /\ o[1] = Long
          BY <5>1, One
        <5> HIDE DEF o
        <5>3. \A i \in 1..Len(first) : first[i] = o[i]
          BY <3>2, <4>1, <5>2
        <5>4. first = o
          BY <3>2, <3>3, <5>2, <5>3, SeqEqual
        <5> QED BY <5>4 DEF o
      <4> QED BY <4>1
    <3> QED BY <1>1, <2>2, <3>2, <3>4 DEF FirstRead, NeedsExt, ExtRead
  <2> QED BY <2>1, <2>2
<1> QED BY <1>1, <1>2, <1>3 DEF RoundTrip, h

(* The lengths the far side sends are those its heads can say.              *)
LEMMA BodyFacts ==
  ASSUME NEW t \in Transports, NEW len \in Bodies[t]
  PROVE  /\ len \in Lengths(t, Nat) /\ len \in Nat
         /\ IF t = "abridged" THEN len % 4 = 0 /\ len \div 4 \in 1..(Base * Base * Base - 1)
            ELSE len \div (Base * Base * Base) < Base /\ Stripped(t, len) > 0
<1>1. len \in Lengths(t, Nat)
  BY TunnelAssumption DEF Lengths
<1> QED BY <1>1, LengthFacts

LEMMA HeadSays ==
  ASSUME NEW t \in Transports, NEW len \in Bodies[t]
  PROVE  /\ Encode(t, len) \in Seq(Nat) /\ HeadLen(t, len) \in {1, 4}
         /\ Decode(t, Encode(t, len)) = len
         /\ t # "abridged" => HeadLen(t, len) = 4
         /\ t = "abridged" => (Encode(t, len)[1] = Long <=> HeadLen(t, len) = 4)
BY BodyFacts, HeadOf

LEMMA WordsOf ==
  ASSUME NEW n \in Nat
  PROVE  BodyUnits(n) \in Nat /\ (n > 0 => BodyUnits(n) > 0)
BY DEF BodyUnits

LEMMA BodyWords ==
  ASSUME NEW t \in Transports, NEW len \in Bodies[t]
  PROVE  /\ len \in Nat /\ len > 0
         /\ BodyUnits(len) \in Nat /\ BodyUnits(Stripped(t, len)) \in 1..BodyUnits(len)
<1>1. len \in Nat /\ Stripped(t, len) > 0 /\ Stripped(t, len) \in 0..len
  <2>1. CASE t # "abridged"
    <3>1. len \in Nat /\ Stripped(t, len) > 0
      BY <2>1, BodyFacts
    <3> QED BY <3>1 DEF Stripped
  <2>2. CASE t = "abridged"
    <3>1. len \in Nat /\ len \div 4 \in 1..(Base * Base * Base - 1)
      BY <2>2, BodyFacts
    <3>2. len \div 4 >= 1
      BY <3>1, FramingAssumption
    <3>3. len > 0
      BY <3>1, <3>2
    <3> QED BY <2>2, <3>1, <3>3 DEF Stripped
  <2> QED BY <2>1, <2>2
<1> QED BY <1>1 DEF BodyUnits

(* Cut into records: a write of any length, by any limit.                  *)
LEMMA RecordsAre ==
  ASSUME NEW len \in Nat \ {0}, NEW limit \in Nat \ {0}
  PROVE  \E N \in Nat \ {0} :
           /\ N = (len + limit - 1) \div limit
           /\ \A i \in 1..N : /\ i < N => limit * i < len
                              /\ limit * (i - 1) < len
                              /\ limit * i = limit * (i - 1) + limit
                              /\ limit * i \in Nat /\ limit * (i - 1) \in Nat
           /\ len <= limit * N
<1> DEFINE x == len + limit - 1
           N == x \div limit
           r == x % limit
<1>1. x \in Nat /\ limit \in Nat \ {0}
  OBVIOUS
<1>2. N \in Nat /\ r \in 0..(limit - 1) /\ x = limit * N + r
  <2> HIDE DEF x
  <2> QED BY <1>1, DivMod
<1> HIDE DEF N, r
<1>3. limit * N \in Nat
  BY <1>2
<1>4. len <= limit * N /\ limit * N - limit < len
  BY <1>2, <1>3
<1>5. N # 0
  <2> SUFFICES ASSUME N = 0 PROVE FALSE
    OBVIOUS
  <2>1. limit * N = 0
    OBVIOUS
  <2> QED BY <1>4, <2>1
<1>6. ASSUME NEW i \in 1..N
      PROVE  /\ i < N => limit * i < len
             /\ limit * (i - 1) < len
             /\ limit * i = limit * (i - 1) + limit
             /\ limit * i \in Nat /\ limit * (i - 1) \in Nat
  <2>1. PICK d \in Nat : N = i + d
    <3>1. N - i \in Nat /\ N = i + (N - i)
      BY <1>2
    <3> QED BY <3>1
  <2>2. limit * N = limit * i + limit * d
    BY <1>2, <2>1
  <2>3. limit * i \in Nat /\ limit * d \in Nat
    BY <1>2, <2>1
  <2>4. i - 1 \in Nat
    BY <1>2
  <2>5. limit * (i - 1) \in Nat
    BY <2>4
  <2>6. limit * ((i - 1) + 1) = limit * (i - 1) + limit
    BY <2>4
  <2>7. limit * i = limit * (i - 1) + limit
    BY <2>4, <2>6
  <2>8. ASSUME i < N PROVE limit * i < len
    <3>1. PICK e \in Nat : d = e + 1
      <4>1. d - 1 \in Nat /\ d = (d - 1) + 1
        BY <1>2, <2>1, <2>8
      <4> QED BY <4>1
    <3>2. limit * d = limit * e + limit
      BY <3>1
    <3>3. limit * e \in Nat
      BY <3>1
    <3> QED BY <1>4, <2>2, <2>3, <3>2, <3>3
  <2> QED BY <1>4, <2>2, <2>3, <2>5, <2>7, <2>8
<1>7. N \in Nat \ {0} /\ N = (len + limit - 1) \div limit
  BY <1>2, <1>5 DEF N
<1> QED BY <1>4, <1>6, <1>7

(* Nothing is lost between two records: cut as tlsConn.Write cuts it, a     *)
(* write of any length becomes records that hold all its bytes, none empty  *)
(* and none longer than the limit (faketls.go: Write).                      *)
THEOREM RecordsHoldAll == \A len \in Nat \ {0}, limit \in Nat \ {0} : RecordsFit(len, limit)
<1> SUFFICES ASSUME NEW len \in Nat \ {0}, NEW limit \in Nat \ {0} PROVE RecordsFit(len, limit)
  OBVIOUS
<1>1. PICK N \in Nat \ {0} :
        /\ N = (len + limit - 1) \div limit
        /\ \A i \in 1..N : /\ i < N => limit * i < len
                           /\ limit * (i - 1) < len
                           /\ limit * i = limit * (i - 1) + limit
                           /\ limit * i \in Nat /\ limit * (i - 1) \in Nat
        /\ len <= limit * N
  BY RecordsAre
<1> DEFINE rs == Records(len, limit)
           upTo == CHOOSE g : g = [i \in 0..Len(rs) |-> IF i = 0 THEN 0 ELSE g[i - 1] + rs[i]]
           held(i) == IF i < N THEN limit * i ELSE len
<1>2. rs = [i \in 1..N |-> IF i * limit < len THEN limit ELSE len - (i - 1) * limit]
  BY <1>1 DEF Records
<1>3. RecordsFit(len, limit) <=> (upTo[Len(rs)] = len /\ \A i \in 1..Len(rs) : rs[i] \in 1..limit)
  BY DEF RecordsFit
<1> HIDE DEF rs
<1>4. ASSUME NEW i \in 1..N PROVE rs[i] = (IF i < N THEN limit ELSE len - limit * (i - 1)) /\ rs[i] \in 1..limit
  <2>1. i * limit = limit * i /\ (i - 1) * limit = limit * (i - 1)
    BY <1>1
  <2>2. rs[i] = IF limit * i < len THEN limit ELSE len - limit * (i - 1)
    BY <1>2, <2>1
  <2>3. CASE i < N
    BY <1>1, <2>2, <2>3
  <2>4. CASE ~(i < N)
    <3>1. i = N
      BY <1>1, <2>4
    <3>2. ~(limit * i < len) /\ limit * i = limit * (i - 1) + limit /\ limit * (i - 1) < len /\ limit * (i - 1) \in Nat
      BY <1>1, <3>1
    <3>3. rs[i] = len - limit * (i - 1)
      BY <2>2, <3>2
    <3> QED BY <2>4, <3>2, <3>3
  <2> QED BY <2>3, <2>4
<1>5. rs \in Seq(Nat) /\ Len(rs) = N
  <2>1. \A i \in 1..N : rs[i] \in Nat
    BY <1>4
  <2>2. rs \in [1..N -> Nat]
    BY <1>2, <2>1
  <2> QED BY <2>2, FunSeq
<1> DEFINE f == [i \in 0..N |-> held(i)]
<1>6. held(0) = 0 /\ \A i \in 1..N : held(i) = held(i - 1) + rs[i]
  <2>1. held(0) = 0
    <3>1. limit * 0 = 0 /\ 0 < N
      BY <1>1
    <3> QED BY <3>1
  <2>2. ASSUME NEW i \in 1..N PROVE held(i) = held(i - 1) + rs[i]
    <3>1. i - 1 < N /\ held(i - 1) = limit * (i - 1)
      BY <1>1
    <3>2. limit * i = limit * (i - 1) + limit /\ limit * (i - 1) \in Nat
      BY <1>1
    <3>3. rs[i] = (IF i < N THEN limit ELSE len - limit * (i - 1))
      BY <1>4
    <3>4. CASE i < N
      BY <3>1, <3>2, <3>3, <3>4
    <3>5. CASE ~(i < N)
      <4>1. held(i) = len /\ rs[i] = len - limit * (i - 1)
        BY <3>3, <3>5
      <4> HIDE DEF held
      <4> QED BY <3>1, <3>2, <4>1
    <3> QED BY <3>4, <3>5
  <2> QED BY <2>1, <2>2
<1> HIDE DEF held
<1>7. f = [i \in 0..Len(rs) |-> IF i = 0 THEN 0 ELSE f[i - 1] + rs[i]]
  <2> DEFINE e(i) == IF i = 0 THEN 0 ELSE f[i - 1] + rs[i]
  <2>1. ASSUME NEW i \in 0..N PROVE held(i) = e(i)
    <3>1. CASE i = 0
      BY <1>6, <3>1
    <3>2. CASE i # 0
      <4>1. i \in 1..N /\ i - 1 \in 0..N
        BY <1>1, <3>2
      <4>2. f[i - 1] = held(i - 1)
        BY <4>1
      <4> QED BY <1>6, <3>2, <4>1, <4>2
    <3> QED BY <3>1, <3>2
  <2> HIDE DEF e
  <2>2. f = [i \in 0..N |-> e(i)]
    BY <2>1
  <2> QED BY <1>5, <2>2 DEF e
<1> HIDE DEF f
<1>8. upTo = [i \in 0..Len(rs) |-> IF i = 0 THEN 0 ELSE upTo[i - 1] + rs[i]]
  BY <1>7, Zenon
<1> HIDE DEF upTo
<1>9. \A i \in 0..N : upTo[i] = IF i = 0 THEN 0 ELSE upTo[i - 1] + rs[i]
  BY <1>5, <1>8
<1> DEFINE S == {m \in Nat : m <= N => upTo[m] = held(m)}
<1>10. S = Nat
  <2>1. 0 \in S
    <3>1. 0 \in 0..N
      BY <1>1
    <3> QED BY <1>6, <1>9, <3>1
  <2>2. ASSUME NEW m \in S PROVE m + 1 \in S
    <3> SUFFICES ASSUME m + 1 <= N PROVE upTo[m + 1] = held(m + 1)
      OBVIOUS
    <3>1. m + 1 \in 0..N /\ m + 1 \in 1..N /\ m + 1 # 0 /\ (m + 1) - 1 = m /\ upTo[m] = held(m)
      BY <1>1
    <3> QED BY <1>6, <1>9, <3>1
  <2>3. S \in SUBSET Nat /\ Inductive(S)
    BY <2>1, <2>2 DEF Inductive
  <2> HIDE DEF S
  <2> QED BY <2>3, Induction
<1>11. upTo[N] = len
  <2>1. upTo[N] = held(N)
    BY <1>1, <1>10
  <2> QED BY <1>1, <2>1 DEF held
<1> QED BY <1>3, <1>4, <1>5, <1>11

-----------------------------------------------------------------------------
(* Before: the position in the stream at which a packet begins, as the sum  *)
(* of the lengths before it.                                                *)
Units(t, len) == HeadLen(t, len) + BodyUnits(len)

SumTo(t, ps, n) ==
  LET upTo[j \in 0..Len(ps)] == IF j = 0 THEN 0 ELSE upTo[j - 1] + Units(t, ps[j])
  IN  upTo[n]

LEMMA UnitsTyped ==
  ASSUME NEW t \in Transports, NEW len \in Bodies[t]
  PROVE  Units(t, len) \in Nat \ {0}
BY HeadSays, BodyWords DEF Units

AddsUp(f, m, t, ps) ==
  f \in [0..m -> Nat] /\ f[0] = 0 /\ \A i \in 1..m : f[i] = f[i - 1] + Units(t, ps[i])

LEMMA SumsExist ==
  ASSUME NEW t \in Transports, NEW ps \in Seq(Bodies[t])
  PROVE  \E f : AddsUp(f, Len(ps), t, ps)
<1> DEFINE L == Len(ps)
           S == {m \in Nat : m <= L => \E f : AddsUp(f, m, t, ps)}
<1>1. L \in Nat /\ \A i \in 1..L : Units(t, ps[i]) \in Nat
  BY UnitsTyped, ElementOfSeq, LenProperties
<1> HIDE DEF L
<1>2. 0 \in S
  <2> DEFINE f == [i \in 0..0 |-> 0]
  <2>1. AddsUp(f, 0, t, ps)
    BY DEF AddsUp
  <2> HIDE DEF f
  <2> QED BY <2>1
<1>3. ASSUME NEW m \in S PROVE m + 1 \in S
  <2>1. SUFFICES ASSUME m + 1 <= L PROVE \E f : AddsUp(f, m + 1, t, ps)
    OBVIOUS
  <2>2. PICK f : AddsUp(f, m, t, ps)
    BY <1>1, <2>1
  <2> DEFINE g == [i \in 0..(m + 1) |-> IF i = m + 1 THEN f[m] + Units(t, ps[m + 1]) ELSE f[i]]
  <2>3. AddsUp(g, m + 1, t, ps)
    <3>1. f \in [0..m -> Nat] /\ f[0] = 0 /\ \A i \in 1..m : f[i] = f[i - 1] + Units(t, ps[i])
      BY <2>2 DEF AddsUp
    <3>2. Units(t, ps[m + 1]) \in Nat /\ m \in Nat
      BY <1>1, <2>1
    <3>3. g \in [0..(m + 1) -> Nat]
      BY <3>1, <3>2
    <3>4. g[0] = 0 /\ g[m + 1] = f[m] + Units(t, ps[m + 1]) /\ \A i \in 0..m : g[i] = f[i]
      BY <3>1, <3>2
    <3> HIDE DEF g
    <3>5. ASSUME NEW i \in 1..(m + 1) PROVE g[i] = g[i - 1] + Units(t, ps[i])
      <4>1. CASE i = m + 1
        <5>1. i - 1 = m /\ m \in 0..m
          BY <3>2, <4>1
        <5> QED BY <3>4, <4>1, <5>1
      <4>2. CASE i # m + 1
        <5>1. i \in 1..m /\ i \in 0..m /\ i - 1 \in 0..m
          BY <3>2, <4>2
        <5> QED BY <3>1, <3>4, <5>1
      <4> QED BY <4>1, <4>2
    <3> QED BY <3>3, <3>4, <3>5 DEF AddsUp
  <2> HIDE DEF g
  <2> QED BY <2>3
<1>4. S = Nat
  <2>1. S \in SUBSET Nat /\ Inductive(S)
    BY <1>2, <1>3 DEF Inductive
  <2> HIDE DEF S
  <2> QED BY <2>1, Induction
<1> QED BY <1>1, <1>4 DEF L

LEMMA SumIs ==
  ASSUME NEW t \in Transports, NEW ps \in Seq(Bodies[t])
  PROVE  /\ SumTo(t, ps, 0) = 0
         /\ \A i \in 0..Len(ps) : SumTo(t, ps, i) \in Nat
         /\ \A i \in 1..Len(ps) : SumTo(t, ps, i) = SumTo(t, ps, i - 1) + Units(t, ps[i])
<1>1. PICK f : AddsUp(f, Len(ps), t, ps)
  BY SumsExist
<1> DEFINE h == CHOOSE g : g = [i \in 0..Len(ps) |-> IF i = 0 THEN 0 ELSE g[i - 1] + Units(t, ps[i])]
           e(i) == IF i = 0 THEN 0 ELSE f[i - 1] + Units(t, ps[i])
           S == {m \in Nat : m <= Len(ps) => h[m] = f[m]}
<1>2. \A i : SumTo(t, ps, i) = h[i]
  BY DEF SumTo
<1>3. f = [i \in 0..Len(ps) |-> e(i)]
  <2>1. f \in [0..Len(ps) -> Nat] /\ \A i \in 0..Len(ps) : f[i] = e(i)
    BY <1>1 DEF AddsUp
  <2> HIDE DEF e
  <2> QED BY <2>1
<1>4. h = [i \in 0..Len(ps) |-> IF i = 0 THEN 0 ELSE h[i - 1] + Units(t, ps[i])]
  BY <1>3, Zenon
<1> HIDE DEF h, e
<1>5. \A i \in 0..Len(ps) : h[i] = IF i = 0 THEN 0 ELSE h[i - 1] + Units(t, ps[i])
  BY <1>4, Zenon
<1>6. f \in [0..Len(ps) -> Nat] /\ f[0] = 0 /\ \A i \in 1..Len(ps) : f[i] = f[i - 1] + Units(t, ps[i])
  BY <1>1 DEF AddsUp
<1>7. Len(ps) \in Nat
  BY LenProperties
<1>8. S = Nat
  <2>1. 0 \in S
    BY <1>5, <1>6, <1>7
  <2>2. ASSUME NEW m \in S PROVE m + 1 \in S
    <3> SUFFICES ASSUME m + 1 <= Len(ps) PROVE h[m + 1] = f[m + 1]
      OBVIOUS
    <3>1. m + 1 \in 0..Len(ps) /\ m + 1 \in 1..Len(ps) /\ m + 1 # 0 /\ (m + 1) - 1 = m /\ h[m] = f[m]
      BY <1>7
    <3> QED BY <1>5, <1>6, <3>1
  <2>3. S \in SUBSET Nat /\ Inductive(S)
    BY <2>1, <2>2 DEF Inductive
  <2> HIDE DEF S
  <2> QED BY <2>3, Induction
<1>9. \A i \in 0..Len(ps) : h[i] = f[i]
  BY <1>7, <1>8
<1>10. h[0] = 0 /\ \A i \in 0..Len(ps) : h[i] \in Nat
  BY <1>6, <1>7, <1>9
<1>11. ASSUME NEW i \in 1..Len(ps) PROVE h[i] = h[i - 1] + Units(t, ps[i])
  <2>1. i \in 0..Len(ps) /\ i # 0
    BY <1>7
  <2> QED BY <1>5, <2>1
<1> QED BY <1>2, <1>10, <1>11

LEMMA SumMonotone ==
  ASSUME NEW t \in Transports, NEW ps \in Seq(Bodies[t]), NEW a \in 0..Len(ps), NEW b \in 0..Len(ps)
  PROVE  /\ a <= b => SumTo(t, ps, a) <= SumTo(t, ps, b)
         /\ a < b => SumTo(t, ps, a) < SumTo(t, ps, b)
<1> DEFINE S == {m \in Nat : a + m <= Len(ps) => SumTo(t, ps, a) + m <= SumTo(t, ps, a + m)}
<1>1. /\ Len(ps) \in Nat
      /\ \A i \in 0..Len(ps) : SumTo(t, ps, i) \in Nat
      /\ \A i \in 1..Len(ps) : SumTo(t, ps, i) = SumTo(t, ps, i - 1) + Units(t, ps[i]) /\ Units(t, ps[i]) \in Nat \ {0}
  BY SumIs, UnitsTyped, ElementOfSeq, LenProperties
<1>2. 0 \in S
  BY <1>1
<1>3. ASSUME NEW m \in S PROVE m + 1 \in S
  <2> SUFFICES ASSUME a + (m + 1) <= Len(ps) PROVE SumTo(t, ps, a) + (m + 1) <= SumTo(t, ps, a + (m + 1))
    OBVIOUS
  <2>1. PICK i \in 1..Len(ps) : i = a + (m + 1)
    BY <1>1
  <2>2. i - 1 = a + m /\ a + m <= Len(ps) /\ i - 1 \in 0..Len(ps)
    BY <1>1, <2>1
  <2>3. SumTo(t, ps, a) + m <= SumTo(t, ps, i - 1)
    BY <2>2
  <2>4. SumTo(t, ps, i) = SumTo(t, ps, i - 1) + Units(t, ps[i]) /\ Units(t, ps[i]) \in Nat \ {0} /\ SumTo(t, ps, i - 1) \in Nat
    BY <1>1, <2>2
  <2>5. SumTo(t, ps, a) \in Nat
    BY <1>1
  <2> QED BY <2>1, <2>3, <2>4, <2>5
<1>4. S = Nat
  <2>1. S \in SUBSET Nat /\ Inductive(S)
    BY <1>2, <1>3 DEF Inductive
  <2> HIDE DEF S
  <2> QED BY <2>1, Induction
<1>5. ASSUME a <= b PROVE SumTo(t, ps, a) + (b - a) <= SumTo(t, ps, b)
  <2>1. PICK m \in Nat : m = b - a /\ a + m = b
    BY <1>1, <1>5
  <2>2. m \in S
    BY <1>4
  <2> QED BY <1>1, <2>1, <2>2
<1> QED BY <1>1, <1>5

LEMMA SumAppend ==
  ASSUME NEW t \in Transports, NEW ps \in Seq(Bodies[t]), NEW len \in Bodies[t]
  PROVE  /\ \A i \in 0..Len(ps) : SumTo(t, Append(ps, len), i) = SumTo(t, ps, i)
         /\ SumTo(t, Append(ps, len), Len(ps) + 1) = SumTo(t, ps, Len(ps)) + Units(t, len)
<1> DEFINE qs == Append(ps, len)
           S == {m \in Nat : m <= Len(ps) => SumTo(t, qs, m) = SumTo(t, ps, m)}
<1>1. /\ Len(ps) \in Nat /\ qs \in Seq(Bodies[t]) /\ Len(qs) = Len(ps) + 1
      /\ \A i \in 1..Len(ps) : qs[i] = ps[i]
      /\ qs[Len(ps) + 1] = len
  BY AppendProperties, LenProperties
<1> HIDE DEF qs
<1>2. /\ SumTo(t, ps, 0) = 0 /\ SumTo(t, qs, 0) = 0
      /\ \A i \in 1..Len(ps) : SumTo(t, ps, i) = SumTo(t, ps, i - 1) + Units(t, ps[i])
      /\ \A i \in 1..Len(qs) : SumTo(t, qs, i) = SumTo(t, qs, i - 1) + Units(t, qs[i])
  BY <1>1, SumIs
<1>3. 0 \in S
  BY <1>2
<1>4. ASSUME NEW m \in S PROVE m + 1 \in S
  <2> SUFFICES ASSUME m + 1 <= Len(ps) PROVE SumTo(t, qs, m + 1) = SumTo(t, ps, m + 1)
    OBVIOUS
  <2>1. PICK i \in 1..Len(ps) : i = m + 1
    BY <1>1
  <2>2. i - 1 = m /\ m <= Len(ps) /\ i \in 1..Len(qs)
    BY <1>1, <2>1
  <2>3. SumTo(t, qs, i - 1) = SumTo(t, ps, i - 1)
    BY <2>2
  <2> QED BY <1>1, <1>2, <2>1, <2>2, <2>3
<1>5. S = Nat
  <2>1. S \in SUBSET Nat /\ Inductive(S)
    BY <1>3, <1>4 DEF Inductive
  <2> HIDE DEF S
  <2> QED BY <2>1, Induction
<1>6. \A i \in 0..Len(ps) : SumTo(t, qs, i) = SumTo(t, ps, i)
  BY <1>1, <1>5
<1>7. SumTo(t, qs, Len(ps) + 1) = SumTo(t, ps, Len(ps)) + Units(t, len)
  <2>1. Len(ps) + 1 \in 1..Len(qs) /\ (Len(ps) + 1) - 1 = Len(ps) /\ Len(ps) \in 0..Len(ps)
    BY <1>1
  <2>2. SumTo(t, qs, Len(ps) + 1) = SumTo(t, qs, (Len(ps) + 1) - 1) + Units(t, qs[Len(ps) + 1])
    BY <1>2, <2>1
  <2>3. SumTo(t, qs, Len(ps)) = SumTo(t, ps, Len(ps))
    BY <1>6, <2>1
  <2> QED BY <1>1, <2>1, <2>2, <2>3
<1> QED BY <1>6, <1>7 DEF qs

LEMMA BeforeIs ==
  /\ \A n : Before(n) = SumTo(tr, packets, n)
  /\ \A len : UnitsOf(len) = Units(tr, len)
BY DEF Before, SumTo, UnitsOf, Units, HeadLen

-----------------------------------------------------------------------------
(* Units of the stream and of the records that carry it.                   *)
RecordTypes == {"app", "ccs", "alert"}
DataUnit == [of : {"data"}, k : Nat, pkt : Nat, part : Nat, val : Nat]
FrameUnit == [of : {"pad"}] \cup [of : {"type"}, val : RecordTypes] \cup [of : {"len"}, val : Nat]
Unit == DataUnit \cup FrameUnit

IsData(u) == u.of = "data"

LEMMA UnitFacts ==
  ASSUME NEW u \in Unit
  PROVE  /\ IsData(u) => u \in DataUnit /\ u.k \in Nat /\ u.pkt \in Nat /\ u.part \in Nat /\ u.val \in Nat
         /\ u.of = "type" => u.val \in RecordTypes
         /\ u.of = "len" => u.val \in Nat
BY DEF Unit, DataUnit, FrameUnit, IsData

(* The data among the units of s is numbered, one by one, from a + 1 to b.  *)
Counts(c, s, a, b) ==
  /\ c \in [0..Len(s) -> Nat] /\ c[0] = a /\ c[Len(s)] = b
  /\ \A i \in 1..Len(s) : IF IsData(s[i]) THEN c[i] = c[i - 1] + 1 /\ s[i].k = c[i] ELSE c[i] = c[i - 1]

Runs(s, a, b) == \E c : Counts(c, s, a, b)

(* All of it data, or none of it.                                           *)
Solid(s) == \A i \in 1..Len(s) : IsData(s[i])
Hollow(s) == \A i \in 1..Len(s) : ~IsData(s[i])

LEMMA RunsNone == ASSUME NEW a \in Nat PROVE Runs(<<>>, a, a)
<1> DEFINE c == [i \in 0..0 |-> a]
<1>1. c \in [0..0 -> Nat] /\ c[0] = a
  OBVIOUS
<1>2. Counts(c, <<>>, a, a)
  BY <1>1 DEF Counts
<1> HIDE DEF c
<1> QED BY <1>2 DEF Runs

LEMMA RunsUncons ==
  ASSUME NEW s \in Seq(Unit), s # <<>>, NEW a \in Nat, NEW b \in Nat, Runs(s, a, b)
  PROVE  IF IsData(Head(s)) THEN Head(s).k = a + 1 /\ Runs(Tail(s), a + 1, b) ELSE Runs(Tail(s), a, b)
<1> DEFINE t == Tail(s)
<1>1. PICK c : Counts(c, s, a, b)
  BY DEF Runs
<1>2. /\ c \in [0..Len(s) -> Nat] /\ c[0] = a /\ c[Len(s)] = b
      /\ \A i \in 1..Len(s) : IF IsData(s[i]) THEN c[i] = c[i - 1] + 1 /\ s[i].k = c[i] ELSE c[i] = c[i - 1]
  BY <1>1 DEF Counts
<1>3. Head(s) = s[1] /\ Len(s) \in Nat \ {0} /\ Len(t) = Len(s) - 1 /\ \A i \in 1..(Len(s) - 1) : t[i] = s[i + 1]
  BY Uncons
<1> HIDE DEF t
<1> DEFINE d == [i \in 0..(Len(s) - 1) |-> c[i + 1]]
<1>4. d \in [0..Len(t) -> Nat] /\ d[0] = c[1] /\ d[Len(t)] = b
  <2>1. d[Len(s) - 1] = c[(Len(s) - 1) + 1] /\ (Len(s) - 1) + 1 = Len(s)
    BY <1>3
  <2>2. \A i \in 0..(Len(s) - 1) : c[i + 1] \in Nat
    BY <1>2, <1>3
  <2> QED BY <1>2, <1>3, <2>1, <2>2
<1>5. \A i \in 0..Len(t) : d[i] = c[i + 1]
  BY <1>3
<1> HIDE DEF d
<1>6. ASSUME NEW i \in 1..Len(t)
      PROVE  IF IsData(t[i]) THEN d[i] = d[i - 1] + 1 /\ t[i].k = d[i] ELSE d[i] = d[i - 1]
  <2>1. PICK j \in 1..Len(s) : j = i + 1
    BY <1>3
  <2>2. t[i] = s[j] /\ d[i] = c[j] /\ d[i - 1] = c[j - 1]
    <3>1. j - 1 = i /\ (i - 1) + 1 = j - 1 /\ i - 1 \in 0..Len(t) /\ i \in 0..Len(t) /\ i \in 1..(Len(s) - 1)
      BY <1>3, <2>1
    <3> QED BY <1>3, <1>5, <2>1, <3>1
  <2> QED BY <1>2, <2>2
<1>7. Counts(d, t, c[1], b)
  BY <1>4, <1>6 DEF Counts
<1>8. Runs(t, c[1], b)
  BY <1>7 DEF Runs
<1>9. IF IsData(s[1]) THEN c[1] = a + 1 /\ s[1].k = c[1] ELSE c[1] = a
  <2>1. 1 \in 1..Len(s) /\ 1 - 1 = 0
    BY <1>3
  <2> QED BY <1>2, <2>1
<1> QED BY <1>3, <1>8, <1>9 DEF t

LEMMA RunsConcat ==
  ASSUME NEW s \in Seq(Unit), NEW t \in Seq(Unit), NEW a \in Nat, NEW m \in Nat, NEW b \in Nat,
         Runs(s, a, m), Runs(t, m, b)
  PROVE  Runs(s \o t, a, b)
<1> DEFINE u == s \o t
           S == Len(s)
           T == Len(t)
<1>1. PICK c : Counts(c, s, a, m)
  BY DEF Runs
<1>2. PICK d : Counts(d, t, m, b)
  BY DEF Runs
<1>3. S \in Nat /\ T \in Nat /\ Len(u) = S + T /\ \A i \in 1..(S + T) : u[i] = IF i <= S THEN s[i] ELSE t[i - S]
  BY ConcatProperties, LenProperties
<1>4. /\ c \in [0..S -> Nat] /\ c[0] = a /\ c[S] = m
      /\ \A i \in 1..S : IF IsData(s[i]) THEN c[i] = c[i - 1] + 1 /\ s[i].k = c[i] ELSE c[i] = c[i - 1]
  BY <1>1 DEF Counts
<1>5. /\ d \in [0..T -> Nat] /\ d[0] = m /\ d[T] = b
      /\ \A i \in 1..T : IF IsData(t[i]) THEN d[i] = d[i - 1] + 1 /\ t[i].k = d[i] ELSE d[i] = d[i - 1]
  BY <1>2 DEF Counts
<1> HIDE DEF u, S, T
<1> DEFINE e == [i \in 0..(S + T) |-> IF i <= S THEN c[i] ELSE d[i - S]]
<1>6. /\ \A i \in 0..S : e[i] = c[i]
      /\ \A i \in 0..T : e[S + i] = d[i]
  <2>1. \A i \in 0..S : e[i] = c[i]
    BY <1>3
  <2>2. ASSUME NEW i \in 0..T PROVE e[S + i] = d[i]
    <3>1. CASE i = 0
      <4>1. S + i = S /\ S \in 0..S
        BY <1>3, <3>1
      <4> QED BY <1>4, <1>5, <2>1, <3>1, <4>1
    <3>2. CASE i # 0
      <4>1. ~(S + i <= S) /\ (S + i) - S = i /\ S + i \in 0..(S + T)
        BY <1>3, <3>2
      <4> QED BY <4>1
    <3> QED BY <3>1, <3>2
  <2> QED BY <2>1, <2>2
<1>7. e \in [0..(S + T) -> Nat]
  <2>1. ASSUME NEW i \in 0..(S + T) PROVE (IF i <= S THEN c[i] ELSE d[i - S]) \in Nat
    <3>1. CASE i <= S
      <4>1. i \in 0..S
        BY <1>3, <3>1
      <4> QED BY <1>4, <3>1, <4>1
    <3>2. CASE ~(i <= S)
      <4>1. i - S \in 0..T
        BY <1>3, <3>2
      <4> QED BY <1>5, <3>2, <4>1
    <3> QED BY <3>1, <3>2
  <2> QED BY <2>1
<1>8. e[0] = a /\ e[S + T] = b
  <2>1. 0 \in 0..S /\ T \in 0..T
    BY <1>3
  <2>2. e[0] = c[0] /\ e[S + T] = d[T]
    BY <1>6, <2>1
  <2> QED BY <1>4, <1>5, <2>2, Zenon
<1> HIDE DEF e
<1>9. ASSUME NEW i \in 1..(S + T)
      PROVE  IF IsData(u[i]) THEN e[i] = e[i - 1] + 1 /\ u[i].k = e[i] ELSE e[i] = e[i - 1]
  <2>1. CASE i <= S
    <3>1. i \in 1..S /\ i \in 0..S /\ i - 1 \in 0..S
      BY <1>3, <2>1
    <3>2. u[i] = s[i] /\ e[i] = c[i] /\ e[i - 1] = c[i - 1]
      BY <1>3, <1>6, <2>1, <3>1
    <3> QED BY <1>4, <3>1, <3>2
  <2>2. CASE ~(i <= S)
    <3>1. PICK j \in 1..T : i = S + j
      BY <1>3, <2>2
    <3>2. i - S = j /\ i - 1 = S + (j - 1) /\ j \in 0..T /\ j - 1 \in 0..T
      BY <1>3, <3>1
    <3>3. u[i] = t[j] /\ e[i] = d[j] /\ e[i - 1] = d[j - 1]
      BY <1>3, <1>6, <2>2, <3>1, <3>2
    <3> QED BY <1>5, <3>3
  <2> QED BY <2>1, <2>2
<1>10. Counts(e, u, a, b)
  BY <1>3, <1>7, <1>8, <1>9 DEF Counts
<1> QED BY <1>10 DEF Runs, u

(* All of it data: the numbers are the positions.                          *)
LEMMA SolidCounts ==
  ASSUME NEW s \in Seq(Unit), Solid(s), NEW a \in Nat, NEW b \in Nat, NEW c, Counts(c, s, a, b)
  PROVE  \A n \in 0..Len(s) : c[n] = a + n
<1> DEFINE S == {n \in Nat : n <= Len(s) => c[n] = a + n}
<1>1. Len(s) \in Nat /\ c[0] = a /\ \A i \in 1..Len(s) : c[i] = c[i - 1] + 1
  BY LenProperties DEF Counts, Solid
<1>2. 0 \in S
  BY <1>1
<1>3. ASSUME NEW n \in S PROVE n + 1 \in S
  <2> SUFFICES ASSUME n + 1 <= Len(s) PROVE c[n + 1] = a + (n + 1)
    OBVIOUS
  <2>1. n + 1 \in 1..Len(s) /\ (n + 1) - 1 = n /\ c[n] = a + n
    BY <1>1
  <2>2. c[n + 1] = c[n] + 1
    BY <1>1, <2>1
  <2> QED BY <2>1, <2>2
<1>4. S = Nat
  <2>1. S \in SUBSET Nat /\ Inductive(S)
    BY <1>2, <1>3 DEF Inductive
  <2> HIDE DEF S
  <2> QED BY <2>1, Induction
<1>5. ASSUME NEW n \in 0..Len(s) PROVE c[n] = a + n
  <2>1. n \in S /\ n <= Len(s)
    BY <1>1, <1>4
  <2> QED BY <2>1
<1> QED BY <1>5

LEMMA SolidRuns ==
  ASSUME NEW s \in Seq(Unit), Solid(s), NEW a \in Nat, NEW b \in Nat
  PROVE  Runs(s, a, b) <=> b = a + Len(s) /\ \A i \in 1..Len(s) : s[i].k = a + i
<1>1. Len(s) \in Nat
  BY LenProperties
<1>2. ASSUME Runs(s, a, b) PROVE b = a + Len(s) /\ \A i \in 1..Len(s) : s[i].k = a + i
  <2>1. PICK c : Counts(c, s, a, b)
    BY <1>2 DEF Runs
  <2>2. \A n \in 0..Len(s) : c[n] = a + n
    BY <2>1, SolidCounts
  <2>3. c[Len(s)] = b /\ \A i \in 1..Len(s) : s[i].k = c[i]
    BY <2>1 DEF Counts, Solid
  <2>4. Len(s) \in 0..Len(s) /\ \A i \in 1..Len(s) : i \in 0..Len(s)
    BY <1>1
  <2> QED BY <2>2, <2>3, <2>4
<1>3. ASSUME b = a + Len(s), \A i \in 1..Len(s) : s[i].k = a + i PROVE Runs(s, a, b)
  <2> DEFINE c == [i \in 0..Len(s) |-> a + i]
  <2>1. c \in [0..Len(s) -> Nat] /\ c[0] = a /\ c[Len(s)] = b
    BY <1>1, <1>3
  <2>2. ASSUME NEW i \in 1..Len(s) PROVE c[i] = c[i - 1] + 1 /\ s[i].k = c[i]
    <3>1. c[i] = a + i /\ c[i - 1] = a + (i - 1) /\ i \in Nat
      BY <1>1
    <3> HIDE DEF c
    <3> QED BY <1>3, <3>1
  <2> HIDE DEF c
  <2>3. Counts(c, s, a, b)
    BY <2>1, <2>2 DEF Counts, Solid
  <2> QED BY <2>3 DEF Runs
<1> QED BY <1>2, <1>3

LEMMA HollowRuns ==
  ASSUME NEW s \in Seq(Unit), Hollow(s), NEW a \in Nat
  PROVE  Runs(s, a, a) /\ \A b \in Nat : Runs(s, a, b) => b = a
<1> DEFINE d == [i \in 0..Len(s) |-> a]
<1>1. Len(s) \in Nat
  BY LenProperties
<1>2. d \in [0..Len(s) -> Nat] /\ d[0] = a /\ d[Len(s)] = a /\ \A i \in 1..Len(s) : d[i] = d[i - 1]
  BY <1>1
<1> HIDE DEF d
<1>3. Counts(d, s, a, a)
  BY <1>2 DEF Counts, Hollow
<1>4. ASSUME NEW b \in Nat, Runs(s, a, b) PROVE b = a
  <2>1. PICK c : Counts(c, s, a, b)
    BY <1>4 DEF Runs
  <2> DEFINE S == {n \in Nat : n <= Len(s) => c[n] = a}
  <2>2. c[0] = a /\ c[Len(s)] = b /\ \A i \in 1..Len(s) : c[i] = c[i - 1]
    BY <2>1 DEF Counts, Hollow
  <2>3. 0 \in S
    BY <2>2
  <2>4. ASSUME NEW n \in S PROVE n + 1 \in S
    <3> SUFFICES ASSUME n + 1 <= Len(s) PROVE c[n + 1] = a
      OBVIOUS
    <3>1. n + 1 \in 1..Len(s) /\ (n + 1) - 1 = n /\ c[n] = a
      BY <1>1
    <3> QED BY <2>2, <3>1
  <2>5. S = Nat
    <3>1. S \in SUBSET Nat /\ Inductive(S)
      BY <2>3, <2>4 DEF Inductive
    <3> HIDE DEF S
    <3> QED BY <3>1, Induction
  <2> QED BY <1>1, <2>2, <2>5
<1> QED BY <1>3, <1>4 DEF Runs

LEMMA RunsSplit ==
  ASSUME NEW s \in Seq(Unit), NEW t \in Seq(Unit), NEW a \in Nat, NEW b \in Nat, Runs(s \o t, a, b)
  PROVE  \E m \in Nat : Runs(s, a, m) /\ Runs(t, m, b)
<1> DEFINE u == s \o t
           S == Len(s)
           T == Len(t)
<1>1. S \in Nat /\ T \in Nat /\ Len(u) = S + T /\ \A i \in 1..(S + T) : u[i] = IF i <= S THEN s[i] ELSE t[i - S]
  BY ConcatProperties, LenProperties
<1>2. PICK c : Counts(c, u, a, b)
  BY DEF Runs
<1>3. /\ c \in [0..(S + T) -> Nat] /\ c[0] = a /\ c[S + T] = b
      /\ \A i \in 1..(S + T) : IF IsData(u[i]) THEN c[i] = c[i - 1] + 1 /\ u[i].k = c[i] ELSE c[i] = c[i - 1]
  BY <1>1, <1>2 DEF Counts
<1> HIDE DEF u, S, T
<1> DEFINE d == [i \in 0..S |-> c[i]]
           e == [i \in 0..T |-> c[S + i]]
<1>4. c[S] \in Nat
  <2>1. S \in 0..(S + T)
    BY <1>1
  <2> QED BY <1>3, <2>1
<1>5. Counts(d, s, a, c[S])
  <2>1. d \in [0..S -> Nat] /\ d[0] = a /\ d[S] = c[S] /\ \A i \in 0..S : d[i] = c[i]
    BY <1>1, <1>3
  <2> HIDE DEF d
  <2>2. ASSUME NEW i \in 1..S PROVE IF IsData(s[i]) THEN d[i] = d[i - 1] + 1 /\ s[i].k = d[i] ELSE d[i] = d[i - 1]
    <3>1. i \in 1..(S + T) /\ i <= S /\ i - 1 \in 0..S /\ i \in 0..S
      BY <1>1
    <3>2. u[i] = s[i] /\ d[i] = c[i] /\ d[i - 1] = c[i - 1]
      BY <1>1, <2>1, <3>1
    <3> QED BY <1>3, <3>1, <3>2
  <2> QED BY <2>1, <2>2 DEF Counts, S
<1>6. Counts(e, t, c[S], b)
  <2>1. e[0] = c[S + 0] /\ S + 0 = S /\ \A i \in 0..T : e[i] = c[S + i]
    BY <1>1
  <2>2. e \in [0..T -> Nat]
    <3>1. \A i \in 0..T : c[S + i] \in Nat
      BY <1>1, <1>3
    <3> QED BY <3>1
  <2>3. e[T] = b
    BY <1>1, <1>3, <2>1
  <2> HIDE DEF e
  <2>4. ASSUME NEW i \in 1..T PROVE IF IsData(t[i]) THEN e[i] = e[i - 1] + 1 /\ t[i].k = e[i] ELSE e[i] = e[i - 1]
    <3>1. PICK j \in 1..(S + T) : j = S + i
      BY <1>1
    <3>2. ~(j <= S) /\ j - S = i /\ j - 1 = S + (i - 1) /\ i \in 0..T /\ i - 1 \in 0..T
      BY <1>1, <3>1
    <3>3. u[j] = t[i] /\ e[i] = c[j] /\ e[i - 1] = c[j - 1]
      BY <1>1, <2>1, <3>1, <3>2
    <3> QED BY <1>3, <3>3
  <2> QED BY <2>1, <2>2, <2>3, <2>4 DEF Counts, T
<1> QED BY <1>4, <1>5, <1>6 DEF Runs

LEMMA RunsCount ==
  ASSUME NEW s \in Seq(Unit), NEW a \in Nat, NEW b \in Nat, Runs(s, a, b)
  PROVE  /\ \A i \in 1..Len(s) : s[i].of = "data" => s[i].k = a + Cardinality({j \in 1..i : s[j].of = "data"})
         /\ b = a + Cardinality({j \in 1..Len(s) : s[j].of = "data"})
<1> DEFINE D(i) == {j \in 1..i : IsData(s[j])}
<1>1. PICK c : Counts(c, s, a, b)
  BY DEF Runs
<1>2. Len(s) \in Nat
  BY LenProperties
<1>3. /\ c \in [0..Len(s) -> Nat] /\ c[0] = a /\ c[Len(s)] = b
      /\ \A i \in 1..Len(s) : IF IsData(s[i]) THEN c[i] = c[i - 1] + 1 /\ s[i].k = c[i] ELSE c[i] = c[i - 1]
  BY <1>1 DEF Counts
<1> DEFINE S == {m \in Nat : m <= Len(s) => IsFiniteSet(D(m)) /\ c[m] = a + Cardinality(D(m))}
<1>4. 0 \in S
  <2>1. D(0) = {}
    OBVIOUS
  <2> QED BY <1>3, <2>1, FS_EmptySet
<1>5. ASSUME NEW m \in S PROVE m + 1 \in S
  <2> SUFFICES ASSUME m + 1 <= Len(s)
               PROVE  IsFiniteSet(D(m + 1)) /\ c[m + 1] = a + Cardinality(D(m + 1))
    OBVIOUS
  <2>1. m \in Nat /\ m + 1 \in 1..Len(s) /\ (m + 1) - 1 = m /\ IsFiniteSet(D(m)) /\ c[m] = a + Cardinality(D(m))
    BY <1>2
  <2>2. Cardinality(D(m)) \in Nat
    BY <2>1, FS_CardinalityType
  <2>3. CASE IsData(s[m + 1])
    <3>1. D(m + 1) = D(m) \cup {m + 1} /\ m + 1 \notin D(m)
      BY <2>1, <2>3
    <3> HIDE DEF D
    <3>2. IsFiniteSet(D(m + 1)) /\ Cardinality(D(m + 1)) = Cardinality(D(m)) + 1
      BY <2>1, <3>1, FS_AddElement
    <3>3. c[m + 1] = c[m] + 1
      BY <1>3, <2>1, <2>3
    <3> QED BY <2>1, <2>2, <3>2, <3>3
  <2>4. CASE ~IsData(s[m + 1])
    <3>1. D(m + 1) = D(m)
      BY <2>1, <2>4
    <3>2. c[m + 1] = c[m]
      BY <1>3, <2>1, <2>4
    <3> HIDE DEF D
    <3> QED BY <2>1, <3>1, <3>2
  <2> QED BY <2>3, <2>4
<1>6. S = Nat
  <2>1. S \in SUBSET Nat /\ Inductive(S)
    BY <1>4, <1>5 DEF Inductive
  <2> HIDE DEF S
  <2> QED BY <2>1, Induction
<1>7. ASSUME NEW m \in 0..Len(s) PROVE c[m] = a + Cardinality(D(m))
  <2>1. m \in Nat /\ m <= Len(s)
    BY <1>2
  <2>2. m \in S
    BY <1>6, <2>1, Zenon
  <2> QED BY <2>1, <2>2
<1>8. \A i : D(i) = {j \in 1..i : s[j].of = "data"}
  BY DEF IsData
<1> HIDE DEF D, S
<1>9. ASSUME NEW i \in 1..Len(s), s[i].of = "data" PROVE s[i].k = a + Cardinality(D(i))
  <2>1. i \in 0..Len(s)
    BY <1>2
  <2> QED BY <1>3, <1>7, <1>9, <2>1 DEF IsData
<1>10. b = a + Cardinality(D(Len(s)))
  <2>1. Len(s) \in 0..Len(s)
    BY <1>2
  <2> QED BY <1>3, <1>7, <2>1
<1> QED BY <1>8, <1>9, <1>10

-----------------------------------------------------------------------------
(* What the client has written, and what it may write: the tag once, and   *)
(* no packet before it.                                                    *)
Marks == {"greeting0", "greeting2", "auth", "request", "hello", "ccs", "tag", "packet"}

Has(s, m) == \E i \in 1..Len(s) : s[i] = m

TagRule(s) ==
  /\ \A i, j \in 1..Len(s) : s[i] = "tag" /\ s[j] = "tag" => i = j
  /\ \A i \in 1..Len(s) : s[i] = "packet" => \E j \in 1..(i - 1) : s[j] = "tag"

LEMMA ConcatAppend ==
  ASSUME NEW T, NEW s \in Seq(T), NEW x \in T, NEW y \in T
  PROVE  s \o <<x>> = Append(s, x) /\ s \o <<x, y>> = Append(Append(s, x), y)
<1>1. <<x>> \in Seq(T) /\ Len(<<x>>) = 1 /\ <<x>>[1] = x
  OBVIOUS
<1>2. <<x, y>> \in Seq(T) /\ Len(<<x, y>>) = 2 /\ <<x, y>>[1] = x /\ <<x, y>>[2] = y
  OBVIOUS
<1> DEFINE a == Append(s, x)
           b == Append(a, y)
           c == s \o <<x>>
           d == s \o <<x, y>>
<1>3. a \in Seq(T) /\ Len(a) = Len(s) + 1 /\ (\A i \in 1..Len(s) : a[i] = s[i]) /\ a[Len(s) + 1] = x
  BY AppendProperties
<1>4. Len(s) \in Nat
  BY LenProperties
<1>5. c \in Seq(T) /\ Len(c) = Len(s) + 1 /\ \A i \in 1..(Len(s) + 1) : c[i] = IF i <= Len(s) THEN s[i] ELSE <<x>>[i - Len(s)]
  BY <1>1, ConcatProperties
<1>6. d \in Seq(T) /\ Len(d) = Len(s) + 2 /\ \A i \in 1..(Len(s) + 2) : d[i] = IF i <= Len(s) THEN s[i] ELSE <<x, y>>[i - Len(s)]
  BY <1>2, ConcatProperties
<1> HIDE DEF a
<1>7. b \in Seq(T) /\ Len(b) = Len(a) + 1 /\ (\A i \in 1..Len(a) : b[i] = a[i]) /\ b[Len(a) + 1] = y
  BY <1>3, AppendProperties
<1> HIDE DEF b, c, d
<1>8. c = a
  <2>1. ASSUME NEW i \in 1..(Len(s) + 1) PROVE c[i] = a[i]
    <3>1. CASE i <= Len(s)
      BY <1>3, <1>4, <1>5, <3>1
    <3>2. CASE ~(i <= Len(s))
      <4>1. i = Len(s) + 1 /\ i - Len(s) = 1
        BY <1>4, <3>2
      <4> QED BY <1>1, <1>3, <1>5, <3>2, <4>1
    <3> QED BY <3>1, <3>2
  <2> QED BY <1>3, <1>5, <2>1, SeqEqual
<1>9. d = b
  <2>1. ASSUME NEW i \in 1..(Len(s) + 2) PROVE d[i] = b[i]
    <3>1. CASE i <= Len(s)
      <4>1. i \in 1..Len(s) /\ i \in 1..Len(a)
        BY <1>3, <1>4, <3>1
      <4> QED BY <1>3, <1>6, <1>7, <3>1, <4>1
    <3>2. CASE i = Len(s) + 1
      <4>1. i \in 1..Len(a) /\ i - Len(s) = 1 /\ ~(i <= Len(s))
        BY <1>3, <1>4, <3>2
      <4> QED BY <1>2, <1>3, <1>6, <1>7, <3>2, <4>1
    <3>3. CASE i = Len(s) + 2
      <4>1. i = Len(a) + 1 /\ i - Len(s) = 2 /\ ~(i <= Len(s))
        BY <1>3, <1>4, <3>3
      <4> QED BY <1>2, <1>6, <1>7, <4>1
    <3> QED BY <1>4, <3>1, <3>2, <3>3
  <2>2. Len(d) = Len(b)
    BY <1>3, <1>4, <1>6, <1>7
  <2> QED BY <1>6, <1>7, <2>1, <2>2, SeqEqual
<1> QED BY <1>8, <1>9 DEF a, b, c, d

LEMMA HasAppend ==
  ASSUME NEW s \in Seq(Marks), NEW x \in Marks
  PROVE  Append(s, x) \in Seq(Marks) /\ \A m : Has(Append(s, x), m) <=> Has(s, m) \/ x = m
<1> DEFINE a == Append(s, x)
<1>1. a \in Seq(Marks) /\ Len(a) = Len(s) + 1 /\ (\A i \in 1..Len(s) : a[i] = s[i]) /\ a[Len(s) + 1] = x /\ Len(s) \in Nat
  BY AppendProperties, LenProperties
<1> HIDE DEF a
<1>2. ASSUME NEW m, Has(s, m) \/ x = m PROVE Has(a, m)
  <2>1. CASE x = m
    BY <1>1, <2>1 DEF Has
  <2>2. CASE Has(s, m)
    <3>1. PICK i \in 1..Len(s) : s[i] = m
      BY <2>2 DEF Has
    <3>2. i \in 1..Len(a) /\ a[i] = m
      BY <1>1, <3>1
    <3> QED BY <3>2 DEF Has
  <2> QED BY <1>2, <2>1, <2>2
<1>3. ASSUME NEW m, Has(a, m) PROVE Has(s, m) \/ x = m
  <2>1. PICK i \in 1..Len(a) : a[i] = m
    BY <1>3 DEF Has
  <2>2. i \in 1..Len(s) \/ i = Len(s) + 1
    BY <1>1
  <2> QED BY <1>1, <2>1, <2>2 DEF Has
<1> QED BY <1>1, <1>2, <1>3 DEF a

LEMMA FirstTag ==
  ASSUME NEW s \in Seq(Marks), ~Has(s, "tag"), ~Has(s, "packet")
  PROVE  TagRule(s) /\ TagRule(Append(s, "tag"))
<1> DEFINE a == Append(s, "tag")
<1>1. Len(a) = Len(s) + 1 /\ (\A i \in 1..Len(s) : a[i] = s[i]) /\ a[Len(s) + 1] = "tag" /\ Len(s) \in Nat
  BY AppendProperties, LenProperties DEF Marks
<1>2. \A i \in 1..Len(s) : s[i] # "tag" /\ s[i] # "packet"
  BY DEF Has
<1>3. TagRule(s)
  BY <1>2 DEF TagRule
<1> HIDE DEF a
<1>4. \A i \in 1..Len(a) : IF i = Len(s) + 1 THEN a[i] = "tag" ELSE a[i] # "tag" /\ a[i] # "packet"
  BY <1>1, <1>2
<1>5. TagRule(a)
  BY <1>4 DEF TagRule
<1> QED BY <1>3, <1>5 DEF a

LEMMA NextPacket ==
  ASSUME NEW s \in Seq(Marks), TagRule(s), Has(s, "tag")
  PROVE  TagRule(Append(s, "packet"))
<1> DEFINE a == Append(s, "packet")
<1>1. Len(a) = Len(s) + 1 /\ (\A i \in 1..Len(s) : a[i] = s[i]) /\ a[Len(s) + 1] = "packet" /\ Len(s) \in Nat
  BY AppendProperties, LenProperties DEF Marks
<1> HIDE DEF a
<1>2. ASSUME NEW i \in 1..Len(a), NEW j \in 1..Len(a), a[i] = "tag", a[j] = "tag" PROVE i = j
  <2>1. i \in 1..Len(s) /\ j \in 1..Len(s)
    BY <1>1, <1>2
  <2> QED BY <1>1, <1>2, <2>1 DEF TagRule
<1>3. ASSUME NEW i \in 1..Len(a), a[i] = "packet" PROVE \E j \in 1..(i - 1) : a[j] = "tag"
  <2>1. CASE i = Len(s) + 1
    <3>1. PICK j \in 1..Len(s) : s[j] = "tag"
      BY DEF Has
    <3>2. j \in 1..(i - 1) /\ a[j] = "tag"
      BY <1>1, <2>1, <3>1
    <3> QED BY <3>2
  <2>2. CASE i # Len(s) + 1
    <3>1. i \in 1..Len(s) /\ s[i] = "packet"
      BY <1>1, <1>3, <2>2
    <3>2. PICK j \in 1..(i - 1) : s[j] = "tag"
      BY <3>1 DEF TagRule
    <3>3. j \in 1..Len(s)
      BY <1>1, <3>1
    <3> QED BY <1>1, <3>2, <3>3
  <2> QED BY <2>1, <2>2
<1>4. TagRule(a)
  BY <1>2, <1>3 DEF TagRule
<1> QED BY <1>4 DEF a

-----------------------------------------------------------------------------
(* Setting up.  The steps each kind of connection goes through.            *)
Typed ==
  /\ kind \in Kinds /\ tr \in Transports /\ admits \in BOOLEAN
  /\ stage \in {"none", "handshake", "protocol"} /\ (stage # "none" => pc = "failed")
  /\ pc \in (CASE kind = "socks" -> {"greet", "method", "auth", "request", "reply", "up", "failed"}
               [] kind = "tls" -> {"hail", "hello", "header", "up", "failed"}
               [] OTHER -> {"header", "up", "failed"})
  /\ up \in Seq(Marks) /\ packets \in Seq(Bodies[tr])

(* What has been written is what the step allows, and the far side has let  *)
(* the client in before it is asked for anything.                          *)
Script ==
  /\ TagRule(up)
  /\ Has(up, "tag") \/ Has(up, "packet") => pc = "up"
  /\ pc = "up" /\ kind # "socks" => Has(up, "tag")
  /\ pc \in {"greet", "method", "auth", "hail", "hello"} \/ stage = "handshake" => ~Has(up, "request")
  /\ pc \in {"request", "reply", "header", "up"} \/ stage = "protocol" => admits
  /\ kind = "obf" => admits

(* What the far side has answered to it, and nothing else, is on the wire.  *)
Answered ==
  /\ pc \in {"greet", "request", "hail", "header"} => wire = <<>>
  /\ pc \in {"method", "auth"} =>
       wire = <<>> \/ \E v \in Nat : wire = <<[of |-> pc, val |-> v]>> /\ admits = (v = 0)
  /\ pc = "reply" =>
       wire = <<>> \/ \E v \in Nat, n \in Nat, type \in {"v4", "v6", "name", "other"} :
                        wire = <<[of |-> "reply", val |-> v, type |-> type]>> \o BoundTo(type, n)
  /\ pc = "hello" =>
       wire = <<>> \/ \E shape \in Hellos :
                        wire = [i \in 1..Len(shape) |-> [of |-> "record", val |-> shape[i],
                                                         signed |-> IF admits THEN Len(shape) ELSE 0]]

(* Nothing of the stream exists before the connection is up, and records    *)
(* only under FakeTLS.                                                      *)
Fresh ==
  /\ packets = <<>> /\ pending = <<>> /\ rec = NoRecord /\ buf = <<>> /\ dec = 0
  /\ phase = "idle" /\ head = <<>> /\ size = 0 /\ have = <<>> /\ delivered = <<>> /\ torn = FALSE

Quiet ==
  /\ pc # "up" => Fresh
  /\ kind # "tls" => pending = <<>> /\ buf = <<>> /\ rec = NoRecord

(* How far the negotiation has come: what a step of socks5.go or            *)
(* faketls.go finds written and answered, whatever the far side answers     *)
(* and wherever it fails.                                                   *)
Negotiated == Typed /\ Script /\ Answered /\ Quiet

LEMMA WroteHas == ASSUME up \in Seq(Marks) PROVE \A m : Wrote(m) <=> Has(up, m)
<1>1. DOMAIN up = 1..Len(up)
  BY LenProperties
<1> QED BY <1>1 DEF Wrote, Has

LEMMA NegotiatedInit == Init => Negotiated
<1> SUFFICES ASSUME Init PROVE Negotiated
  OBVIOUS
<1>1. /\ \E r \in Routes : kind = r[1] /\ tr = r[2]
      /\ admits \in (CASE kind = "socks" -> {FALSE} [] kind = "tls" -> BOOLEAN [] OTHER -> {TRUE})
      /\ pc = (CASE kind = "socks" -> "greet" [] kind = "tls" -> "hail" [] OTHER -> "header")
      /\ stage = "none" /\ up = <<>> /\ wire = <<>> /\ Fresh
  BY DEF Init, Fresh
<1>2. kind \in Kinds /\ tr \in Transports
  BY <1>1, TunnelAssumption
<1>3. kind = "socks" \/ kind = "tls" \/ kind = "obf"
  BY <1>2 DEF Kinds
<1>4. Typed
  <2>1. up \in Seq(Marks) /\ packets \in Seq(Bodies[tr])
    BY <1>1 DEF Fresh
  <2>2. admits \in BOOLEAN /\ pc # "up"
    BY <1>1, <1>3
  <2>3. pc \in (CASE kind = "socks" -> {"greet", "method", "auth", "request", "reply", "up", "failed"}
                 [] kind = "tls" -> {"hail", "hello", "header", "up", "failed"}
                 [] OTHER -> {"header", "up", "failed"})
    BY <1>1, <1>3
  <2> QED BY <1>1, <1>2, <2>1, <2>2, <2>3 DEF Typed
<1>7. Script
  <2>1. \A m : ~Has(up, m)
    BY <1>1 DEF Has
  <2>2. TagRule(up)
    BY <1>1 DEF TagRule
  <2>3. pc # "up" /\ (pc \in {"request", "reply", "header", "up"} => admits) /\ (kind = "obf" => admits)
    BY <1>1, <1>3
  <2> QED BY <1>1, <2>1, <2>2, <2>3 DEF Script
<1>5. Answered
  BY <1>1, <1>2 DEF Answered, Kinds
<1>6. Quiet
  BY <1>1 DEF Quiet, Fresh
<1> QED BY <1>4, <1>5, <1>6, <1>7 DEF Negotiated

(* A step of the set-up that writes a mark, or nothing.                    *)
LEMMA ScriptWrites ==
  ASSUME Typed, Script, NEW m \in Marks, m \notin {"tag", "packet"}, up' = Append(up, m), pc # "up", pc' # "up",
         m = "request" => pc' \notin {"greet", "method", "auth", "hail", "hello"} /\ stage' # "handshake",
         m # "request" => ~Has(up, "request"),
         pc' \in {"request", "reply", "header", "up"} \/ stage' = "protocol" => admits',
         kind' = kind, kind = "obf" => admits'
  PROVE  Script' /\ up' \in Seq(Marks)
<1>1. up \in Seq(Marks) /\ ~Has(up, "tag") /\ ~Has(up, "packet")
  BY DEF Typed, Script
<1>2. up' \in Seq(Marks) /\ \A x : Has(up', x) <=> Has(up, x) \/ m = x
  BY <1>1, HasAppend
<1>3. ~Has(up', "tag") /\ ~Has(up', "packet")
  BY <1>1, <1>2
<1>4. TagRule(up')
  BY <1>2, <1>3, FirstTag
<1>5. (pc' \in {"greet", "method", "auth", "hail", "hello"} \/ stage' = "handshake") => ~Has(up', "request")
  BY <1>2
<1> QED BY <1>2, <1>3, <1>4, <1>5 DEF Script

LEMMA ScriptKeeps ==
  ASSUME Typed, Script, up' = up, pc # "up",
         pc' \in {"greet", "method", "auth", "hail", "hello"} \/ stage' = "handshake" => ~Has(up, "request"),
         pc' = "up" => kind = "socks",
         pc' \in {"request", "reply", "header", "up"} \/ stage' = "protocol" => admits',
         kind' = kind, kind = "obf" => admits'
  PROVE  Script'
<1>1. ~Has(up', "tag") /\ ~Has(up', "packet")
  BY DEF Script
<1> QED BY <1>1 DEF Script

LEMMA NegotiatedStill ==
  ASSUME Negotiated, UNCHANGED vars
  PROVE  Negotiated'
<1>1. Typed'
  BY DEF Negotiated, Typed, vars, route, setup, far, reader, decoder
<1>2. Script'
  BY DEF Negotiated, Script, vars, route, setup, far, reader, decoder
<1>3. Answered'
  BY DEF Negotiated, Answered, BoundTo, Bytes, vars, route, setup, far, reader, decoder
<1>4. Quiet'
  BY DEF Negotiated, Quiet, Fresh, vars, route, setup, far, reader, decoder
<1> QED BY <1>1, <1>2, <1>3, <1>4 DEF Negotiated

LEMMA NegotiatedGreet ==
  ASSUME Negotiated, Greet \/ Hail \/ WriteRequest
  PROVE  Negotiated'
<1> USE DEF Negotiated
<1>0. PICK m \in {"greeting0", "greeting2", "hello", "request"} :
        /\ up' = Append(up, m) /\ (m = "request" <=> pc = "request")
        /\ pc \in {"greet", "hail", "request"}
        /\ pc' = (IF pc = "greet" THEN "method" ELSE IF pc = "hail" THEN "hello" ELSE "reply")
        /\ stage' = stage /\ wire' = wire
        /\ UNCHANGED <<kind, tr, auth, admits, pending, packets, extras, rec, buf, dec, phase, head, size, have, delivered, torn>>
  BY DEF Greet, Hail, WriteRequest, Proceed, route, far, reader, decoder
<1>1. wire' = <<>>
  BY <1>0 DEF Answered
<1>2. Script' /\ up' \in Seq(Marks)
  <2>1. m \in Marks
    BY DEF Marks
  <2>2. m # "request" => ~Has(up, "request")
    BY <1>0 DEF Script
  <2>3. stage = "none"
    BY <1>0 DEF Typed
  <2>4. /\ pc' \in {"request", "reply", "header", "up"} \/ stage' = "protocol" => admits'
        /\ kind = "obf" => admits'
    BY <1>0, <2>3 DEF Script
  <2> QED BY <1>0, <2>1, <2>2, <2>3, <2>4, ScriptWrites
<1>3. Typed'
  BY <1>0, <1>2 DEF Typed
<1>4. Answered'
  BY <1>0, <1>1 DEF Answered
<1>5. Quiet'
  BY <1>0 DEF Quiet, Fresh
<1> QED BY <1>2, <1>3, <1>4, <1>5

LEMMA NegotiatedMethod ==
  ASSUME Negotiated, ReadMethod
  PROVE  Negotiated'
<1> USE DEF Negotiated
<1>0. /\ pc = "method" /\ wire # <<>> /\ wire' = Tail(wire)
      /\ UNCHANGED <<kind, tr, auth, admits, pending, packets, extras, rec, buf, dec, phase, head, size, have, delivered, torn>>
  BY DEF ReadMethod, SetupUnit, route, far, reader, decoder
<1>1. PICK v \in Nat : wire = <<[of |-> pc, val |-> v]>> /\ admits = (v = 0)
  BY <1>0 DEF Answered
<1>2. Head(wire).val = v /\ wire' = <<>>
  BY <1>0, <1>1
<1>3. \/ v = 0 /\ up' = up /\ pc' = "request" /\ stage' = stage
      \/ v # 0 /\ up' = Append(up, "auth") /\ pc' = "auth" /\ stage' = stage
      \/ v # 0 /\ up' = up /\ pc' = "failed" /\ stage' = "handshake"
  BY <1>2 DEF ReadMethod, Proceed, Fail
<1>4. ~Has(up, "request") /\ stage = "none" /\ kind = "socks"
  BY <1>0 DEF Script, Typed, Kinds
<1>5. Script' /\ up' \in Seq(Marks)
  <2>1. CASE up' = Append(up, "auth") /\ pc' = "auth" /\ stage' = stage
    BY <1>0, <1>4, <2>1, ScriptWrites DEF Marks
  <2>2. CASE up' = up /\ v = 0 /\ pc' = "request" /\ stage' = stage
    BY <1>0, <1>1, <1>4, <2>2, ScriptKeeps DEF Typed
  <2>3. CASE up' = up /\ pc' = "failed" /\ stage' = "handshake"
    BY <1>0, <1>4, <2>3, ScriptKeeps DEF Typed
  <2> QED BY <1>3, <2>1, <2>2, <2>3
<1>6. Typed'
  BY <1>0, <1>3, <1>4, <1>5 DEF Typed
<1>7. Answered'
  BY <1>2, <1>3 DEF Answered
<1>8. Quiet'
  BY <1>0, <1>3 DEF Quiet, Fresh
<1> QED BY <1>5, <1>6, <1>7, <1>8

LEMMA NegotiatedAuth ==
  ASSUME Negotiated, ReadAuth
  PROVE  Negotiated'
<1> USE DEF Negotiated
<1>0. /\ pc = "auth" /\ wire # <<>> /\ wire' = Tail(wire) /\ up' = up
      /\ UNCHANGED <<kind, tr, auth, admits, pending, packets, extras, rec, buf, dec, phase, head, size, have, delivered, torn>>
  BY DEF ReadAuth, SetupUnit, route, far, reader, decoder
<1>1. PICK v \in Nat : wire = <<[of |-> pc, val |-> v]>> /\ admits = (v = 0)
  BY <1>0 DEF Answered
<1>2. Head(wire).val = v /\ wire' = <<>>
  BY <1>0, <1>1
<1>3. \/ v = 0 /\ pc' = "request" /\ stage' = stage
      \/ v # 0 /\ pc' = "failed" /\ stage' = "handshake"
  BY <1>2 DEF ReadAuth, Proceed, Fail
<1>4. ~Has(up, "request") /\ stage = "none" /\ kind = "socks"
  BY <1>0 DEF Script, Typed, Kinds
<1>5. Script'
  BY <1>0, <1>1, <1>3, <1>4, ScriptKeeps
<1>6. Typed'
  BY <1>0, <1>3, <1>4 DEF Typed
<1>7. Answered'
  BY <1>2, <1>3 DEF Answered
<1>8. Quiet'
  BY <1>0, <1>3 DEF Quiet, Fresh
<1> QED BY <1>5, <1>6, <1>7, <1>8

Address == [of : {"address"}, val : Nat]

LEMMA BytesAre ==
  ASSUME NEW n \in Nat
  PROVE  Bytes(n) \in Seq(Address) /\ Len(Bytes(n)) = n
<1>1. Bytes(n) \in [1..n -> Address]
  BY DEF Bytes, Address
<1> HIDE DEF Address
<1> QED BY <1>1, FunSeq

LEMMA SeqWider == ASSUME NEW S, NEW T, S \subseteq T, NEW s \in Seq(S) PROVE s \in Seq(T)
<1>1. Len(s) \in Nat /\ s \in [1..Len(s) -> S]
  BY LenProperties
<1>2. s \in [1..Len(s) -> T]
  BY <1>1
<1> QED BY <1>1, <1>2, FunSeq

LEMMA ConcatLen ==
  ASSUME NEW T, NEW s \in Seq(T), NEW t \in Seq(T)
  PROVE  s \o t \in Seq(T) /\ Len(s \o t) = Len(s) + Len(t)
BY ConcatProperties

LEMMA SkipIs ==
  ASSUME NEW b
  PROVE  Skip("v4", b) = 6 /\ Skip("v6", b) = 18 /\ Skip("name", b) = 1 + b[1].val + 2
BY DEF Skip

(* The reply is as long as its type says.                                   *)
LEMMA SkipIsAll ==
  ASSUME NEW n \in Nat, NEW type \in {"v4", "v6", "name", "other"}
  PROVE  /\ BoundTo(type, n) \in Seq(Address)
         /\ type # "other" => Len(BoundTo(type, n)) = Skip(type, BoundTo(type, n))
<1>1. /\ Bytes(2) \in Seq(Address) /\ Len(Bytes(2)) = 2 /\ Bytes(4) \in Seq(Address) /\ Len(Bytes(4)) = 4
      /\ Bytes(16) \in Seq(Address) /\ Len(Bytes(16)) = 16 /\ Bytes(n) \in Seq(Address) /\ Len(Bytes(n)) = n
  BY BytesAre
<1>2. CASE type = "v4"
  <2>1. BoundTo(type, n) = Bytes(4) \o Bytes(2)
    BY <1>2 DEF BoundTo
  <2>2. BoundTo(type, n) \in Seq(Address) /\ Len(BoundTo(type, n)) = 6
    <3> DEFINE x == Bytes(4)
               y == Bytes(2)
    <3>1. x \in Seq(Address) /\ Len(x) = 4 /\ y \in Seq(Address) /\ Len(y) = 2 /\ BoundTo(type, n) = x \o y
      BY <1>1, <2>1
    <3> HIDE DEF x, y
    <3>2. x \o y \in Seq(Address) /\ Len(x \o y) = Len(x) + Len(y)
      BY <3>1, ConcatLen
    <3> QED BY <3>1, <3>2
  <2>3. Skip(type, BoundTo(type, n)) = 6
    BY <1>2, SkipIs
  <2> QED BY <2>2, <2>3
<1>3. CASE type = "v6"
  <2>1. BoundTo(type, n) = Bytes(16) \o Bytes(2)
    BY <1>3 DEF BoundTo
  <2>2. BoundTo(type, n) \in Seq(Address) /\ Len(BoundTo(type, n)) = 18
    <3> DEFINE x == Bytes(16)
               y == Bytes(2)
    <3>1. x \in Seq(Address) /\ Len(x) = 16 /\ y \in Seq(Address) /\ Len(y) = 2 /\ BoundTo(type, n) = x \o y
      BY <1>1, <2>1
    <3> HIDE DEF x, y
    <3>2. x \o y \in Seq(Address) /\ Len(x \o y) = Len(x) + Len(y)
      BY <3>1, ConcatLen
    <3> QED BY <3>1, <3>2
  <2>3. Skip(type, BoundTo(type, n)) = 18
    BY <1>3, SkipIs
  <2> QED BY <2>2, <2>3
<1>4. CASE type = "name"
  <2> DEFINE l == [of |-> "address", val |-> n]
             s == <<l>> \o Bytes(n)
             u == s \o Bytes(2)
  <2>1. BoundTo(type, n) = u
    BY <1>4 DEF BoundTo
  <2>2. l \in Address /\ l.val = n
    BY DEF Address
  <2> HIDE DEF l
  <2>3. s \in Seq(Address) /\ Len(s) = n + 1 /\ s[1] = l
    BY <1>1, <2>2, Cons
  <2> HIDE DEF s
  <2>4. u \in Seq(Address) /\ Len(u) = Len(s) + 2
    BY <1>1, <2>3, ConcatLen
  <2>5. u[1] = s[1]
    BY <1>1, <2>3, ConcatProperties
  <2> HIDE DEF u
  <2>6. Skip(type, u) = 1 + u[1].val + 2
    BY <1>4, SkipIs
  <2>7. u[1].val = n
    BY <2>2, <2>3, <2>5
  <2>8. Len(u) = Skip(type, u)
    BY <2>3, <2>4, <2>6, <2>7
  <2> QED BY <2>1, <2>4, <2>8
<1>5. CASE type = "other"
  <2>1. BoundTo(type, n) = <<>> \o Bytes(2)
    BY <1>5 DEF BoundTo
  <2> QED BY <1>1, <1>5, <2>1, ConcatEmptySeq
<1> QED BY <1>2, <1>3, <1>4, <1>5

LEMMA NegotiatedReply ==
  ASSUME Negotiated, ReadReply
  PROVE  Negotiated' /\ (pc' = "up" => wire' = <<>>)
<1> USE DEF Negotiated
<1>0. /\ pc = "reply" /\ wire # <<>> /\ up' = up
      /\ UNCHANGED <<kind, tr, auth, admits, pending, packets, extras, rec, buf, dec, phase, head, size, have, delivered, torn>>
  BY DEF ReadReply, SetupUnit, route, far, reader, decoder
<1>1. PICK v \in Nat, n \in Nat, type \in {"v4", "v6", "name", "other"} :
        wire = <<[of |-> "reply", val |-> v, type |-> type]>> \o BoundTo(type, n)
  BY <1>0 DEF Answered
<1>2. \/ pc' = "failed" /\ stage' = "protocol"
      \/ /\ type # "other" /\ pc' = "up" /\ stage' = stage
         /\ wire' = SubSeq(Tail(wire), Skip(type, Tail(wire)) + 1, Len(Tail(wire)))
  <2> DEFINE r == [of |-> "reply", val |-> v, type |-> type]
             b == BoundTo(type, n)
  <2>1. b \in Seq({r} \cup Address)
    <3>1. b \in Seq(Address)
      BY SkipIsAll
    <3> HIDE DEF r, b
    <3> QED BY <3>1, SeqWider
  <2>2. r.type = type /\ wire = <<r>> \o b
    BY <1>1
  <2> HIDE DEF r, b
  <2>3. Head(wire).type = type
    BY <2>1, <2>2, Cons
  <2> QED BY <2>3 DEF ReadReply, Proceed, Fail
<1>3. pc' = "up" => wire' = <<>>
  <2> SUFFICES ASSUME pc' = "up" PROVE wire' = <<>>
    OBVIOUS
  <2> DEFINE r == [of |-> "reply", val |-> v, type |-> type]
             b == BoundTo(type, n)
  <2>1. b \in Seq(Address) /\ Len(b) = Skip(type, b)
    BY <1>2, SkipIsAll
  <2>2. b \in Seq({r} \cup Address) /\ Len(b) \in Nat
    <3> HIDE DEF r, b
    <3> QED BY <2>1, LenProperties, SeqWider
  <2>3. Tail(<<r>> \o b) = b
    BY <2>2, Cons
  <2> HIDE DEF b, r
  <2>4. wire' = SubSeq(b, Len(b) + 1, Len(b))
    BY <1>1, <1>2, <2>1, <2>3 DEF b, r
  <2> QED BY <2>2, <2>4, SubSeqEmpty
<1>4. stage = "none" /\ kind = "socks" /\ admits
  BY <1>0 DEF Script, Typed, Kinds
<1>5. Script'
  BY <1>0, <1>2, <1>4, ScriptKeeps
<1>6. Typed'
  BY <1>0, <1>2, <1>4 DEF Typed
<1>7. Answered'
  BY <1>2 DEF Answered
<1>8. Quiet'
  BY <1>0, <1>2 DEF Quiet, Fresh
<1> QED BY <1>3, <1>5, <1>6, <1>7, <1>8

LEMMA NegotiatedHello ==
  ASSUME Negotiated, ReadHello
  PROVE  Negotiated'
<1> USE DEF Negotiated
<1>0. /\ pc = "hello" /\ up' = up
      /\ UNCHANGED <<kind, tr, auth, admits, pending, packets, extras, rec, buf, dec, phase, head, size, have, delivered, torn>>
  BY DEF ReadHello, route, far, reader, decoder
<1>1. PICK n \in DOMAIN wire :
        /\ wire' = SubSeq(wire, n + 1, Len(wire))
        /\ IF Verified(SubSeq(wire, 1, n)) THEN Proceed("header") ELSE Fail("handshake")
  BY DEF ReadHello
<1>2. PICK shape \in Hellos :
        wire = [i \in 1..Len(shape) |-> [of |-> "record", val |-> shape[i],
                                         signed |-> IF admits THEN Len(shape) ELSE 0]]
  BY <1>0, <1>1 DEF Answered
<1>3. Len(shape) \in Nat
  BY <1>2 DEF Hellos
<1>4. /\ DOMAIN wire = 1..Len(shape) /\ Len(wire) = Len(shape)
      /\ \A i \in 1..Len(shape) : wire[i].signed = IF admits THEN Len(shape) ELSE 0
  <2> DEFINE R == {wire[i] : i \in 1..Len(shape)}
  <2>1. wire \in [1..Len(shape) -> R]
    BY <1>2
  <2> HIDE DEF R
  <2>2. wire \in Seq(R) /\ Len(wire) = Len(shape)
    BY <1>3, <2>1, FunSeq
  <2> QED BY <1>2, <2>2
<1>5. ASSUME Verified(SubSeq(wire, 1, n)) PROVE admits /\ wire' = <<>>
  <2> DEFINE rs == SubSeq(wire, 1, n)
  <2>1. n \in 1..Len(shape)
    BY <1>4
  <2>2. Len(rs) = n /\ \A i \in 1..n : rs[i] = wire[i]
    <3> DEFINE R == {wire[i] : i \in 1..Len(shape)}
    <3>1. \A i \in 1..n : wire[i] \in R
      BY <1>3, <2>1
    <3> HIDE DEF R
    <3> QED BY <1>3, <2>1, <3>1, SubSeqProperties
  <2>3. Len(rs) >= 2 /\ \A i \in 1..Len(rs) : rs[i].signed = Len(rs)
    BY <1>5 DEF Verified
  <2> HIDE DEF rs
  <2>4. wire[1].signed = n /\ n >= 2
    BY <2>1, <2>2, <2>3
  <2>5. admits /\ n = Len(shape)
    BY <1>3, <1>4, <2>1, <2>4
  <2> QED BY <1>1, <1>3, <1>4, <2>5, SubSeqEmpty
<1>6. \/ pc' = "header" /\ stage' = stage /\ admits /\ wire' = <<>>
      \/ pc' = "failed" /\ stage' = "handshake"
  BY <1>1, <1>5 DEF Proceed, Fail
<1>7. ~Has(up, "request") /\ stage = "none" /\ kind = "tls"
  BY <1>0 DEF Script, Typed, Kinds
<1>8. Script'
  BY <1>0, <1>6, <1>7, ScriptKeeps
<1>9. Typed'
  BY <1>0, <1>6, <1>7 DEF Typed
<1>10. Answered'
  BY <1>6 DEF Answered
<1>11. Quiet'
  BY <1>0, <1>6 DEF Quiet, Fresh
<1> QED BY <1>8, <1>9, <1>10, <1>11

LEMMA NegotiatedFails ==
  ASSUME Negotiated, SetupFails
  PROVE  Negotiated'
<1> USE DEF Negotiated
<1>0. /\ pc \notin {"up", "failed"} /\ pc' = "failed"
      /\ stage' = (IF pc \in {"request", "reply", "header"} THEN "protocol" ELSE "handshake")
      /\ up' = up /\ UNCHANGED <<kind, tr, admits, wire, pending, packets, rec, buf, dec, phase, head, size, have, delivered, torn>>
  BY DEF SetupFails, Fail, route, far, reader, decoder
<1>1. Typed'
  BY <1>0 DEF Typed
<1>2. Script'
  <2>1. pc \notin {"request", "reply", "header"} => pc \in {"greet", "method", "auth", "hail", "hello"}
    BY <1>0 DEF Typed, Kinds
  <2>2. stage' = "handshake" => ~Has(up, "request")
    BY <1>0, <2>1 DEF Script
  <2>3. (pc' \in {"request", "reply", "header", "up"} \/ stage' = "protocol") => admits'
    BY <1>0 DEF Script
  <2>4. kind = "obf" => admits'
    BY <1>0 DEF Script
  <2> QED BY <1>0, <2>2, <2>3, <2>4, ScriptKeeps
<1>3. Answered'
  BY <1>0 DEF Answered
<1>4. Quiet'
  BY <1>0 DEF Quiet, Fresh
<1> QED BY <1>1, <1>2, <1>3, <1>4

LEMMA NegotiatedHeader ==
  ASSUME Negotiated, WriteHeader
  PROVE  Negotiated' /\ wire' = <<>>
<1> USE DEF Negotiated
<1>0. /\ pc = "header" /\ pc' = "up" /\ stage' = stage
      /\ up' = up \o (IF kind = "tls" THEN <<"ccs", "tag">> ELSE <<"tag">>)
      /\ UNCHANGED <<kind, tr, admits, wire, pending, packets, rec, buf, dec, phase, head, size, have, delivered, torn>>
  BY DEF WriteHeader, Proceed, route, far, reader, decoder
<1>1. up \in Seq(Marks) /\ ~Has(up, "tag") /\ ~Has(up, "packet") /\ admits /\ wire = <<>> /\ stage = "none"
  BY <1>0 DEF Typed, Script, Answered
<1>2. PICK s \in Seq(Marks) : ~Has(s, "tag") /\ ~Has(s, "packet") /\ up' = Append(s, "tag")
  <2>1. CASE kind # "tls"
    BY <1>0, <1>1, <2>1, ConcatAppend DEF Marks
  <2>2. CASE kind = "tls"
    <3>1. "ccs" \in Marks /\ "tag" \in Marks
      BY DEF Marks
    <3>2. up' = Append(Append(up, "ccs"), "tag")
      BY <1>0, <1>1, <2>2, <3>1, ConcatAppend
    <3>3. Append(up, "ccs") \in Seq(Marks) /\ ~Has(Append(up, "ccs"), "tag") /\ ~Has(Append(up, "ccs"), "packet")
      BY <1>1, <3>1, HasAppend
    <3> QED BY <3>2, <3>3
  <2> QED BY <2>1, <2>2
<1>3. TagRule(up') /\ up' \in Seq(Marks) /\ Has(up', "tag")
  <2>1. "tag" \in Marks
    BY DEF Marks
  <2> QED BY <1>2, <2>1, FirstTag, HasAppend
<1>4. Script'
  BY <1>0, <1>1, <1>3 DEF Script
<1>5. Typed'
  BY <1>0, <1>3 DEF Typed, Kinds
<1>6. Answered'
  BY <1>0 DEF Answered
<1>7. Quiet'
  BY <1>0 DEF Quiet
<1> QED BY <1>0, <1>1, <1>4, <1>5, <1>6, <1>7

LEMMA NegotiatedSend ==
  ASSUME Negotiated, Send
  PROVE  Negotiated'
<1> USE DEF Negotiated
<1>0. /\ pc = "up" /\ pc' = "up" /\ stage' = stage
      /\ up' = up \o (IF kind = "socks" /\ ~Wrote("tag") THEN <<"tag", "packet">> ELSE <<"packet">>)
      /\ UNCHANGED <<kind, tr, admits, wire, pending, packets, rec, buf, dec, phase, head, size, have, delivered, torn>>
  BY DEF Send, setup, route, far, reader, decoder
<1>1. up \in Seq(Marks) /\ TagRule(up) /\ stage = "none" /\ admits
  BY <1>0 DEF Typed, Script
<1>2. "tag" \in Marks /\ "packet" \in Marks
  BY DEF Marks
<1>3. PICK s \in Seq(Marks) : TagRule(s) /\ Has(s, "tag") /\ up' = Append(s, "packet")
  <2>1. CASE Has(up, "tag")
    <3>1. Wrote("tag")
      BY <1>1, <2>1, WroteHas
    <3> QED BY <1>0, <1>1, <1>2, <2>1, <3>1, ConcatAppend
  <2>2. CASE ~Has(up, "tag")
    <3>1. ~Wrote("tag") /\ kind = "socks"
      BY <1>0, <1>1, <2>2, WroteHas DEF Script
    <3>2. ~Has(up, "packet")
      BY <1>1, <2>2 DEF TagRule, Has
    <3>3. up' = Append(Append(up, "tag"), "packet")
      BY <1>0, <1>1, <1>2, <3>1, ConcatAppend
    <3>4. Append(up, "tag") \in Seq(Marks) /\ Has(Append(up, "tag"), "tag") /\ TagRule(Append(up, "tag"))
      BY <1>1, <1>2, <2>2, <3>2, HasAppend, FirstTag
    <3> QED BY <3>3, <3>4
  <2> QED BY <2>1, <2>2
<1>4. TagRule(up') /\ up' \in Seq(Marks) /\ Has(up', "tag")
  BY <1>2, <1>3, NextPacket, HasAppend
<1>5. Script'
  BY <1>0, <1>1, <1>4 DEF Script
<1>6. Typed'
  BY <1>0, <1>4 DEF Typed
<1>7. Answered'
  BY <1>0 DEF Answered
<1>8. Quiet'
  BY <1>0 DEF Quiet
<1> QED BY <1>5, <1>6, <1>7, <1>8

(* The far side answers.                                                    *)
LEMMA NegotiatedAnswer ==
  ASSUME Negotiated,
         \/ \E m \in {0, 2, 255} : ServerMethod(m)
         \/ \E ok \in BOOLEAN : ServerAuth(ok)
         \/ \E code \in {0, 1}, type \in {"v4", "v6", "name", "other"}, n \in {0, 3} : ServerReply(code, type, n)
         \/ \E shape \in Hellos : ServerHello(shape)
  PROVE  Negotiated'
<1> USE DEF Negotiated
<1>0. /\ wire = <<>> /\ UNCHANGED <<kind, tr, pc, stage, up, pending, packets, rec, buf, dec, phase, head, size, have, delivered, torn>>
      /\ \/ /\ pc \in {"method", "auth"}
            /\ \E v \in Nat : wire' = <<>> \o <<[of |-> pc, val |-> v]>> /\ admits' = (v = 0)
         \/ /\ pc = "reply" /\ admits' = admits
            /\ \E v \in Nat, n \in Nat, type \in {"v4", "v6", "name", "other"} :
                 wire' = <<>> \o (<<[of |-> "reply", val |-> v, type |-> type]>> \o BoundTo(type, n))
         \/ /\ pc = "hello" /\ admits' = admits
            /\ \E shape \in Hellos :
                 wire' = <<>> \o [i \in 1..Len(shape) |-> [of |-> "record", val |-> shape[i],
                                                           signed |-> IF admits THEN Len(shape) ELSE 0]]
  <2>1. CASE \E m \in {0, 2, 255} : ServerMethod(m)
    BY <2>1 DEF ServerMethod, Put, route, setup, reader, decoder
  <2>2. CASE \E ok \in BOOLEAN : ServerAuth(ok)
    <3>1. PICK ok \in BOOLEAN : ServerAuth(ok)
      BY <2>2
    <3> DEFINE v == IF ok THEN 0 ELSE 1
    <3>2. v \in Nat /\ admits' = (v = 0) /\ pc = "auth" /\ wire' = wire \o <<[of |-> "auth", val |-> v]>> /\ wire = <<>>
      BY <3>1 DEF ServerAuth, Put
    <3> HIDE DEF v
    <3>3. UNCHANGED <<kind, tr, pc, stage, up, pending, packets, rec, buf, dec, phase, head, size, have, delivered, torn>>
      BY <3>1 DEF ServerAuth, Put, route, setup, reader, decoder
    <3> QED BY <3>2, <3>3
  <2>3. CASE \E code \in {0, 1}, type \in {"v4", "v6", "name", "other"}, n \in {0, 3} : ServerReply(code, type, n)
    <3>1. PICK code \in {0, 1}, type \in {"v4", "v6", "name", "other"}, n \in {0, 3} : ServerReply(code, type, n)
      BY <2>3
    <3>2. /\ pc = "reply" /\ wire = <<>> /\ admits' = admits /\ code \in Nat /\ n \in Nat
          /\ wire' = wire \o (<<[of |-> "reply", val |-> code, type |-> type]>> \o BoundTo(type, n))
      BY <3>1 DEF ServerReply, Put
    <3>3. UNCHANGED <<kind, tr, pc, stage, up, pending, packets, rec, buf, dec, phase, head, size, have, delivered, torn>>
      BY <3>1 DEF ServerReply, Put, route, setup, reader, decoder
    <3>4. \E v \in Nat, j \in Nat, y \in {"v4", "v6", "name", "other"} :
            wire' = <<>> \o (<<[of |-> "reply", val |-> v, type |-> y]>> \o BoundTo(y, j))
      BY <3>2
    <3> QED BY <3>2, <3>3, <3>4
  <2>4. CASE \E shape \in Hellos : ServerHello(shape)
    BY <2>4 DEF ServerHello, Put, route, setup, reader, decoder
  <2> QED BY <2>1, <2>2, <2>3, <2>4
<1>1. pc \in {"method", "auth", "reply", "hello"} /\ kind # "obf" /\ stage = "none"
  BY <1>0 DEF Typed, Kinds
<1>2. Typed'
  BY <1>0 DEF Typed
<1>3. Script'
  <2>1. ~Has(up, "tag") /\ ~Has(up, "packet")
    BY <1>1 DEF Script
  <2>2. pc \in {"reply"} => admits' = admits
    BY <1>0
  <2> QED BY <1>0, <1>1, <2>1, <2>2 DEF Script
<1>4. Answered'
  <2>1. CASE pc \in {"method", "auth"}
    <3>1. PICK v \in Nat : wire' = <<>> \o <<[of |-> pc, val |-> v]>> /\ admits' = (v = 0)
      BY <1>0, <2>1
    <3>2. wire' = <<[of |-> pc, val |-> v]>>
      BY <3>1
    <3> QED BY <1>0, <2>1, <3>1, <3>2 DEF Answered
  <2>2. CASE pc = "reply"
    <3>1. PICK v \in Nat, n \in Nat, type \in {"v4", "v6", "name", "other"} :
                 wire' = <<>> \o (<<[of |-> "reply", val |-> v, type |-> type]>> \o BoundTo(type, n))
      BY <1>0, <2>2
    <3> DEFINE r == [of |-> "reply", val |-> v, type |-> type]
               b == BoundTo(type, n)
    <3>2. b \in Seq(Address)
      BY SkipIsAll
    <3>3. wire' = <<>> \o (<<r>> \o b)
      BY <3>1
    <3> HIDE DEF r, b
    <3>4. b \in Seq({r} \cup Address)
      BY <3>2, SeqWider
    <3>5. <<r>> \o b \in Seq({r} \cup Address)
      BY <3>4, Cons
    <3>6. wire' = <<r>> \o b
      BY <3>3, <3>5, ConcatEmptySeq
    <3>7. wire' = <<[of |-> "reply", val |-> v, type |-> type]>> \o BoundTo(type, n)
      BY <3>6 DEF r, b
    <3>8. BoundTo(type, n)' = BoundTo(type, n)
      BY DEF BoundTo, Bytes
    <3> QED BY <1>0, <2>2, <3>7, <3>8 DEF Answered
  <2>3. CASE pc = "hello"
    <3>1. PICK shape \in Hellos :
                 wire' = <<>> \o [i \in 1..Len(shape) |-> [of |-> "record", val |-> shape[i],
                                                           signed |-> IF admits THEN Len(shape) ELSE 0]]
      BY <1>0, <2>3
    <3> DEFINE r == [i \in 1..Len(shape) |-> [of |-> "record", val |-> shape[i],
                                              signed |-> IF admits THEN Len(shape) ELSE 0]]
               R == {r[i] : i \in 1..Len(shape)}
    <3>2. Len(shape) \in Nat
      BY DEF Hellos
    <3>3. r \in [1..Len(shape) -> R] /\ wire' = <<>> \o r
      BY <3>1
    <3>4. r = [i \in 1..Len(shape) |-> [of |-> "record", val |-> shape[i],
                                        signed |-> IF admits' THEN Len(shape) ELSE 0]]
      BY <1>0, <2>3
    <3> HIDE DEF r, R
    <3>5. r \in Seq(R)
      BY <3>2, <3>3, FunSeq
    <3>6. wire' = r
      BY <3>3, <3>5, ConcatEmptySeq
    <3> QED BY <1>0, <2>3, <3>4, <3>6 DEF Answered
  <2> QED BY <1>1, <2>1, <2>2, <2>3
<1>5. Quiet'
  BY <1>0 DEF Quiet, Fresh
<1> QED BY <1>2, <1>3, <1>4, <1>5

(* Packets, records and reads leave the set-up alone.                      *)
LEMMA NegotiatedStream ==
  ASSUME Negotiated, pc = "up", UNCHANGED <<route, admits, setup, up>>, packets' \in Seq(Bodies[tr]),
         kind # "tls" => pending' = pending /\ buf' = buf /\ rec' = rec
  PROVE  Negotiated'
<1> USE DEF Negotiated
<1>1. UNCHANGED <<kind, tr, admits, pc, stage, up>>
  BY DEF route, setup
<1>2. Typed'
  BY <1>1 DEF Typed
<1>3. Script'
  BY <1>1 DEF Script
<1>4. Answered'
  BY <1>1 DEF Answered
<1>5. Quiet'
  BY <1>1 DEF Quiet
<1> QED BY <1>2, <1>3, <1>4, <1>5

LEMMA NegotiatedSends ==
  ASSUME Negotiated, NEW len \in Bodies[tr], ServerSends(len)
  PROVE  Negotiated' /\ pc = "up" /\ UNCHANGED <<route, admits, setup, up>>
<1>1. pc = "up"
  <2>1. Wrote("packet") /\ up \in Seq(Marks)
    BY DEF ServerSends, Negotiated, Typed
  <2>2. Has(up, "packet")
    BY <2>1, WroteHas
  <2> QED BY <2>2 DEF Negotiated, Script
<1>2. packets' \in Seq(Bodies[tr])
  BY AppendProperties DEF ServerSends, Negotiated, Typed
<1>3. UNCHANGED <<route, admits, setup, up, reader>> /\ (kind # "tls" => pending' = pending)
  BY DEF ServerSends
<1> QED BY <1>1, <1>2, <1>3, NegotiatedStream DEF reader

LEMMA NegotiatedCuts ==
  ASSUME Negotiated, (\E n \in Cuts : ServerCuts(n)) \/ (\E type \in {"app", "ccs", "alert"} : ServerFills(type))
  PROVE  Negotiated' /\ pc = "up" /\ kind = "tls" /\ UNCHANGED <<route, admits, setup, up, packets, reader>>
<1>1. UNCHANGED <<route, admits, setup, up, packets, reader>> /\ pc = "up" /\ kind = "tls"
  <2>1. CASE \E n \in Cuts : ServerCuts(n)
    BY <2>1 DEF ServerCuts, Put, Negotiated, Quiet, Fresh
  <2>2. CASE \E type \in {"app", "ccs", "alert"} : ServerFills(type)
    BY <2>2 DEF ServerFills, Put
  <2> QED BY <2>1, <2>2
<1>2. packets' \in Seq(Bodies[tr])
  BY <1>1 DEF Negotiated, Typed
<1> QED BY <1>1, <1>2, NegotiatedStream

LEMMA NegotiatedReads ==
  ASSUME Negotiated, Recv \/ Take \/ ReadRecord \/ TimeOut
  PROVE  Negotiated' /\ pc = "up" /\ UNCHANGED <<route, admits, setup, up, packets, pending>>
<1>1. /\ pc = "up" /\ UNCHANGED <<route, admits, setup, up, packets, pending>>
      /\ kind # "tls" => buf' = buf /\ (rec' = rec \/ rec' = NoRecord)
  <2>1. CASE Recv
    BY <2>1 DEF Recv, far
  <2>2. CASE Take
    BY <2>2 DEF Take, Reading
  <2>3. CASE ReadRecord
    BY <2>3 DEF ReadRecord, Reading
  <2>4. CASE TimeOut
    BY <2>4 DEF TimeOut, Reading, Abandon, far
  <2> QED BY <2>1, <2>2, <2>3, <2>4
<1>2. packets' \in Seq(Bodies[tr]) /\ (kind # "tls" => rec = NoRecord)
  BY <1>1 DEF Negotiated, Typed, Quiet
<1> QED BY <1>1, <1>2, NegotiatedStream

LEMMA NegotiatedNext == Negotiated /\ [Next]_vars => Negotiated'
<1> SUFFICES ASSUME Negotiated, [Next]_vars PROVE Negotiated'
  OBVIOUS
<1>1. CASE SetUp
  BY <1>1, NegotiatedGreet, NegotiatedMethod, NegotiatedAuth, NegotiatedReply, NegotiatedHello, NegotiatedFails,
     NegotiatedHeader DEF SetUp
<1>2. CASE FarSide
  BY <1>2, NegotiatedAnswer, NegotiatedSends, NegotiatedCuts DEF FarSide
<1>3. CASE Send
  BY <1>3, NegotiatedSend
<1>4. CASE Recv \/ ReadByte \/ TimeOut
  BY <1>4, NegotiatedReads DEF ReadByte
<1>5. CASE UNCHANGED vars
  BY <1>5, NegotiatedStill
<1>6. Ended => UNCHANGED vars
  BY DEF Ended
<1> QED BY <1>1, <1>2, <1>3, <1>4, <1>5, <1>6 DEF Next

(* Every step of the set-up finds what the code expects there: the answers  *)
(* to what it has asked and nothing else, so that nothing is left in front  *)
(* of the stream when it begins (socks5Connect, readServerHello,            *)
(* verifyServerHello, newObfConn).                                          *)
THEOREM SetUpNegotiates == Spec => []Negotiated
<1>1. Init => Negotiated
  BY NegotiatedInit
<1>2. Negotiated /\ [Next]_vars => Negotiated'
  BY NegotiatedNext
<1> QED BY <1>1, <1>2, PTL DEF Spec

(* The tag goes out once and before the first packet, and only to a far     *)
(* side that has let the client in, whatever that side answers and          *)
(* whichever step fails (newObfConn writes it in its header, sendRaw        *)
(* before the first packet if tagFirst is still there).                     *)
THEOREM TagGoesOutOnce == Spec => []TagOnce
<1>1. Negotiated => TagOnce
  <2> SUFFICES ASSUME Negotiated PROVE TagOnce
    OBVIOUS
  <2>1. up \in Seq(Marks) /\ TagRule(up) /\ (Has(up, "tag") => admits)
    BY DEF Negotiated, Typed, Script
  <2>2. DOMAIN up = 1..Len(up) /\ (Wrote("tag") => Has(up, "tag"))
    BY <2>1, LenProperties, WroteHas
  <2> QED BY <2>1, <2>2 DEF TagOnce, TagRule
<1> QED BY <1>1, SetUpNegotiates, PTL

(* A failure is put down to the right side: one of the handshake stage      *)
(* means that the proxy was not yet asked for Telegram, one of the          *)
(* protocol stage that it had let the client in, by the credentials or by   *)
(* proving to know the secret (StageHandshake and StageProtocol in          *)
(* socks5.go and probe.go: the one ends the probe, the other goes on with   *)
(* the next datacentre).                                                    *)
THEOREM BlameIsOnTheRightSide == Spec => []BlameIsRight
<1>1. Negotiated => BlameIsRight
  <2> SUFFICES ASSUME Negotiated PROVE BlameIsRight
    OBVIOUS
  <2>1. /\ up \in Seq(Marks) /\ (Has(up, "tag") => pc = "up") /\ (stage # "none" => pc = "failed")
        /\ stage = "handshake" => ~Has(up, "request")
        /\ stage = "protocol" => admits
    BY DEF Negotiated, Typed, Script
  <2>2. (Wrote("request") => Has(up, "request")) /\ (Wrote("tag") => Has(up, "tag"))
    BY <2>1, WroteHas
  <2> QED BY <2>1, <2>2 DEF BlameIsRight
<1> QED BY <1>1, SetUpNegotiates, PTL

-----------------------------------------------------------------------------
(* The stream.  A unit that was sent says which part of which packet it is, *)
(* and where in the stream.                                                *)
Genuine(u) ==
  /\ u.pkt \in 1..Len(packets)
  /\ u.part \in 1..Units(tr, packets[u.pkt])
  /\ u.k = SumTo(tr, packets, u.pkt - 1) + u.part
  /\ u.part <= HeadLen(tr, packets[u.pkt]) => u.val = Encode(tr, packets[u.pkt])[u.part]

Sent == {u \in DataUnit : Genuine(u)}
OnWire == Sent \cup FrameUnit

(* n units of a record of this type from w[from] on, and then a new record. *)
Payload(w, from, n, type) ==
  /\ from + n <= Len(w) + 1
  /\ \A i \in from..(from + n - 1) : w[i].of = IF type = "app" THEN "data" ELSE "pad"
  /\ from + n <= Len(w) => w[from + n].of = "type"

Cut(w) ==
  \A i \in 1..Len(w) :
    w[i].of = "type" => /\ i < Len(w) /\ w[i + 1].of = "len"
                        /\ Payload(w, i + 2, w[i + 1].val, w[i].val)

Reads == [at : {"type", "len", "body"}, type : RecordTypes \cup {"none"}, left : Nat, got : Seq(OnWire)]

(* Where the reader is in the records, the wire goes on.                   *)
Expected(r, w) ==
  /\ r.at = "type" => r = NoRecord /\ (w # <<>> => w[1].of = "type")
  /\ r.at = "len" => /\ r.type \in RecordTypes /\ r.got = <<>>
                     /\ w # <<>> /\ w[1].of = "len" /\ Payload(w, 2, w[1].val, r.type)
  /\ r.at = "body" => /\ r.type \in RecordTypes /\ r.left \in Nat \ {0}
                      /\ r.got \in Seq(IF r.type = "app" THEN Sent ELSE FrameUnit)
                      /\ Payload(w, 1, r.left, r.type)

(* Where the units are: on the plain wire or in records, read or to be      *)
(* read.                                                                    *)
Carried ==
  /\ have \in Seq(Sent) /\ buf \in Seq(Sent) /\ pending \in Seq(Sent)
  /\ wire \in Seq(IF kind = "tls" THEN OnWire ELSE Sent)
  /\ kind = "tls" => /\ rec \in Reads /\ Expected(rec, wire) /\ Cut(wire)
                     /\ buf # <<>> => rec = NoRecord

(* Where the client is: in step with the keystream, at a piece of the       *)
(* packet after the last one it handed out.                                 *)
Placed ==
  /\ delivered \in Seq(Nat)
  /\ Len(delivered) <= Len(packets)
  /\ kind # "socks" => dec = Decoded
  /\ phase \in {"idle", "first", "ext", "body"}
  /\ phase = "idle" => head = <<>> /\ have = <<>>
  /\ phase = "first" => head = <<>> /\ Len(have) < FirstRead(tr)
  /\ phase = "ext" => /\ tr = "abridged" /\ head = <<Long>> /\ Len(have) < ExtRead
                      /\ Len(delivered) < Len(packets) /\ HeadLen(tr, packets[Len(delivered) + 1]) = 4
  /\ phase = "body" => /\ head = <<>> /\ Len(have) < BodyUnits(size)
                       /\ Len(delivered) < Len(packets) /\ size = packets[Len(delivered) + 1]

(* What is on the way is the stream from there to its end, with no gap and  *)
(* nothing twice.                                                           *)
Numbered == Runs(Line, Decoded, Before(Len(packets)))

Matched == pc = "up" /\ ~torn => Carried /\ Placed /\ Numbered

LEMMA OnWireIs ==
  /\ Sent \subseteq Unit /\ FrameUnit \subseteq Unit /\ OnWire \subseteq Unit /\ Sent \subseteq OnWire
  /\ \A u \in Sent : IsData(u) /\ Genuine(u) /\ u \in DataUnit
  /\ \A u \in FrameUnit : ~IsData(u)
  /\ \A u \in OnWire : IF IsData(u) THEN u \in Sent ELSE u \in FrameUnit
BY DEF Sent, OnWire, Unit, DataUnit, FrameUnit, IsData

LEMMA SentIsSolid ==
  ASSUME NEW s \in Seq(Sent)
  PROVE  s \in Seq(Unit) /\ s \in Seq(OnWire) /\ Solid(s)
<1>1. s \in Seq(Unit) /\ s \in Seq(OnWire)
  BY OnWireIs, SeqWider
<1>2. \A i \in 1..Len(s) : s[i] \in Sent
  BY ElementOfSeq
<1> QED BY <1>1, <1>2, OnWireIs DEF Solid

LEMMA FrameIsHollow ==
  ASSUME NEW s \in Seq(FrameUnit)
  PROVE  s \in Seq(Unit) /\ s \in Seq(OnWire) /\ Hollow(s)
<1>1. FrameUnit \subseteq OnWire
  BY DEF OnWire
<1>2. s \in Seq(Unit) /\ s \in Seq(OnWire)
  BY <1>1, OnWireIs, SeqWider
<1>3. \A i \in 1..Len(s) : s[i] \in FrameUnit
  BY ElementOfSeq
<1> QED BY <1>2, <1>3, OnWireIs DEF Hollow

(* The five parts of what is on the way, one behind the other.             *)
Chain(h, f, g, w, p, a, b) ==
  \E m1, m2, m3, m4 \in Nat :
    Runs(h, a, m1) /\ Runs(f, m1, m2) /\ Runs(g, m2, m3) /\ Runs(w, m3, m4) /\ Runs(p, m4, b)

LEMMA ChainLine ==
  ASSUME NEW h \in Seq(Unit), NEW f \in Seq(Unit), NEW g \in Seq(Unit), NEW w \in Seq(Unit), NEW p \in Seq(Unit),
         NEW a \in Nat, NEW b \in Nat
  PROVE  /\ Runs(h \o f \o g \o w \o p, a, b) <=> Chain(h, f, g, w, p, a, b)
         /\ h \o f \o g \o w \o p \in Seq(Unit)
<1> DEFINE x == h \o f
           y == x \o g
           z == y \o w
<1>1. x \in Seq(Unit)
  BY ConcatLen
<1>2. y \in Seq(Unit)
  BY <1>1, ConcatLen
<1>3. z \in Seq(Unit)
  BY <1>2, ConcatLen
<1>4. z \o p \in Seq(Unit)
  BY <1>3, ConcatLen
<1>5. ASSUME Runs(z \o p, a, b) PROVE Chain(h, f, g, w, p, a, b)
  <2>1. PICK m4 \in Nat : Runs(z, a, m4) /\ Runs(p, m4, b)
    BY <1>3, <1>5, RunsSplit
  <2>2. PICK m3 \in Nat : Runs(y, a, m3) /\ Runs(w, m3, m4)
    BY <1>2, <2>1, RunsSplit
  <2>3. PICK m2 \in Nat : Runs(x, a, m2) /\ Runs(g, m2, m3)
    BY <1>1, <2>2, RunsSplit
  <2>4. PICK m1 \in Nat : Runs(h, a, m1) /\ Runs(f, m1, m2)
    BY <2>3, RunsSplit
  <2> QED BY <2>1, <2>2, <2>3, <2>4 DEF Chain
<1>6. ASSUME Chain(h, f, g, w, p, a, b) PROVE Runs(z \o p, a, b)
  <2>1. PICK m1 \in Nat, m2 \in Nat, m3 \in Nat, m4 \in Nat :
          Runs(h, a, m1) /\ Runs(f, m1, m2) /\ Runs(g, m2, m3) /\ Runs(w, m3, m4) /\ Runs(p, m4, b)
    BY <1>6 DEF Chain
  <2>2. Runs(x, a, m2)
    BY <2>1, RunsConcat
  <2>3. Runs(y, a, m3)
    BY <1>1, <2>1, <2>2, RunsConcat
  <2>4. Runs(z, a, m4)
    BY <1>2, <2>1, <2>3, RunsConcat
  <2> QED BY <1>3, <2>1, <2>4, RunsConcat
<1> QED BY <1>4, <1>5, <1>6

LEMMA RunsOne ==
  ASSUME NEW u \in Unit, NEW a \in Nat
  PROVE  <<u>> \in Seq(Unit) /\ (IsData(u) /\ u.k = a + 1 => Runs(<<u>>, a, a + 1)) /\ (~IsData(u) => Runs(<<u>>, a, a))
<1>1. <<u>> \in Seq(Unit) /\ Len(<<u>>) = 1 /\ <<u>>[1] = u
  BY One
<1>2. ASSUME IsData(u), u.k = a + 1 PROVE Runs(<<u>>, a, a + 1)
  <2>1. Solid(<<u>>) /\ \A i \in 1..Len(<<u>>) : <<u>>[i].k = a + i
    BY <1>1, <1>2 DEF Solid
  <2> DEFINE s == <<u>>
  <2>2. s \in Seq(Unit) /\ Solid(s) /\ a + 1 = a + Len(s) /\ a + 1 \in Nat /\ \A i \in 1..Len(s) : s[i].k = a + i
    BY <1>1, <2>1
  <2> HIDE DEF s
  <2>3. Runs(s, a, a + 1)
    BY <2>2, SolidRuns
  <2> QED BY <2>3 DEF s
<1>3. ASSUME ~IsData(u) PROVE Runs(<<u>>, a, a)
  <2>1. Hollow(<<u>>)
    BY <1>1, <1>3 DEF Hollow
  <2> QED BY <1>1, <2>1, HollowRuns
<1> QED BY <1>1, <1>2, <1>3

(* The first unit of one part goes to the end of the part before it.       *)
LEMMA RunsShift ==
  ASSUME NEW s \in Seq(Unit), NEW t \in Seq(Unit), t # <<>>, NEW a \in Nat, NEW m \in Nat, NEW b \in Nat,
         Runs(s, a, m), Runs(t, m, b)
  PROVE  /\ Append(s, Head(t)) \in Seq(Unit) /\ Tail(t) \in Seq(Unit)
         /\ \E n \in Nat : Runs(Append(s, Head(t)), a, n) /\ Runs(Tail(t), n, b)
         /\ ~IsData(Head(t)) => Runs(Tail(t), m, b)
<1>1. Head(t) \in Unit /\ Tail(t) \in Seq(Unit)
  BY Uncons
<1>2. Append(s, Head(t)) = s \o <<Head(t)>> /\ Append(s, Head(t)) \in Seq(Unit) /\ <<Head(t)>> \in Seq(Unit)
  BY <1>1, ConcatAppend, AppendProperties, One
<1>3. IF IsData(Head(t)) THEN Head(t).k = m + 1 /\ Runs(Tail(t), m + 1, b) ELSE Runs(Tail(t), m, b)
  BY RunsUncons
<1>4. PICK n \in Nat : Runs(<<Head(t)>>, m, n) /\ Runs(Tail(t), n, b)
  <2>1. CASE IsData(Head(t))
    BY <1>1, <1>3, <2>1, RunsOne
  <2>2. CASE ~IsData(Head(t))
    BY <1>1, <1>3, <2>2, RunsOne
  <2> QED BY <2>1, <2>2
<1>5. Runs(s \o <<Head(t)>>, a, n)
  BY <1>2, <1>4, RunsConcat
<1> QED BY <1>1, <1>2, <1>3, <1>4, <1>5

-----------------------------------------------------------------------------
(* Records on the wire.                                                    *)
LEMMA LengthSaid ==
  ASSUME NEW w \in Seq(OnWire), NEW i \in 1..Len(w), w[i].of = "len"
  PROVE  w[i].val \in Nat
<1>1. w[i] \in Unit
  BY OnWireIs, ElementOfSeq
<1> QED BY <1>1, UnitFacts

LEMMA PayloadTail ==
  ASSUME NEW w \in Seq(OnWire), w # <<>>, NEW from \in Nat, from >= 2, NEW n \in Nat, NEW type, Payload(w, from, n, type)
  PROVE  Payload(Tail(w), from - 1, n, type)
<1> DEFINE t == Tail(w)
           L == Len(w)
           ofs == IF type = "app" THEN "data" ELSE "pad"
<1>1. L \in Nat \ {0} /\ Len(t) = L - 1 /\ \A i \in 1..(L - 1) : t[i] = w[i + 1]
  BY Uncons
<1>2. /\ from + n <= L + 1
      /\ \A i \in from..(from + n - 1) : w[i].of = ofs
      /\ from + n <= L => w[from + n].of = "type"
  BY DEF Payload
<1> HIDE DEF t, L, ofs
<1>3. ASSUME NEW i \in (from - 1)..((from - 1) + n - 1) PROVE t[i].of = ofs
  <2>1. i \in 1..(L - 1) /\ i + 1 \in from..(from + n - 1)
    BY <1>1, <1>2
  <2> QED BY <1>1, <1>2, <2>1
<1>4. ASSUME (from - 1) + n <= Len(t) PROVE t[(from - 1) + n].of = "type"
  <2>1. (from - 1) + n \in 1..(L - 1) /\ ((from - 1) + n) + 1 = from + n
    BY <1>1, <1>2, <1>4
  <2> QED BY <1>1, <1>2, <1>4, <2>1
<1>5. (from - 1) + n <= Len(t) + 1
  BY <1>1, <1>2
<1> QED BY <1>3, <1>4, <1>5 DEF Payload, t, ofs

LEMMA CutTail ==
  ASSUME NEW w \in Seq(OnWire), w # <<>>, Cut(w)
  PROVE  Cut(Tail(w))
<1> DEFINE t == Tail(w)
           L == Len(w)
<1>1. L \in Nat \ {0} /\ Len(t) = L - 1 /\ \A i \in 1..(L - 1) : t[i] = w[i + 1]
  BY Uncons
<1> HIDE DEF L
<1>2. ASSUME NEW i \in 1..Len(t), t[i].of = "type"
      PROVE  i < Len(t) /\ t[i + 1].of = "len" /\ Payload(t, i + 2, t[i + 1].val, t[i].val)
  <2>1. i \in Nat /\ i + 1 \in 1..L /\ t[i] = w[i + 1]
    BY <1>1
  <2>2. i + 1 < L /\ w[(i + 1) + 1].of = "len" /\ Payload(w, (i + 1) + 2, w[(i + 1) + 1].val, w[i + 1].val)
    BY <1>2, <2>1 DEF Cut, L
  <2>3. i < Len(t) /\ t[i + 1] = w[(i + 1) + 1] /\ (i + 1) + 1 \in 1..L
    BY <1>1, <2>1, <2>2
  <2>4. w[(i + 1) + 1].val \in Nat
    BY <2>2, <2>3, LengthSaid DEF L
  <2>5. Payload(t, ((i + 1) + 2) - 1, w[(i + 1) + 1].val, w[i + 1].val)
    BY <2>1, <2>2, <2>4, PayloadTail
  <2>6. ((i + 1) + 2) - 1 = i + 2
    BY <2>1
  <2> QED BY <2>1, <2>2, <2>3, <2>5, <2>6
<1> QED BY <1>2 DEF Cut

(* Another record behind the last changes nothing for those before.        *)
LEMMA PayloadMore ==
  ASSUME NEW w \in Seq(OnWire), NEW r \in Seq(OnWire), r # <<>>, r[1].of = "type",
         NEW from \in Nat \ {0}, NEW n \in Nat, NEW type, Payload(w, from, n, type)
  PROVE  Payload(w \o r, from, n, type)
<1> DEFINE u == w \o r
           ofs == IF type = "app" THEN "data" ELSE "pad"
<1>1. Len(w) \in Nat /\ Len(r) \in Nat \ {0} /\ Len(u) = Len(w) + Len(r)
      /\ \A i \in 1..(Len(w) + Len(r)) : u[i] = IF i <= Len(w) THEN w[i] ELSE r[i - Len(w)]
  BY ConcatProperties, LenProperties, EmptySeq
<1>2. /\ from + n <= Len(w) + 1
      /\ \A i \in from..(from + n - 1) : w[i].of = ofs
      /\ from + n <= Len(w) => w[from + n].of = "type"
  BY DEF Payload
<1> HIDE DEF u, ofs
<1>3. ASSUME NEW i \in from..(from + n - 1) PROVE u[i].of = ofs
  <2>1. i \in 1..(Len(w) + Len(r)) /\ i <= Len(w)
    BY <1>1, <1>2
  <2> QED BY <1>1, <1>2, <2>1
<1>4. u[from + n].of = "type"
  <2>1. from + n \in 1..(Len(w) + Len(r))
    BY <1>1, <1>2
  <2>2. CASE from + n <= Len(w)
    BY <1>1, <1>2, <2>1, <2>2
  <2>3. CASE ~(from + n <= Len(w))
    <3>1. (from + n) - Len(w) = 1
      BY <1>1, <1>2, <2>3
    <3> QED BY <1>1, <2>1, <2>3, <3>1
  <2> QED BY <2>2, <2>3
<1>5. from + n <= Len(u) + 1
  BY <1>1, <1>2
<1> QED BY <1>3, <1>4, <1>5 DEF Payload, u, ofs

LEMMA PayloadBehind ==
  ASSUME NEW w \in Seq(OnWire), NEW r \in Seq(OnWire),
         NEW from \in Nat \ {0}, NEW n \in Nat, NEW type, Payload(r, from, n, type)
  PROVE  Payload(w \o r, Len(w) + from, n, type)
<1> DEFINE u == w \o r
           ofs == IF type = "app" THEN "data" ELSE "pad"
<1>1. Len(w) \in Nat /\ Len(r) \in Nat /\ Len(u) = Len(w) + Len(r)
      /\ \A i \in 1..(Len(w) + Len(r)) : u[i] = IF i <= Len(w) THEN w[i] ELSE r[i - Len(w)]
  BY ConcatProperties, LenProperties
<1>2. /\ from + n <= Len(r) + 1
      /\ \A i \in from..(from + n - 1) : r[i].of = ofs
      /\ from + n <= Len(r) => r[from + n].of = "type"
  BY DEF Payload
<1> HIDE DEF u, ofs
<1>3. \A i \in 1..Len(r) : u[Len(w) + i] = r[i]
  <2> SUFFICES ASSUME NEW i \in 1..Len(r) PROVE u[Len(w) + i] = r[i]
    OBVIOUS
  <2>1. Len(w) + i \in 1..(Len(w) + Len(r)) /\ ~(Len(w) + i <= Len(w)) /\ (Len(w) + i) - Len(w) = i
    BY <1>1
  <2> QED BY <1>1, <2>1
<1>4. ASSUME NEW i \in (Len(w) + from)..(Len(w) + from + n - 1) PROVE u[i].of = ofs
  <2>1. PICK j \in 1..Len(r) : i = Len(w) + j /\ j \in from..(from + n - 1)
    <3>1. i - Len(w) \in 1..Len(r) /\ i = Len(w) + (i - Len(w)) /\ i - Len(w) \in from..(from + n - 1)
      BY <1>1, <1>2
    <3> QED BY <3>1
  <2> QED BY <1>2, <1>3, <2>1
<1>5. ASSUME Len(w) + from + n <= Len(u) PROVE u[Len(w) + from + n].of = "type"
  <2>1. from + n \in 1..Len(r) /\ Len(w) + (from + n) = Len(w) + from + n
    BY <1>1, <1>5
  <2> QED BY <1>2, <1>3, <2>1
<1>6. Len(w) + from + n <= Len(u) + 1
  BY <1>1, <1>2
<1> QED BY <1>4, <1>5, <1>6 DEF Payload, u, ofs

LEMMA CutMore ==
  ASSUME NEW w \in Seq(OnWire), NEW r \in Seq(OnWire), r # <<>>, r[1].of = "type", Cut(w), Cut(r)
  PROVE  Cut(w \o r)
<1> DEFINE u == w \o r
<1>1. u \in Seq(OnWire) /\ Len(w) \in Nat /\ Len(r) \in Nat \ {0} /\ Len(u) = Len(w) + Len(r)
      /\ \A i \in 1..(Len(w) + Len(r)) : u[i] = IF i <= Len(w) THEN w[i] ELSE r[i - Len(w)]
  BY ConcatProperties, LenProperties, EmptySeq
<1> HIDE DEF u
<1>2. ASSUME NEW i \in 1..Len(u), u[i].of = "type"
      PROVE  i < Len(u) /\ u[i + 1].of = "len" /\ Payload(u, i + 2, u[i + 1].val, u[i].val)
  <2>1. CASE i <= Len(w)
    <3>1. i \in 1..Len(w) /\ u[i] = w[i]
      BY <1>1, <2>1
    <3>2. i < Len(w) /\ w[i + 1].of = "len" /\ Payload(w, i + 2, w[i + 1].val, w[i].val)
      BY <1>2, <3>1 DEF Cut
    <3>3. i < Len(u) /\ i + 1 \in 1..Len(w) /\ u[i + 1] = w[i + 1] /\ i + 2 \in Nat \ {0}
      BY <1>1, <3>1, <3>2
    <3>4. w[i + 1].val \in Nat
      BY <3>2, <3>3, LengthSaid
    <3>5. Payload(u, i + 2, w[i + 1].val, w[i].val)
      BY <3>2, <3>3, <3>4, PayloadMore DEF u
    <3> QED BY <3>1, <3>2, <3>3, <3>5
  <2>2. CASE ~(i <= Len(w))
    <3>1. PICK j \in 1..Len(r) : i = Len(w) + j
      <4>1. i - Len(w) \in 1..Len(r) /\ i = Len(w) + (i - Len(w))
        BY <1>1, <2>2
      <4> QED BY <4>1
    <3>2. u[i] = r[j]
      <4>1. i - Len(w) = j
        BY <1>1, <3>1
      <4> QED BY <1>1, <2>2, <4>1
    <3>3. j < Len(r) /\ r[j + 1].of = "len" /\ Payload(r, j + 2, r[j + 1].val, r[j].val)
      BY <1>2, <3>2 DEF Cut
    <3>4. i < Len(u) /\ j + 1 \in 1..Len(r) /\ u[i + 1] = r[j + 1] /\ j + 2 \in Nat \ {0} /\ Len(w) + (j + 2) = i + 2
      <4>1. i + 1 \in 1..(Len(w) + Len(r)) /\ ~(i + 1 <= Len(w)) /\ (i + 1) - Len(w) = j + 1
        BY <1>1, <3>1, <3>3
      <4>2. u[i + 1] = r[j + 1]
        BY <1>1, <4>1
      <4>3. Len(w) \in Nat /\ Len(r) \in Nat /\ Len(u) = Len(w) + Len(r) /\ j < Len(r)
        BY <1>1, <3>3
      <4> QED BY <3>1, <4>2, <4>3
    <3>5. r[j + 1].val \in Nat
      BY <3>3, <3>4, LengthSaid
    <3>6. Payload(u, Len(w) + (j + 2), r[j + 1].val, r[j].val)
      BY <3>3, <3>4, <3>5, PayloadBehind DEF u
    <3> QED BY <3>2, <3>3, <3>4, <3>6
  <2> QED BY <2>1, <2>2
<1>3. Cut(u)
  BY <1>2 DEF Cut
<1> QED BY <1>3 DEF u

(* A record between those that carry data.                                 *)
Pads == [of : {"pad"}]

LEMMA RecordIs ==
  ASSUME NEW type \in RecordTypes, NEW units, IF type = "app" THEN units \in Seq(Sent) ELSE units \in Seq(Pads)
  PROVE  LET r == Record(type, units)
         IN  /\ r \in Seq(OnWire) /\ r # <<>> /\ r[1].of = "type" /\ Cut(r)
             /\ units \in Seq(Unit)
             /\ \A a, b \in Nat : Runs(units, a, b) => Runs(r, a, b)
<1> DEFINE t == [of |-> "type", val |-> type]
           l == [of |-> "len", val |-> Len(units)]
           ofs == IF type = "app" THEN "data" ELSE "pad"
           r == Record(type, units)
<1>1. units \in Seq(OnWire) /\ Len(units) \in Nat /\ \A i \in 1..Len(units) : units[i].of = ofs
  <2>1. CASE type = "app"
    <3>1. units \in Seq(Sent)
      BY <2>1
    <3>2. \A i \in 1..Len(units) : IsData(units[i])
      BY <3>1, SentIsSolid DEF Solid
    <3> QED BY <2>1, <3>1, <3>2, SentIsSolid, LenProperties DEF IsData
  <2>2. CASE type # "app"
    <3>1. units \in Seq(Pads) /\ Pads \subseteq OnWire
      BY <2>2 DEF Pads, OnWire, FrameUnit
    <3>2. \A i \in 1..Len(units) : units[i] \in Pads
      BY <3>1, ElementOfSeq
    <3>3. \A u \in Pads : u.of = "pad"
      BY DEF Pads
    <3> QED BY <2>2, <3>1, <3>2, <3>3, SeqWider, LenProperties
  <2> QED BY <2>1, <2>2
<1>2. t \in FrameUnit /\ l \in FrameUnit /\ t.of = "type" /\ t.val = type /\ l.of = "len" /\ l.val = Len(units)
  BY <1>1 DEF FrameUnit
<1>3. r = <<t, l>> \o units
  BY DEF Record
<1> HIDE DEF t, l, ofs, r
<1>4. t \in OnWire /\ l \in OnWire
  BY <1>2 DEF OnWire
<1>5. <<t, l>> \in Seq(OnWire) /\ Len(<<t, l>>) = 2 /\ <<t, l>>[1] = t /\ <<t, l>>[2] = l
  BY <1>4
<1>6. r \in Seq(OnWire) /\ Len(r) = Len(units) + 2 /\ r[1] = t /\ r[2] = l /\ \A i \in 3..Len(r) : r[i] = units[i - 2]
  <2> DEFINE h == <<t, l>>
  <2>1. h \in Seq(OnWire) /\ Len(h) = 2 /\ h[1] = t /\ h[2] = l
    BY <1>5
  <2> HIDE DEF h
  <2>2. r \in Seq(OnWire) /\ Len(r) = 2 + Len(units) /\ \A i \in 1..(2 + Len(units)) : r[i] = IF i <= 2 THEN h[i] ELSE units[i - 2]
    BY <1>1, <1>3, <2>1, ConcatProperties DEF h
  <2> QED BY <1>1, <2>1, <2>2
<1>7. \A i \in 3..Len(r) : r[i].of = ofs
  <2> SUFFICES ASSUME NEW i \in 3..Len(r) PROVE r[i].of = ofs
    OBVIOUS
  <2>1. i - 2 \in 1..Len(units)
    BY <1>1, <1>6
  <2> QED BY <1>1, <1>6, <2>1
<1>8. Cut(r)
  <2>1. ASSUME NEW i \in 1..Len(r), r[i].of = "type" PROVE i = 1
    <3>1. i = 1 \/ i = 2 \/ i \in 3..Len(r)
      BY <1>1, <1>6
    <3> QED BY <1>2, <1>6, <1>7, <2>1, <3>1 DEF ofs
  <2>2. Payload(r, 3, Len(units), type)
    <3>1. 3..(3 + Len(units) - 1) = 3..Len(r) /\ 3 + Len(units) <= Len(r) + 1 /\ ~(3 + Len(units) <= Len(r))
      BY <1>1, <1>6
    <3> QED BY <1>7, <3>1 DEF Payload, ofs
  <2>3. 1 < Len(r) /\ r[1 + 1].of = "len" /\ Payload(r, 1 + 2, r[1 + 1].val, r[1].val)
    BY <1>1, <1>2, <1>6, <2>2
  <2> QED BY <2>1, <2>3 DEF Cut
<1>9. units \in Seq(Unit)
  BY <1>1, OnWireIs, SeqWider
<1>10. ASSUME NEW a \in Nat, NEW b \in Nat, Runs(units, a, b) PROVE Runs(r, a, b)
  <2>1. t \in Unit /\ l \in Unit /\ ~IsData(t) /\ ~IsData(l)
    BY <1>2, OnWireIs
  <2>2. <<t, l>> \in Seq(Unit) /\ Hollow(<<t, l>>)
    <3>1. \A i \in 1..Len(<<t, l>>) : i = 1 \/ i = 2
      BY <1>5
    <3> QED BY <1>5, <2>1, <3>1 DEF Hollow
  <2>3. Runs(<<t, l>>, a, a)
    BY <2>2, HollowRuns
  <2>4. Runs(<<t, l>> \o units, a, b)
    BY <1>9, <1>10, <2>2, <2>3, RunsConcat
  <2> QED BY <1>3, <2>4
<1>11. r # <<>>
  BY <1>1, <1>6, EmptySeq
<1>12. \A a, b \in Nat : Runs(units, a, b) => Runs(r, a, b)
  BY <1>10
<1> QED BY <1>2, <1>6, <1>8, <1>9, <1>11, <1>12 DEF r

LEMMA PayloadStep ==
  ASSUME NEW w \in Seq(OnWire), NEW n \in Nat \ {0}, NEW type, Payload(w, 1, n, type)
  PROVE  /\ w # <<>> /\ Head(w).of = IF type = "app" THEN "data" ELSE "pad"
         /\ Payload(Tail(w), 1, n - 1, type)
<1> DEFINE ofs == IF type = "app" THEN "data" ELSE "pad"
<1>1. /\ 1 + n <= Len(w) + 1
      /\ \A i \in 1..(1 + n - 1) : w[i].of = ofs
      /\ 1 + n <= Len(w) => w[1 + n].of = "type"
  BY DEF Payload
<1> HIDE DEF ofs
<1>2. Len(w) \in Nat
  BY LenProperties
<1>3. w # <<>>
  BY <1>1, <1>2, EmptySeq
<1>4. Head(w).of = ofs
  <2>1. 1 \in 1..(1 + n - 1) /\ Head(w) = w[1]
    BY <1>3, Uncons
  <2> QED BY <1>1, <2>1
<1>5. Payload(w, 2, n - 1, type)
  <2>1. 2 + (n - 1) = 1 + n /\ 2..(2 + (n - 1) - 1) \subseteq 1..(1 + n - 1)
    OBVIOUS
  <2> QED BY <1>1, <2>1 DEF Payload, ofs
<1>6. Payload(Tail(w), 2 - 1, n - 1, type)
  BY <1>3, <1>5, PayloadTail
<1> QED BY <1>3, <1>4, <1>6 DEF ofs

LEMMA ExpectedMore ==
  ASSUME NEW w \in Seq(OnWire), NEW r \in Seq(OnWire), r # <<>>, r[1].of = "type", NEW q, Expected(q, w)
  PROVE  Expected(q, w \o r)
<1> DEFINE u == w \o r
<1>1. u \in Seq(OnWire) /\ Len(w) \in Nat /\ Len(r) \in Nat \ {0} /\ Len(u) = Len(w) + Len(r)
      /\ \A i \in 1..(Len(w) + Len(r)) : u[i] = IF i <= Len(w) THEN w[i] ELSE r[i - Len(w)]
  BY ConcatProperties, LenProperties, EmptySeq
<1>2. u # <<>> /\ (w = <<>> => u[1] = r[1]) /\ (w # <<>> => 1 \in 1..Len(w) /\ u[1] = w[1])
  <2>1. u # <<>>
    BY <1>1, EmptySeq
  <2>2. w = <<>> => u[1] = r[1]
    BY ConcatEmptySeq
  <2>3. w # <<>> => 1 \in 1..Len(w) /\ u[1] = w[1]
    <3> HIDE DEF u
    <3> QED BY <1>1, EmptySeq
  <2> QED BY <2>1, <2>2, <2>3
<1>3. ASSUME q.at = "len" PROVE Payload(u, 2, u[1].val, q.type)
  <2>1. w # <<>> /\ w[1].of = "len" /\ Payload(w, 2, w[1].val, q.type)
    BY <1>3 DEF Expected
  <2>2. w[1].val \in Nat
    BY <1>2, <2>1, LengthSaid
  <2> QED BY <1>2, <2>1, <2>2, PayloadMore
<1>4. ASSUME q.at = "body" PROVE Payload(u, 1, q.left, q.type)
  BY <1>4, PayloadMore DEF Expected
<1> HIDE DEF u
<1>5. Expected(q, u)
  BY <1>2, <1>3, <1>4 DEF Expected
<1> QED BY <1>5 DEF u

(* Reading a record, byte by byte.                                         *)
LEMMA ExpectedType ==
  ASSUME NEW w \in Seq(OnWire), w # <<>>, Cut(w), NEW q, q.at = "type", Expected(q, w)
  PROVE  /\ q = NoRecord /\ Head(w).of = "type" /\ Head(w).val \in RecordTypes
         /\ Expected([q EXCEPT !.at = "len", !.type = Head(w).val], Tail(w))
<1>1. q = NoRecord /\ w[1].of = "type"
  BY DEF Expected
<1>2. Head(w) = w[1] /\ Head(w) \in OnWire /\ Len(w) \in Nat \ {0} /\ Len(Tail(w)) = Len(w) - 1 /\ Tail(w) \in Seq(OnWire)
      /\ \A i \in 1..(Len(w) - 1) : Tail(w)[i] = w[i + 1]
  BY Uncons
<1>3. Head(w).of = "type" /\ Head(w).val \in RecordTypes
  BY <1>1, <1>2, OnWireIs, UnitFacts
<1>4. 1 < Len(w) /\ w[1 + 1].of = "len" /\ Payload(w, 1 + 2, w[1 + 1].val, w[1].val)
  BY <1>1, <1>2 DEF Cut
<1>5. Tail(w) # <<>> /\ Tail(w)[1] = w[2]
  <2>1. 1 \in 1..(Len(w) - 1) /\ 1 + 1 = 2 /\ Len(Tail(w)) # 0
    BY <1>2, <1>4
  <2> QED BY <1>2, <2>1, EmptySeq
<1>6. Payload(Tail(w), 2, w[2].val, w[1].val)
  <2>1. w[2].val \in Nat
    BY <1>2, <1>4, LengthSaid
  <2>2. Payload(w, 3, w[2].val, w[1].val)
    BY <1>4
  <2>3. Payload(Tail(w), 3 - 1, w[2].val, w[1].val)
    BY <2>1, <2>2, PayloadTail
  <2> QED BY <2>3
<1> DEFINE p == [q EXCEPT !.at = "len", !.type = Head(w).val]
<1>7. p.at = "len" /\ p.type = Head(w).val /\ p.got = <<>>
  BY <1>1 DEF NoRecord
<1> HIDE DEF p
<1>8. Expected(p, Tail(w))
  BY <1>2, <1>3, <1>4, <1>5, <1>6, <1>7 DEF Expected
<1> QED BY <1>1, <1>3, <1>8 DEF p

LEMMA ExpectedLen ==
  ASSUME NEW w \in Seq(OnWire), NEW q \in Reads, q.at = "len", Expected(q, w)
  PROVE  /\ w # <<>> /\ Head(w).of = "len" /\ Head(w).val \in Nat
         /\ q.got = <<>> /\ q.type \in RecordTypes
         /\ Head(w).val = 0 => Expected(NoRecord, Tail(w))
         /\ Head(w).val # 0 => Expected([q EXCEPT !.at = "body", !.left = Head(w).val], Tail(w))
<1>1. q.type \in RecordTypes /\ q.got = <<>> /\ w # <<>> /\ w[1].of = "len" /\ Payload(w, 2, w[1].val, q.type)
  BY DEF Expected
<1>2. Head(w) = w[1] /\ Head(w) \in OnWire /\ Len(w) \in Nat \ {0} /\ Len(Tail(w)) = Len(w) - 1 /\ Tail(w) \in Seq(OnWire)
      /\ \A i \in 1..(Len(w) - 1) : Tail(w)[i] = w[i + 1]
  BY <1>1, Uncons
<1>3. w[1].val \in Nat
  BY <1>1, <1>2, LengthSaid
<1>4. Payload(Tail(w), 1, w[1].val, q.type)
  <2>1. Payload(Tail(w), 2 - 1, w[1].val, q.type)
    BY <1>1, <1>3, PayloadTail
  <2> QED BY <2>1
<1>5. ASSUME w[1].val = 0 PROVE Expected(NoRecord, Tail(w))
  <2>1. Tail(w) # <<>> => Tail(w)[1].of = "type"
    <3> SUFFICES ASSUME Tail(w) # <<>> PROVE Tail(w)[1].of = "type"
      OBVIOUS
    <3>1. 1 + 0 <= Len(Tail(w))
      BY <1>2, EmptySeq
    <3> QED BY <1>4, <1>5, <3>1 DEF Payload
  <2>2. NoRecord.at = "type"
    BY DEF NoRecord
  <2> QED BY <2>1, <2>2 DEF Expected
<1>6. ASSUME w[1].val # 0 PROVE Expected([q EXCEPT !.at = "body", !.left = w[1].val], Tail(w))
  <2> DEFINE p == [q EXCEPT !.at = "body", !.left = w[1].val]
  <2>1. p.at = "body" /\ p.left = w[1].val /\ p.type = q.type /\ p.got = <<>>
    BY <1>1 DEF Reads
  <2> HIDE DEF p
  <2>2. <<>> \in Seq(IF p.type = "app" THEN Sent ELSE FrameUnit)
    OBVIOUS
  <2>3. Expected(p, Tail(w))
    BY <1>1, <1>3, <1>4, <1>6, <2>1, <2>2 DEF Expected
  <2> QED BY <2>3 DEF p
<1> QED BY <1>1, <1>2, <1>3, <1>5, <1>6

LEMMA ExpectedBody ==
  ASSUME NEW w \in Seq(OnWire), NEW q \in Reads, q.at = "body", Expected(q, w)
  PROVE  /\ w # <<>> /\ q.type \in RecordTypes /\ q.left \in Nat \ {0}
         /\ Append(q.got, Head(w)) \in Seq(IF q.type = "app" THEN Sent ELSE FrameUnit)
         /\ q.left = 1 => Expected(NoRecord, Tail(w))
         /\ q.left # 1 => Expected([q EXCEPT !.left = @ - 1, !.got = Append(@, Head(w))], Tail(w))
<1>1. /\ q.type \in RecordTypes /\ q.left \in Nat \ {0} /\ q.got \in Seq(IF q.type = "app" THEN Sent ELSE FrameUnit)
      /\ Payload(w, 1, q.left, q.type)
  BY DEF Expected
<1>2. w # <<>> /\ Head(w).of = (IF q.type = "app" THEN "data" ELSE "pad") /\ Payload(Tail(w), 1, q.left - 1, q.type)
  BY <1>1, PayloadStep
<1>3. Head(w) \in OnWire /\ Tail(w) \in Seq(OnWire) /\ Len(Tail(w)) \in Nat
  BY <1>2, Uncons, LenProperties
<1>4. Head(w) \in IF q.type = "app" THEN Sent ELSE FrameUnit
  <2>1. CASE q.type = "app"
    BY <1>2, <1>3, <2>1, OnWireIs DEF IsData
  <2>2. CASE q.type # "app"
    BY <1>2, <1>3, <2>2, OnWireIs DEF IsData
  <2> QED BY <2>1, <2>2
<1>5. Append(q.got, Head(w)) \in Seq(IF q.type = "app" THEN Sent ELSE FrameUnit)
  BY <1>1, <1>4, AppendProperties
<1>6. ASSUME q.left = 1 PROVE Expected(NoRecord, Tail(w))
  <2>1. Tail(w) # <<>> => Tail(w)[1].of = "type"
    <3> SUFFICES ASSUME Tail(w) # <<>> PROVE Tail(w)[1].of = "type"
      OBVIOUS
    <3>1. 1 + 0 <= Len(Tail(w)) /\ q.left - 1 = 0
      BY <1>3, <1>6, EmptySeq
    <3> QED BY <1>2, <3>1 DEF Payload
  <2>2. NoRecord.at = "type"
    BY DEF NoRecord
  <2> QED BY <2>1, <2>2 DEF Expected
<1>7. ASSUME q.left # 1 PROVE Expected([q EXCEPT !.left = @ - 1, !.got = Append(@, Head(w))], Tail(w))
  <2> DEFINE p == [q EXCEPT !.left = @ - 1, !.got = Append(@, Head(w))]
  <2>1. p.at = "body" /\ p.left = q.left - 1 /\ p.type = q.type /\ p.got = Append(q.got, Head(w))
    BY DEF Reads
  <2> HIDE DEF p
  <2>2. p.left \in Nat \ {0}
    BY <1>1, <1>7, <2>1
  <2>3. Expected(p, Tail(w))
    BY <1>1, <1>2, <1>5, <2>1, <2>2 DEF Expected
  <2> QED BY <2>3 DEF p
<1> QED BY <1>1, <1>2, <1>5, <1>6, <1>7

-----------------------------------------------------------------------------
(* Where a unit of the stream belongs.                                     *)
LEMMA PacketLens ==
  ASSUME Typed, NEW n \in 1..Len(packets)
  PROVE  tr \in Transports /\ packets[n] \in Bodies[tr] /\ Len(packets) \in Nat
BY ElementOfSeq, LenProperties DEF Typed

LEMMA BelongsTo ==
  ASSUME Typed, NEW D \in 0..Len(packets), NEW u \in Sent, NEW x \in Nat \ {0},
         u.k = SumTo(tr, packets, D) + x, D < Len(packets) => x <= Units(tr, packets[D + 1])
  PROVE  D < Len(packets) /\ u.pkt = D + 1 /\ u.part = x
<1> DEFINE B(i) == SumTo(tr, packets, i)
           L == Len(packets)
           U(i) == Units(tr, packets[i])
<1>1. tr \in Transports /\ packets \in Seq(Bodies[tr]) /\ L \in Nat
  BY LenProperties DEF Typed
<1>2. /\ \A i \in 0..L : B(i) \in Nat
      /\ \A i \in 1..L : B(i) = B(i - 1) + U(i) /\ U(i) \in Nat \ {0}
  BY <1>1, SumIs, UnitsTyped, ElementOfSeq
<1>3. \A i, j \in 0..L : i <= j => B(i) <= B(j)
  BY <1>1, SumMonotone
<1>4. u.pkt \in 1..L /\ u.part \in 1..U(u.pkt) /\ u.k = B(u.pkt - 1) + u.part
  BY DEF Sent, Genuine
<1> HIDE DEF B, L, U
<1>5. u.pkt \in 0..L /\ u.pkt - 1 \in 0..L /\ u.pkt \in Nat
  BY <1>1, <1>4
<1>6. B(u.pkt) \in Nat /\ B(u.pkt - 1) \in Nat /\ U(u.pkt) \in Nat /\ B(u.pkt) = B(u.pkt - 1) + U(u.pkt) /\ u.part \in Nat \ {0}
  BY <1>2, <1>4, <1>5
<1>7. u.k > B(u.pkt - 1) /\ u.k <= B(u.pkt)
  BY <1>4, <1>6
<1>8. D \in 0..L /\ B(D) \in Nat /\ u.k = B(D) + x
  BY <1>2 DEF L, B
<1>9. ~(u.pkt <= D)
  <2> SUFFICES ASSUME u.pkt <= D PROVE FALSE
    OBVIOUS
  <2>1. B(u.pkt) <= B(D)
    BY <1>3, <1>5, <1>8
  <2> QED BY <1>6, <1>7, <1>8, <2>1
<1>10. D < L /\ D + 1 \in 1..L /\ D + 1 \in 0..L /\ (D + 1) - 1 = D
  BY <1>1, <1>4, <1>8, <1>9
<1>11. B(D + 1) = B(D) + U(D + 1) /\ U(D + 1) \in Nat /\ x <= U(D + 1)
  BY <1>2, <1>10 DEF L, U
<1>12. ~(D + 1 < u.pkt)
  <2> SUFFICES ASSUME D + 1 < u.pkt PROVE FALSE
    OBVIOUS
  <2>1. D + 1 <= u.pkt - 1
    BY <1>5, <1>8
  <2>2. B(D + 1) <= B(u.pkt - 1)
    BY <1>3, <1>5, <1>10, <2>1
  <2> QED BY <1>6, <1>7, <1>8, <1>11, <2>2
<1>13. u.pkt = D + 1
  BY <1>5, <1>8, <1>9, <1>12
<1>14. B(u.pkt - 1) = B(D)
  BY <1>10, <1>13
<1>15. u.part = x
  BY <1>4, <1>6, <1>8, <1>14
<1> QED BY <1>10, <1>13, <1>15 DEF L

(* A piece of the packet that comes next.                                  *)
LEMMA PieceBelongs ==
  ASSUME Typed, NEW D \in 0..Len(packets), NEW piece \in Seq(Sent), Len(piece) > 0, NEW s \in Nat,
         \A i \in 1..Len(piece) : piece[i].k = (SumTo(tr, packets, D) + s) + i,
         D < Len(packets) => s + Len(piece) <= Units(tr, packets[D + 1])
  PROVE  D < Len(packets) /\ \A i \in 1..Len(piece) : piece[i].pkt = D + 1 /\ piece[i].part = s + i
<1>1. SumTo(tr, packets, D) \in Nat /\ Len(piece) \in Nat
  BY SumIs, LenProperties DEF Typed
<1>2. ASSUME NEW i \in 1..Len(piece)
      PROVE  D < Len(packets) /\ piece[i].pkt = D + 1 /\ piece[i].part = s + i
  <2>1. piece[i] \in Sent
    BY ElementOfSeq
  <2>2. piece[i].k = SumTo(tr, packets, D) + (s + i) /\ s + i \in Nat \ {0}
    BY <1>1
  <2>3. D < Len(packets) => s + i <= Units(tr, packets[D + 1])
    <3> SUFFICES ASSUME D < Len(packets) PROVE s + i <= Units(tr, packets[D + 1])
      OBVIOUS
    <3>1. D + 1 \in 1..Len(packets)
      BY LenProperties DEF Typed
    <3>2. Units(tr, packets[D + 1]) \in Nat
      BY <3>1, PacketLens, UnitsTyped
    <3> QED BY <1>1, <3>2
  <2> QED BY <2>1, <2>2, <2>3, BelongsTo
<1>3. 1 \in 1..Len(piece)
  BY <1>1
<1> QED BY <1>2, <1>3

LEMMA ValuesAre ==
  ASSUME NEW piece \in Seq(Sent)
  PROVE  Values(piece) \in Seq(Nat) /\ Len(Values(piece)) = Len(piece) /\ \A i \in 1..Len(piece) : Values(piece)[i] = piece[i].val
<1>1. DOMAIN piece = 1..Len(piece) /\ Len(piece) \in Nat
  BY LenProperties
<1>2. ASSUME NEW i \in 1..Len(piece) PROVE piece[i].val \in Nat
  <2>1. piece[i] \in Sent
    BY ElementOfSeq
  <2> QED BY <2>1, OnWireIs, UnitFacts
<1>3. Values(piece) \in [1..Len(piece) -> Nat] /\ \A i \in 1..Len(piece) : Values(piece)[i] = piece[i].val
  BY <1>1, <1>2 DEF Values
<1> QED BY <1>1, <1>3, FunSeq

(* The long head of abridged: a mark, and the three bytes of a length.      *)
Follows(h, x, v) ==
  h \in Seq(Nat) /\ Len(h) = Len(v) + 1 /\ h[1] = x /\ \A i \in 1..Len(v) : h[i + 1] = v[i]

LEMMA LongHead == ASSUME NEW x \in Nat, NEW v \in Seq(Nat) PROVE Follows(<<x>> \o v, x, v)
<1> DEFINE c == <<x>> \o v
<1>1. c \in Seq(Nat) /\ Len(c) = Len(v) + 1 /\ c[1] = x /\ \A i \in 1..Len(v) : c[i + 1] = v[i]
  BY Cons
<1> HIDE DEF c
<1>2. Follows(c, x, v)
  BY <1>1 DEF Follows
<1> QED BY <1>2 DEF c

(* A head that has come is the head that was written.                       *)
HeadTaken(D, piece) ==
  /\ D < Len(packets) /\ Clear(piece) /\ phase \in {"first", "ext"} /\ Len(piece) = Need
  /\ \A i \in 1..Len(piece) : piece[i].pkt = D + 1 /\ piece[i].part = Len(head) + i
  /\ phase = "first" => head = <<>>
  /\ phase = "ext" => tr = "abridged" /\ head = <<Long>> /\ HeadLen(tr, packets[D + 1]) = 4

LEMMA HeadComes ==
  ASSUME Typed, NEW D \in Nat, NEW piece \in Seq(Sent), HeadTaken(D, piece), HeadDone(piece)
  PROVE  \/ phase = "first" /\ tr = "abridged" /\ HeadLen(tr, packets[D + 1]) = 4 /\ Extended(<<Long>>)
         \/ HeadLen(tr, packets[D + 1]) = Len(head) + Len(piece) /\ Sized(packets[D + 1])
<1> DEFINE len == packets[D + 1]
           e == Encode(tr, len)
           h == head \o Values(piece)
           H == HeadLen(tr, len)
           v == Values(piece)
           Outcome == IF phase = "first" /\ NeedsExt(tr, h) THEN Extended(h) ELSE Sized(Decode(tr, h))
<1>0. /\ D < Len(packets) /\ Clear(piece) /\ phase \in {"first", "ext"} /\ Len(piece) = Need
      /\ \A i \in 1..Len(piece) : piece[i].pkt = D + 1 /\ piece[i].part = Len(head) + i
      /\ phase = "first" => head = <<>>
      /\ phase = "ext" => tr = "abridged" /\ head = <<Long>> /\ H = 4
  BY DEF HeadTaken
<1>1. D + 1 \in 1..Len(packets)
  BY <1>0, LenProperties DEF Typed
<1>2. tr \in Transports /\ len \in Bodies[tr]
  BY <1>1, PacketLens
<1>3. /\ e \in Seq(Nat) /\ H \in {1, 4} /\ Len(e) = H /\ Decode(tr, e) = len
      /\ tr # "abridged" => H = 4
      /\ tr = "abridged" => (e[1] = Long <=> H = 4)
  BY <1>2, HeadSays DEF HeadLen
<1>4. v \in Seq(Nat) /\ Len(v) = Len(piece) /\ \A i \in 1..Len(piece) : v[i] = piece[i].val
  BY ValuesAre
<1>5. Long \in Nat /\ head \in Seq(Nat)
  <2>1. Long \in Nat
    BY FramingAssumption
  <2>2. <<>> \in Seq(Nat) /\ <<Long>> \in Seq(Nat)
    BY <2>1
  <2> QED BY <1>0, <2>1, <2>2
<1>6. DOMAIN piece = 1..Len(piece) /\ Len(piece) \in Nat /\ Len(head) \in Nat
  BY <1>5, LenProperties
<1>7. Outcome
  <2>1. Consecutive(piece, Len(head) + 1)
    <3>1. ASSUME NEW i \in DOMAIN piece PROVE piece[i].part = Len(head) + 1 + i - 1 /\ piece[i].pkt = piece[1].pkt
      BY <1>0, <1>6
    <3> QED BY <1>0, <3>1 DEF Consecutive
  <2> QED BY <2>1 DEF HeadDone
<1>8. ASSUME NEW i \in 1..Len(piece), Len(head) + i <= H PROVE v[i] = e[Len(head) + i]
  <2>1. piece[i] \in Sent
    BY ElementOfSeq
  <2>2. piece[i].val = Encode(tr, packets[piece[i].pkt])[piece[i].part]
    BY <1>0, <1>8, <2>1 DEF Sent, Genuine
  <2> QED BY <1>0, <1>4, <2>2
<1> HIDE DEF len, e, v, H, Outcome
<1>9. CASE phase = "first"
  <2>1. head = <<>> /\ Len(head) = 0 /\ h = v
    BY <1>0, <1>4, <1>9, ConcatEmptySeq DEF v
  <2>2. Len(piece) = FirstRead(tr)
    BY <1>0, <1>9 DEF Need
  <2>3. CASE H = FirstRead(tr)
    <3>1. v = e
      <4>1. \A i \in 1..Len(v) : v[i] = e[i]
        BY <1>3, <1>4, <1>6, <1>8, <2>1, <2>2, <2>3
      <4> QED BY <1>3, <1>4, <2>2, <2>3, <4>1, SeqEqual
    <3>2. ~NeedsExt(tr, e)
      <4> SUFFICES ASSUME tr = "abridged", e = <<Long>> PROVE FALSE
        BY DEF NeedsExt
      <4>1. H = 1 /\ e[1] = Long
        BY <2>3 DEF FirstRead
      <4> QED BY <1>3, <4>1
    <3>3. Sized(len)
      BY <1>3, <1>7, <2>1, <3>1, <3>2 DEF Outcome
    <3> QED BY <1>6, <2>1, <2>2, <2>3, <3>3 DEF H, len
  <2>4. CASE H # FirstRead(tr)
    <3>1. tr = "abridged" /\ H = 4 /\ Len(piece) = 1
      BY <1>3, <2>2, <2>4 DEF FirstRead
    <3>2. v[1] = Long
      BY <1>3, <1>8, <2>1, <3>1
    <3>3. v = <<Long>>
      <4> DEFINE l == <<Long>>
      <4>1. l \in Seq(Nat) /\ Len(l) = 1 /\ l[1] = Long
        BY <1>5
      <4> HIDE DEF l
      <4>2. \A i \in 1..Len(v) : v[i] = l[i]
        BY <1>4, <3>1, <3>2, <4>1
      <4>3. v = l
        BY <1>4, <3>1, <4>1, <4>2, SeqEqual
      <4> QED BY <4>3 DEF l
    <3>4. NeedsExt(tr, <<Long>>)
      BY <3>1 DEF NeedsExt
    <3>5. Extended(<<Long>>)
      BY <1>7, <1>9, <2>1, <3>3, <3>4 DEF Outcome
    <3> QED BY <1>9, <3>1, <3>5 DEF H, len
  <2> QED BY <2>3, <2>4
<1>10. CASE phase = "ext"
  <2>1. tr = "abridged" /\ head = <<Long>> /\ H = 4 /\ Len(piece) = 3
    BY <1>0, <1>10 DEF Need, ExtRead
  <2>2. h \in Seq(Nat) /\ Len(h) = 4 /\ h[1] = Long /\ \A i \in 1..3 : h[i + 1] = v[i]
    <3>1. h = <<Long>> \o v
      BY <2>1 DEF v
    <3>2. v \in Seq(Nat) /\ Len(v) = 3
      BY <1>4, <2>1
    <3> HIDE DEF h
    <3>3. Follows(<<Long>> \o v, Long, v)
      BY <1>5, <3>2, LongHead, Zenon
    <3>4. Follows(h, Long, v)
      BY <3>1, <3>3, Zenon
    <3> QED BY <3>2, <3>4 DEF Follows
  <2> HIDE DEF h
  <2>3. \A i \in 1..3 : v[i] = e[1 + i]
    <3>1. Len(head) = 1
      BY <2>1
    <3> QED BY <1>8, <2>1, <3>1
  <2>4. ASSUME NEW i \in 1..4 PROVE h[i] = e[i]
    <3>1. CASE i = 1
      BY <1>3, <2>1, <2>2, <3>1
    <3>2. CASE i # 1
      <4>1. PICK j \in 1..3 : i = j + 1
        <5>1. i - 1 \in 1..3 /\ i = (i - 1) + 1
          BY <3>2
        <5> QED BY <5>1
      <4>2. h[i] = v[j] /\ e[1 + j] = v[j] /\ 1 + j = i
        BY <2>2, <2>3, <4>1
      <4> QED BY <4>2
    <3> QED BY <3>1, <3>2
  <2>5. h = e
    <3>1. Len(h) = Len(e) /\ \A i \in 1..Len(h) : h[i] = e[i]
      BY <1>3, <2>1, <2>2, <2>4
    <3> QED BY <1>3, <2>2, <3>1, SeqEqual
  <2>6. Sized(len)
    BY <1>3, <1>7, <1>10, <2>5 DEF Outcome
  <2>7. Len(head) = 1
    BY <2>1
  <2> QED BY <2>1, <2>6, <2>7 DEF H, len
<1> QED BY <1>0, <1>9, <1>10

-----------------------------------------------------------------------------
(* Reading.                                                                *)
LEMMA SameStream ==
  ASSUME tr' = tr, packets' = packets
  PROVE  /\ Sent' = Sent /\ OnWire' = OnWire /\ Reads' = Reads
         /\ \A n : Before(n)' = Before(n)
         /\ \A len : UnitsOf(len)' = UnitsOf(len)
<1>1. \A u : Genuine(u)' <=> Genuine(u)
  BY DEF Genuine
<1>2. Sent' = Sent
  BY <1>1 DEF Sent
<1>3. OnWire' = OnWire
  BY <1>2 DEF OnWire
<1>4. \A n : Before(n)' = Before(n)
  BY DEF Before, UnitsOf
<1>5. \A len : UnitsOf(len)' = UnitsOf(len)
  BY DEF UnitsOf
<1> QED BY <1>2, <1>3, <1>4, <1>5 DEF Reads

LEMMA PartsTyped ==
  ASSUME Negotiated, Carried
  PROVE  /\ have \in Seq(Sent) /\ have \in Seq(Unit) /\ buf \in Seq(Sent) /\ buf \in Seq(Unit)
         /\ pending \in Seq(Sent) /\ pending \in Seq(Unit) /\ rec.got \in Seq(Unit)
         /\ wire \in Seq(OnWire) /\ wire \in Seq(Unit)
<1>1. have \in Seq(Sent) /\ buf \in Seq(Sent) /\ pending \in Seq(Sent)
  BY DEF Carried
<1>2. wire \in Seq(OnWire)
  <2>1. CASE kind = "tls"
    BY <2>1 DEF Carried
  <2>2. CASE kind # "tls"
    BY <2>2, SentIsSolid DEF Carried
  <2> QED BY <2>1, <2>2
<1>3. rec.got \in Seq(OnWire)
  <2>1. CASE kind = "tls"
    BY <2>1 DEF Carried, Reads
  <2>2. CASE kind # "tls"
    <3>1. rec.got = <<>>
      BY <2>2 DEF Negotiated, Quiet, NoRecord
    <3> QED BY <3>1
  <2> QED BY <2>1, <2>2
<1> QED BY <1>1, <1>2, <1>3, SentIsSolid, OnWireIs, SeqWider

LEMMA PlaceTyped ==
  ASSUME Typed, Placed
  PROVE  /\ Len(delivered) \in 0..Len(packets) /\ Len(packets) \in Nat
         /\ PieceStart \in Nat /\ Decoded = SumTo(tr, packets, Len(delivered)) + PieceStart /\ Decoded \in Nat
         /\ Before(Len(packets)) = SumTo(tr, packets, Len(packets)) /\ Before(Len(packets)) \in Nat
<1>1. Len(delivered) \in Nat /\ Len(packets) \in Nat /\ Len(delivered) <= Len(packets)
  BY LenProperties DEF Typed, Placed
<1>2. PieceStart \in Nat
  <2>1. CASE phase = "body"
    <3>1. Len(delivered) + 1 \in 1..Len(packets)
      BY <1>1, <2>1 DEF Placed
    <3>2. HeadLen(tr, packets[Len(delivered) + 1]) \in Nat
      BY <3>1, PacketLens, HeadSays
    <3> QED BY <2>1, <3>2 DEF PieceStart, HeadLen
  <2>2. CASE phase # "body"
    BY <2>2 DEF PieceStart, FirstRead
  <2> QED BY <2>1, <2>2
<1>3. tr \in Transports /\ packets \in Seq(Bodies[tr])
  BY DEF Typed
<1>4. SumTo(tr, packets, Len(delivered)) \in Nat /\ SumTo(tr, packets, Len(packets)) \in Nat
  BY <1>1, <1>3, SumIs
<1> QED BY <1>1, <1>2, <1>4, BeforeIs DEF Decoded

LEMMA NumberedChain ==
  ASSUME Negotiated, Carried, Placed, Numbered
  PROVE  Chain(have, buf, rec.got, wire, pending, Decoded, Before(Len(packets)))
<1>1. Decoded \in Nat /\ Before(Len(packets)) \in Nat
  BY PlaceTyped DEF Negotiated
<1> QED BY <1>1, PartsTyped, ChainLine DEF Numbered, Line

(* One more unit for the piece that is being read.                         *)
PieceTaken(piece, f, w) ==
  /\ piece \in Seq(Sent) /\ Len(piece) = Len(have) + 1
  /\ f \in Seq(Sent) /\ w \in Seq(IF kind = "tls" THEN OnWire ELSE Sent)
  /\ kind = "tls" => w = wire
  /\ kind # "tls" => f = <<>>
  /\ Chain(piece, f, rec.got, w, pending, Decoded, Before(Len(packets)))
  /\ kind = "tls" => rec = NoRecord

LEMMA RunsNothing ==
  ASSUME NEW a \in Nat, NEW b \in Nat, Runs(<<>>, a, b)
  PROVE  a = b
<1>1. <<>> \in Seq(Unit) /\ Hollow(<<>>)
  BY DEF Hollow
<1> QED BY <1>1, HollowRuns

LEMMA TakesOne ==
  ASSUME Negotiated, Carried, Placed, Numbered,
         (IF kind = "tls" THEN buf ELSE wire) # <<>>
  PROVE  IF kind = "tls" THEN PieceTaken(Append(have, Head(buf)), Tail(buf), wire)
                         ELSE PieceTaken(Append(have, Head(wire)), buf, Tail(wire))
<1> DEFINE a == Decoded
           b == Before(Len(packets))
           g == rec.got
<1>1. a \in Nat /\ b \in Nat
  BY PlaceTyped DEF Negotiated
<1>2. Chain(have, buf, g, wire, pending, a, b)
  BY NumberedChain
<1>3. /\ have \in Seq(Sent) /\ have \in Seq(Unit) /\ buf \in Seq(Sent) /\ buf \in Seq(Unit)
      /\ pending \in Seq(Sent) /\ pending \in Seq(Unit) /\ g \in Seq(Unit)
      /\ wire \in Seq(OnWire) /\ wire \in Seq(Unit)
  BY PartsTyped
<1> HIDE DEF a, b, g
<1>4. PICK m1 \in Nat, m2 \in Nat, m3 \in Nat, m4 \in Nat :
        Runs(have, a, m1) /\ Runs(buf, m1, m2) /\ Runs(g, m2, m3) /\ Runs(wire, m3, m4) /\ Runs(pending, m4, b)
  BY <1>2 DEF Chain
<1>5. CASE kind = "tls"
  <2>1. buf # <<>>
    BY <1>5
  <2>2. PICK n \in Nat : Runs(Append(have, Head(buf)), a, n) /\ Runs(Tail(buf), n, m2)
    BY <1>1, <1>3, <1>4, <2>1, RunsShift
  <2>3. Head(buf) \in Sent /\ Tail(buf) \in Seq(Sent)
    BY <1>3, <2>1, Uncons
  <2>4. Append(have, Head(buf)) \in Seq(Sent) /\ Len(Append(have, Head(buf))) = Len(have) + 1
    BY <1>3, <2>3, AppendProperties
  <2>5. Chain(Append(have, Head(buf)), Tail(buf), g, wire, pending, a, b)
    BY <1>4, <2>2 DEF Chain
  <2>6. rec = NoRecord
    BY <1>5, <2>1 DEF Carried
  <2> QED BY <1>3, <1>5, <2>3, <2>4, <2>5, <2>6 DEF PieceTaken, a, b, g
<1>6. CASE kind # "tls"
  <2>1. buf = <<>> /\ g = <<>> /\ wire # <<>> /\ wire \in Seq(Sent)
    BY <1>6 DEF Negotiated, Quiet, Carried, NoRecord, g
  <2>2. Runs(<<>>, m1, m2) /\ Runs(<<>>, m2, m3)
    BY <1>4, <2>1
  <2>3. m1 = m2 /\ m2 = m3
    BY <2>2, RunsNothing
  <2>4. PICK n \in Nat : Runs(Append(have, Head(wire)), a, n) /\ Runs(Tail(wire), n, m4)
    BY <1>1, <1>3, <1>4, <2>1, <2>3, RunsShift
  <2>5. Head(wire) \in Sent /\ Tail(wire) \in Seq(Sent)
    BY <2>1, Uncons
  <2>6. Append(have, Head(wire)) \in Seq(Sent) /\ Len(Append(have, Head(wire))) = Len(have) + 1
    BY <1>3, <2>5, AppendProperties
  <2>7. Runs(buf, n, n) /\ Runs(g, n, n)
    BY <2>1, RunsNone
  <2>8. Chain(Append(have, Head(wire)), buf, g, Tail(wire), pending, a, b)
    BY <1>4, <2>4, <2>7 DEF Chain
  <2> QED BY <1>3, <1>6, <2>1, <2>5, <2>6, <2>8 DEF PieceTaken, a, b, g
<1> QED BY <1>5, <1>6

(* A piece that is complete is the one that was due.                        *)
PieceDue(D, piece, f, w) ==
  /\ D = Len(delivered) /\ D < Len(packets) /\ Len(piece) = Need /\ Clear(piece)
  /\ \A i \in 1..Len(piece) : piece[i].pkt = D + 1 /\ piece[i].part = PieceStart + i
  /\ Chain(<<>>, f, rec.got, w, pending, Decoded + Need, Before(Len(packets)))

LEMMA NeedIs ==
  ASSUME Negotiated, Placed, phase # "idle"
  PROVE  /\ Need \in Nat /\ Len(have) < Need
         /\ Len(delivered) < Len(packets) => PieceStart + Need <= Units(tr, packets[Len(delivered) + 1])
<1> DEFINE D == Len(delivered)
           len == packets[D + 1]
<1>1. phase \in {"first", "ext", "body"}
  BY DEF Placed
<1>2. D \in Nat
  BY LenProperties DEF Placed
<1>3. ASSUME D < Len(packets)
      PROVE  /\ HeadLen(tr, len) \in {1, 4} /\ (tr # "abridged" => HeadLen(tr, len) = 4) /\ BodyUnits(len) \in Nat
             /\ Units(tr, len) = HeadLen(tr, len) + BodyUnits(len)
  <2>1. D + 1 \in 1..Len(packets)
    BY <1>2, <1>3, LenProperties DEF Negotiated, Typed
  <2> HIDE DEF D
  <2>2. tr \in Transports /\ len \in Bodies[tr]
    BY <2>1, PacketLens DEF Negotiated
  <2> QED BY <2>2, HeadSays, BodyWords DEF Units
<1>4. CASE phase = "first"
  BY <1>3, <1>4 DEF Placed, Need, PieceStart, FirstRead
<1>5. CASE phase = "ext"
  BY <1>3, <1>5 DEF Placed, Need, PieceStart, FirstRead, ExtRead
<1>6. CASE phase = "body"
  <2>1. size = len /\ D < Len(packets) /\ Len(have) < BodyUnits(size)
    BY <1>6 DEF Placed
  <2>2. Need = BodyUnits(len) /\ PieceStart = HeadLen(tr, len)
    BY <1>6, <2>1 DEF Need, PieceStart, HeadLen
  <2> HIDE DEF len
  <2> QED BY <1>3, <2>1, <2>2 DEF len
<1> QED BY <1>1, <1>4, <1>5, <1>6

LEMMA PieceIsDue ==
  ASSUME Negotiated, Carried, Placed, Numbered, phase # "idle", NEW piece, NEW f, NEW w, PieceTaken(piece, f, w),
         ~(Len(piece) < Need)
  PROVE  PieceDue(Len(delivered), piece, f, w)
<1> DEFINE D == Len(delivered)
           B == Before(Len(packets))
           s == PieceStart
           a == SumTo(tr, packets, D)
<1>1. Need \in Nat /\ Len(have) < Need /\ (D < Len(packets) => s + Need <= Units(tr, packets[D + 1]))
  BY NeedIs
<1>2. /\ piece \in Seq(Sent) /\ Len(piece) = Len(have) + 1 /\ f \in Seq(Sent)
      /\ Chain(piece, f, rec.got, w, pending, Decoded, B)
  BY DEF PieceTaken
<1>3. Len(have) \in Nat /\ Typed
  BY PartsTyped, LenProperties DEF Negotiated
<1>4. D \in 0..Len(packets) /\ s \in Nat /\ Decoded = a + s /\ Decoded \in Nat /\ B \in Nat /\ a \in Nat
  <2>1. a \in Nat
    BY <1>3, PlaceTyped, SumIs DEF Typed
  <2> QED BY <1>3, <2>1, PlaceTyped
<1>5. Len(piece) = Need /\ Len(piece) > 0
  BY <1>1, <1>2, <1>3
<1> HIDE DEF D, B, s, a
<1>6. PICK m1 \in Nat, m2 \in Nat, m3 \in Nat, m4 \in Nat :
        Runs(piece, Decoded, m1) /\ Runs(f, m1, m2) /\ Runs(rec.got, m2, m3) /\ Runs(w, m3, m4) /\ Runs(pending, m4, B)
  BY <1>2 DEF Chain
<1>7. m1 = Decoded + Len(piece) /\ \A i \in 1..Len(piece) : piece[i].k = Decoded + i
  <2>1. piece \in Seq(Sent) /\ Decoded \in Nat /\ Runs(piece, Decoded, m1)
    BY <1>2, <1>4, <1>6
  <2>2. piece \in Seq(Unit) /\ Solid(piece)
    BY <2>1, SentIsSolid
  <2> QED BY <2>1, <2>2, SolidRuns
<1>8. Chain(<<>>, f, rec.got, w, pending, Decoded + Need, B)
  <2>1. m1 = Decoded + Need
    BY <1>5, <1>7
  <2>2. Runs(<<>>, m1, m1)
    BY RunsNone
  <2> QED BY <1>6, <2>1, <2>2 DEF Chain
<1>9. D < Len(packets) /\ \A i \in 1..Len(piece) : piece[i].pkt = D + 1 /\ piece[i].part = s + i
  <2>1. \A i \in 1..Len(piece) : piece[i].k = (SumTo(tr, packets, D) + s) + i
    BY <1>4, <1>7 DEF a
  <2>2. D < Len(packets) => s + Len(piece) <= Units(tr, packets[D + 1])
    BY <1>1, <1>5 DEF D, s
  <2>3. Typed /\ D \in 0..Len(packets) /\ piece \in Seq(Sent) /\ Len(piece) > 0 /\ s \in Nat
    BY <1>2, <1>3, <1>4, <1>5
  <2> QED BY <2>1, <2>2, <2>3, PieceBelongs
<1>10. Clear(piece)
  <2>1. ASSUME NEW i \in DOMAIN piece PROVE piece[i].of = "data" /\ (kind # "socks" => piece[i].k = dec + i)
    <3>1. i \in 1..Len(piece) /\ piece[i] \in Sent
      BY <1>2, ElementOfSeq, LenProperties
    <3>2. kind # "socks" => dec = Decoded
      BY DEF Placed
    <3> QED BY <1>7, <3>1, <3>2, OnWireIs DEF IsData
  <2> QED BY <2>1 DEF Clear
<1> QED BY <1>5, <1>8, <1>9, <1>10 DEF PieceDue, D, B, s

LEMMA NextIsReceived ==
  ASSUME Negotiated, Carried, Placed, phase = "body", NEW piece \in Seq(Sent), NEW D \in Nat, NEW f, NEW w,
         PieceDue(D, piece, f, w)
  PROVE  Received(piece) = D + 1
<1> DEFINE len == packets[D + 1]
           n == BodyUnits(Stripped(tr, size))
           words == SubSeq(piece, 1, n)
<1>1. /\ D = Len(delivered) /\ D < Len(packets) /\ Len(piece) = Need /\ Clear(piece)
      /\ \A i \in 1..Len(piece) : piece[i].pkt = D + 1 /\ piece[i].part = PieceStart + i
  BY DEF PieceDue
<1>2. D + 1 \in 1..Len(packets)
  BY <1>1, LenProperties DEF Negotiated, Typed
<1>3. tr \in Transports /\ len \in Bodies[tr] /\ size = len
  BY <1>1, <1>2, PacketLens DEF Negotiated, Placed
<1>4. n \in 1..Len(piece) /\ Len(piece) \in Nat
  BY <1>1, <1>3, BodyWords, LenProperties DEF Need
<1>5. PieceStart = Len(Encode(tr, len)) /\ Len(Encode(tr, len)) \in Nat
  BY <1>1, <1>3, HeadSays DEF PieceStart, HeadLen
<1> HIDE DEF len, n
<1>6. Len(words) = n /\ DOMAIN words = 1..n /\ \A i \in 1..n : words[i] = piece[i]
  <2>1. \A i \in 1..n : piece[i] \in Sent
    BY <1>4, ElementOfSeq
  <2>2. words \in Seq(Sent) /\ Len(words) = n /\ \A i \in 1..n : words[i] = piece[i]
    BY <1>4, <2>1, SubSeqProperties
  <2> QED BY <2>2, LenProperties
<1> HIDE DEF words
<1>7. words[1].pkt = D + 1 /\ words # <<>>
  <2>1. 1 \in 1..n /\ 1 \in 1..Len(piece)
    BY <1>4
  <2>2. words[1] = piece[1]
    BY <1>6, <2>1
  <2>3. Len(words) # 0
    BY <1>4, <1>6
  <2> QED BY <1>1, <2>1, <2>2, <2>3, EmptySeq
<1>8. Consecutive(words, Len(Encode(tr, len)) + 1)
  <2>1. ASSUME NEW i \in DOMAIN words
        PROVE  /\ words[i].of = "data" /\ (kind # "socks" => words[i].k = dec + i)
               /\ words[i].part = Len(Encode(tr, len)) + 1 + i - 1 /\ words[i].pkt = words[1].pkt
    <3>1. i \in 1..n /\ i \in 1..Len(piece) /\ i \in DOMAIN piece
      BY <1>4, <1>6, LenProperties
    <3>2. words[i] = piece[i] /\ words[i].pkt = D + 1 /\ words[i].part = PieceStart + i
      BY <1>1, <1>6, <3>1
    <3>3. piece[i].of = "data" /\ (kind # "socks" => piece[i].k = dec + i)
      BY <1>1, <3>1 DEF Clear
    <3>4. PieceStart + i = Len(Encode(tr, len)) + 1 + i - 1
      BY <1>5, <3>1
    <3> QED BY <1>7, <3>2, <3>3, <3>4
  <2> QED BY <2>1 DEF Consecutive, Clear
<1>9. Len(words) = BodyUnits(Stripped(tr, len))
  BY <1>3, <1>6 DEF n
<1> DEFINE k == words[1].pkt
<1>10. k = D + 1 /\ packets[k] = len
  BY <1>7 DEF len
<1>11. Received(piece) = k
  <2>1. /\ Clear(piece) /\ words # <<>>
        /\ Consecutive(words, Len(Encode(tr, packets[k])) + 1)
        /\ Len(words) = BodyUnits(Stripped(tr, packets[k]))
    BY <1>1, <1>7, <1>8, <1>9, <1>10
  <2> QED BY <2>1 DEF Received, words, n
<1> QED BY <1>10, <1>11

-----------------------------------------------------------------------------
(* The next state.                                                         *)
LEMMA PlaceNow ==
  /\ Decoded' = SumTo(tr', packets', Len(delivered')) + PieceStart'
  /\ (Before(Len(packets)))' = SumTo(tr', packets', Len(packets'))
<1>1. (Before(Len(delivered)))' = SumTo(tr', packets', Len(delivered'))
  BY DEF Before, SumTo, UnitsOf, Units, HeadLen
<1>2. (Before(Len(packets)))' = SumTo(tr', packets', Len(packets'))
  BY DEF Before, SumTo, UnitsOf, Units, HeadLen
<1> QED BY <1>1, <1>2 DEF Decoded

LEMMA NumberedNow ==
  ASSUME NEW h \in Seq(Unit), NEW f \in Seq(Unit), NEW g \in Seq(Unit), NEW w \in Seq(Unit), NEW p \in Seq(Unit),
         NEW a \in Nat, NEW b \in Nat, Chain(h, f, g, w, p, a, b),
         have' = h, buf' = f, rec'.got = g, wire' = w, pending' = p,
         Decoded' = a, (Before(Len(packets)))' = b
  PROVE  Numbered'
<1>1. Runs(h \o f \o g \o w \o p, a, b)
  BY ChainLine
<1>2. Line' = h \o f \o g \o w \o p
  BY DEF Line
<1> QED BY <1>1, <1>2 DEF Numbered

(* A unit has been taken, and the decoder stands where it should.          *)
LEMMA TakenCarried ==
  ASSUME Negotiated, Carried, UNCHANGED <<kind, tr, packets, pending, rec>>,
         NEW piece, PieceTaken(piece, buf', wire'), have' \in Seq(Sent)
  PROVE  Carried'
<1>1. Sent' = Sent /\ OnWire' = OnWire /\ Reads' = Reads
  BY SameStream
<1>2. /\ buf' \in Seq(Sent) /\ wire' \in Seq(IF kind = "tls" THEN OnWire ELSE Sent)
      /\ kind = "tls" => wire' = wire /\ rec = NoRecord
  BY DEF PieceTaken
<1>3. pending \in Seq(Sent) /\ (kind = "tls" => rec \in Reads /\ Expected(rec, wire) /\ Cut(wire))
  BY DEF Carried
<1>4. ASSUME kind = "tls" PROVE Expected(rec, wire)'
  BY <1>2, <1>3, <1>4 DEF Expected, NoRecord
<1> QED BY <1>1, <1>2, <1>3, <1>4 DEF Carried

LEMMA TakenNumbered ==
  ASSUME Negotiated, Carried, Placed, UNCHANGED <<kind, tr, packets, pending, rec>>,
         NEW piece, PieceTaken(piece, buf', wire'), NEW h \in Seq(Sent), have' = h,
         NEW a \in Nat, Decoded' = a, Chain(h, buf', rec.got, wire', pending, a, Before(Len(packets)))
  PROVE  Numbered'
<1> DEFINE b == SumTo(tr, packets, Len(packets))
<1>1. b \in Nat /\ Before(Len(packets)) = b
  BY PlaceTyped DEF Negotiated
<1>2. (Before(Len(packets)))' = b
  BY PlaceNow
<1>3. buf' \in Seq(Sent) /\ wire' \in Seq(IF kind = "tls" THEN OnWire ELSE Sent)
  BY DEF PieceTaken
<1>4. pending \in Seq(Unit) /\ rec.got \in Seq(Unit)
  BY PartsTyped
<1>5. h \in Seq(Unit) /\ buf' \in Seq(Unit) /\ wire' \in Seq(Unit)
  <2>1. \A s \in Seq(Sent) : s \in Seq(Unit)
    BY SentIsSolid
  <2>2. \A s \in Seq(OnWire) : s \in Seq(Unit)
    BY OnWireIs, SeqWider
  <2> QED BY <1>3, <2>1, <2>2
<1> HIDE DEF b
<1>6. PICK f, w : f = buf' /\ w = wire' /\ f \in Seq(Unit) /\ w \in Seq(Unit)
  BY <1>5
<1>7. Chain(h, f, rec.got, w, pending, a, b)
  BY <1>1, <1>6
<1>8. PICK g, p : g = rec.got /\ p = pending /\ g \in Seq(Unit) /\ p \in Seq(Unit)
  BY <1>4
<1>9. Chain(h, f, g, w, p, a, b)
  BY <1>7, <1>8
<1>10. rec'.got = g /\ pending' = p
  BY <1>8
<1> QED BY <1>1, <1>2, <1>5, <1>6, <1>8, <1>9, <1>10, NumberedNow

-----------------------------------------------------------------------------
(* A unit is taken.                                                        *)
LEMMA TakeIs ==
  ASSUME Negotiated, Carried, Placed, Numbered, Take
  PROVE  \E piece :
           /\ PieceTaken(piece, buf', wire') /\ phase \in {"first", "ext", "body"}
           /\ UNCHANGED <<kind, tr, packets, pending, rec, pc>>
           /\ IF Len(piece) < Need
              THEN have' = piece /\ UNCHANGED <<dec, phase, head, size, delivered, torn>>
              ELSE /\ dec' = IF kind = "socks" THEN dec ELSE dec + Need
                   /\ IF phase = "body" THEN BodyDone(piece) ELSE HeadDone(piece) /\ UNCHANGED delivered
<1> DEFINE from == IF kind = "tls" THEN buf ELSE wire
           piece == Append(have, Head(from))
<1>1. /\ from # <<>> /\ Reading
      /\ IF kind = "tls" THEN buf' = Tail(buf) /\ UNCHANGED wire ELSE wire' = Tail(wire) /\ UNCHANGED buf
      /\ IF Len(piece) < Need
         THEN have' = piece /\ UNCHANGED <<dec, phase, head, size, delivered, torn>>
         ELSE /\ dec' = IF kind = "socks" THEN dec ELSE dec + Need
              /\ IF phase = "body" THEN BodyDone(piece) ELSE HeadDone(piece) /\ UNCHANGED delivered
  BY DEF Take
<1>2. UNCHANGED <<kind, tr, packets, pending, rec, pc>>
  BY DEF Take, route, setup
<1>3. phase \in {"first", "ext", "body"}
  BY <1>1 DEF Reading, Placed
<1>4. PieceTaken(piece, buf', wire')
  BY <1>1, TakesOne
<1> HIDE DEF piece, from
<1> QED BY <1>1, <1>2, <1>3, <1>4

LEMMA TakeSome ==
  ASSUME Negotiated, Carried, Placed, Numbered, UNCHANGED <<kind, tr, packets, pending, rec>>,
         NEW piece, PieceTaken(piece, buf', wire'), phase # "idle", Len(piece) < Need,
         have' = piece, UNCHANGED <<dec, phase, head, size, delivered, torn>>
  PROVE  Carried' /\ Placed' /\ Numbered'
<1> DEFINE a == SumTo(tr, packets, Len(delivered)) + PieceStart
<1>1. a \in Nat /\ Decoded = a /\ Typed
  BY PlaceTyped DEF Negotiated
<1>2. PieceStart' = PieceStart
  BY DEF PieceStart
<1>3. Decoded' = a
  BY <1>2, PlaceNow
<1>4. piece \in Seq(Sent) /\ Chain(piece, buf', rec.got, wire', pending, Decoded, Before(Len(packets)))
  BY DEF PieceTaken
<1>5. Chain(piece, buf', rec.got, wire', pending, a, Before(Len(packets)))
  BY <1>1, <1>4
<1>6. Placed'
  <2>1. (phase = "first" => Len(piece) < FirstRead(tr)) /\ (phase = "ext" => Len(piece) < ExtRead)
        /\ (phase = "body" => Len(piece) < BodyUnits(size))
    BY DEF Need
  <2>2. kind # "socks" => dec' = Decoded'
    BY <1>1, <1>3 DEF Placed
  <2> QED BY <2>1, <2>2 DEF Placed
<1> HIDE DEF a
<1>7. Numbered'
  BY <1>1, <1>3, <1>4, <1>5, TakenNumbered
<1>8. Carried'
  BY <1>4, TakenCarried
<1> QED BY <1>6, <1>7, <1>8

(* The piece is complete: what follows it comes next.                      *)
LEMMA TakeLast ==
  ASSUME Negotiated, Carried, Placed, UNCHANGED <<kind, tr, packets, pending, rec>>,
         NEW piece, PieceTaken(piece, buf', wire'), PieceDue(Len(delivered), piece, buf', wire'),
         have' = <<>>, Decoded' = Decoded + Need, Need \in Nat
  PROVE  Carried' /\ Numbered'
<1> DEFINE e == <<>>
           a == SumTo(tr, packets, Len(delivered)) + PieceStart + Need
<1>1. Decoded + Need = a /\ a \in Nat
  <2>1. Decoded = SumTo(tr, packets, Len(delivered)) + PieceStart /\ Decoded \in Nat
    BY PlaceTyped DEF Negotiated
  <2> QED BY <2>1
<1>2. Chain(e, buf', rec.got, wire', pending, a, Before(Len(packets)))
  BY <1>1 DEF PieceDue
<1>3. e \in Seq(Sent)
  OBVIOUS
<1>4. have' = e /\ Decoded' = a
  BY <1>1
<1>5. Carried'
  BY <1>3, <1>4, TakenCarried
<1> HIDE DEF e, a
<1> QED BY <1>1, <1>2, <1>3, <1>4, <1>5, TakenNumbered

LEMMA TakeBody ==
  ASSUME Negotiated, Carried, Placed, Numbered, UNCHANGED <<kind, tr, packets, pending, rec>>,
         NEW piece, PieceTaken(piece, buf', wire'), phase = "body", ~(Len(piece) < Need),
         dec' = IF kind = "socks" THEN dec ELSE dec + Need, BodyDone(piece)
  PROVE  Carried' /\ Placed' /\ Numbered'
<1> DEFINE D == Len(delivered)
           len == packets[D + 1]
<1>1. PieceDue(D, piece, buf', wire')
  BY PieceIsDue
<1>2. D < Len(packets) /\ D \in Nat
  BY <1>1, LenProperties DEF PieceDue, Placed
<1>3. D + 1 \in 1..Len(packets) /\ (D + 1) - 1 = D /\ Len(packets) \in Nat
  BY <1>2, LenProperties DEF Negotiated, Typed
<1>4. piece \in Seq(Sent)
  BY DEF PieceTaken
<1>5. Received(piece) = D + 1
  BY <1>1, <1>2, <1>4, NextIsReceived
<1>6. delivered' \in Seq(Nat) /\ Len(delivered') = D + 1
  <2>1. delivered \in Seq(Nat) /\ D + 1 \in Nat
    BY <1>2 DEF Placed
  <2>2. delivered' = Append(delivered, D + 1)
    BY <1>5 DEF BodyDone
  <2> QED BY <2>1, <2>2, AppendProperties
<1>7. phase' = "idle" /\ head' = <<>> /\ have' = <<>>
  BY DEF BodyDone, Return
<1>8. tr \in Transports /\ len \in Bodies[tr] /\ packets \in Seq(Bodies[tr]) /\ size = len
  <2>1. size = len
    BY DEF Placed
  <2>2. packets \in Seq(Bodies[tr])
    BY DEF Negotiated, Typed
  <2> HIDE DEF D
  <2> QED BY <1>3, <2>1, <2>2, PacketLens DEF Negotiated
<1>9. HeadLen(tr, len) \in Nat /\ BodyUnits(len) \in Nat
  <2> HIDE DEF len
  <2>1. HeadLen(tr, len) \in {1, 4}
    BY <1>8, HeadSays
  <2> QED BY <1>8, <2>1, BodyWords
<1>10. PieceStart = HeadLen(tr, len) /\ Need = BodyUnits(len)
  BY <1>8 DEF PieceStart, Need, HeadLen
<1>11. Decoded' = Decoded + Need /\ Need \in Nat
  <2>1. SumTo(tr, packets, D) \in Nat
    BY <1>2, <1>3, <1>8, SumIs
  <2>2. SumTo(tr, packets, D + 1) = SumTo(tr, packets, D) + (HeadLen(tr, len) + BodyUnits(len))
    BY <1>3, <1>8, SumIs DEF Units
  <2>3. Decoded = SumTo(tr, packets, D) + PieceStart
    BY PlaceTyped DEF Negotiated
  <2>4. PieceStart' = 0
    BY <1>7 DEF PieceStart
  <2>5. Decoded' = SumTo(tr, packets, D + 1)
    <3>1. Decoded' = SumTo(tr, packets, D + 1) + 0
      BY <1>6, <2>4, PlaceNow
    <3> QED BY <1>9, <2>1, <2>2, <3>1
  <2> HIDE DEF D, len
  <2> QED BY <1>9, <1>10, <2>1, <2>2, <2>3, <2>5
<1>12. Carried' /\ Numbered'
  BY <1>1, <1>7, <1>11, TakeLast
<1>13. Placed'
  <2>1. kind # "socks" => dec' = Decoded'
    BY <1>11 DEF Placed
  <2>2. Len(delivered') <= Len(packets')
    BY <1>3, <1>6
  <2> QED BY <1>6, <1>7, <2>1, <2>2 DEF Placed
<1> QED BY <1>12, <1>13

LEMMA TakeHead ==
  ASSUME Negotiated, Carried, Placed, Numbered, UNCHANGED <<kind, tr, packets, pending, rec>>,
         NEW piece, PieceTaken(piece, buf', wire'), phase \in {"first", "ext"}, ~(Len(piece) < Need),
         dec' = IF kind = "socks" THEN dec ELSE dec + Need, HeadDone(piece), delivered' = delivered, ~torn'
  PROVE  Carried' /\ Placed' /\ Numbered'
<1> DEFINE D == Len(delivered)
           len == packets[D + 1]
<1>1. PieceDue(D, piece, buf', wire')
  BY PieceIsDue
<1>2. D < Len(packets) /\ D \in Nat
  BY <1>1, LenProperties DEF PieceDue, Placed
<1>3. D + 1 \in 1..Len(packets) /\ Len(packets) \in Nat
  BY <1>2, LenProperties DEF Negotiated, Typed
<1>4. piece \in Seq(Sent)
  BY DEF PieceTaken
<1>5. /\ phase = "first" => head = <<>>
      /\ phase = "ext" => tr = "abridged" /\ head = <<Long>> /\ HeadLen(tr, len) = 4
  BY DEF Placed
<1>6. PieceStart = Len(head) /\ Len(head) \in Nat
  BY <1>5 DEF PieceStart, FirstRead
<1>7. HeadTaken(D, piece)
  BY <1>1, <1>5, <1>6 DEF PieceDue, HeadTaken
<1>8. tr \in Transports /\ len \in Bodies[tr] /\ packets \in Seq(Bodies[tr])
  BY <1>3, PacketLens DEF Negotiated, Typed
<1>9. SumTo(tr, packets, D) \in Nat /\ Decoded = SumTo(tr, packets, D) + PieceStart
  <2>1. D \in 0..Len(packets)
    BY <1>2, <1>3
  <2> QED BY <1>8, <2>1, SumIs, PlaceTyped DEF Negotiated
<1>10. Len(piece) = Need /\ Need \in Nat
  BY <1>1, NeedIs DEF PieceDue
<1>11. \/ phase = "first" /\ tr = "abridged" /\ HeadLen(tr, len) = 4 /\ Extended(<<Long>>)
       \/ HeadLen(tr, len) = Len(head) + Len(piece) /\ Sized(len)
  BY <1>2, <1>4, <1>7, HeadComes DEF Negotiated
<1>12. CASE phase = "first" /\ tr = "abridged" /\ HeadLen(tr, len) = 4 /\ Extended(<<Long>>)
  <2>1. phase' = "ext" /\ head' = <<Long>> /\ have' = <<>> /\ Need = 1 /\ PieceStart = 0 /\ PieceStart' = 1
    BY <1>12 DEF Extended, Need, PieceStart, FirstRead
  <2>2. Decoded' = Decoded + Need
    BY <1>9, <2>1, PlaceNow
  <2>3. Carried' /\ Numbered'
    BY <1>1, <1>10, <2>1, <2>2, TakeLast
  <2>4. kind # "socks" => dec' = Decoded'
    BY <2>2 DEF Placed
  <2>5. Len(have') < ExtRead
    BY <2>1 DEF ExtRead
  <2>6. Placed'
    BY <1>2, <1>12, <2>1, <2>4, <2>5 DEF Placed
  <2> QED BY <2>3, <2>6
<1>13. CASE HeadLen(tr, len) = Len(head) + Len(piece) /\ Sized(len)
  <2>1. Accepted(len)
    BY <1>13 DEF Sized, Return
  <2>2. phase' = "body" /\ size' = len /\ head' = <<>> /\ have' = <<>>
    BY <1>13, <2>1 DEF Sized
  <2>3. PieceStart' = HeadLen(tr, len)
    BY <2>2 DEF PieceStart, HeadLen
  <2>4. Decoded' = Decoded + Need
    BY <1>6, <1>9, <1>10, <1>13, <2>3, PlaceNow
  <2>5. Carried' /\ Numbered'
    BY <1>1, <1>10, <2>2, <2>4, TakeLast
  <2>6. kind # "socks" => dec' = Decoded'
    BY <2>4 DEF Placed
  <2>7. Len(have') < BodyUnits(size')
    <3>1. BodyUnits(len) \in Nat /\ BodyUnits(len) > 0
      BY <1>8, BodyWords
    <3>2. Len(have') = 0
      BY <2>2
    <3> QED BY <2>2, <3>1, <3>2
  <2>8. Placed'
    BY <1>2, <2>2, <2>6, <2>7 DEF Placed
  <2> QED BY <2>5, <2>8
<1> QED BY <1>11, <1>12, <1>13

LEMMA MatchedTake ==
  ASSUME Negotiated, Matched, Take
  PROVE  Matched'
<1> SUFFICES ASSUME pc' = "up", ~torn' PROVE Carried' /\ Placed' /\ Numbered'
  BY DEF Matched
<1>1. Reading /\ pc = "up"
  BY DEF Take, Reading
<1>2. ~torn
  <2>1. torn' = torn \/ torn' = (torn \/ FALSE) \/ torn' = (torn \/ TRUE)
    BY DEF Take, BodyDone, HeadDone, Sized, Extended, Return
  <2> QED BY <2>1
<1>3. Carried /\ Placed /\ Numbered
  BY <1>1, <1>2 DEF Matched
<1>4. PICK piece :
           /\ PieceTaken(piece, buf', wire') /\ phase \in {"first", "ext", "body"}
           /\ UNCHANGED <<kind, tr, packets, pending, rec, pc>>
           /\ IF Len(piece) < Need
              THEN have' = piece /\ UNCHANGED <<dec, phase, head, size, delivered, torn>>
              ELSE /\ dec' = IF kind = "socks" THEN dec ELSE dec + Need
                   /\ IF phase = "body" THEN BodyDone(piece) ELSE HeadDone(piece) /\ UNCHANGED delivered
  BY <1>3, TakeIs
<1>5. CASE Len(piece) < Need
  BY <1>3, <1>4, <1>5, TakeSome
<1>6. CASE ~(Len(piece) < Need) /\ phase = "body"
  BY <1>3, <1>4, <1>6, TakeBody
<1>7. CASE ~(Len(piece) < Need) /\ phase # "body"
  BY <1>3, <1>4, <1>7, TakeHead
<1> QED BY <1>5, <1>6, <1>7

-----------------------------------------------------------------------------
(* A call begins, gives up, or reads on in a record.                       *)
LEMMA PlacedStill ==
  ASSUME Negotiated, Placed, UNCHANGED <<kind, tr, packets, delivered, dec, have>>,
         \/ UNCHANGED <<phase, head, size>>
         \/ phase = "idle" /\ phase' = "first" /\ UNCHANGED head
         \/ phase = "first" /\ have = <<>> /\ phase' = "idle" /\ head' = <<>>
  PROVE  Placed' /\ Decoded' = Decoded /\ (Before(Len(packets)))' = Before(Len(packets))
<1>1. PieceStart' = PieceStart
  BY DEF PieceStart
<1>2. Decoded' = Decoded /\ (Before(Len(packets)))' = Before(Len(packets))
  <2>1. /\ Decoded = SumTo(tr, packets, Len(delivered)) + PieceStart
        /\ Before(Len(packets)) = SumTo(tr, packets, Len(packets))
    BY PlaceTyped DEF Negotiated
  <2> QED BY <1>1, <2>1, PlaceNow
<1>3. kind # "socks" => dec' = Decoded'
  BY <1>2 DEF Placed
<1>4. phase = "idle" => Len(have) < FirstRead(tr)
  <2> SUFFICES ASSUME phase = "idle" PROVE Len(have) < FirstRead(tr)
    OBVIOUS
  <2>1. have = <<>>
    BY DEF Placed
  <2>2. Len(have) = 0
    BY <2>1
  <2> QED BY <2>2 DEF FirstRead
<1>5. Placed'
  <2>1. CASE UNCHANGED <<phase, head, size>>
    BY <1>3, <2>1 DEF Placed
  <2>2. CASE phase = "idle" /\ phase' = "first" /\ UNCHANGED head
    BY <1>3, <1>4, <2>2 DEF Placed
  <2>3. CASE phase = "first" /\ have = <<>> /\ phase' = "idle" /\ head' = <<>>
    BY <1>3, <2>3 DEF Placed
  <2> QED BY <2>1, <2>2, <2>3
<1> QED BY <1>2, <1>5

LEMMA ExpectedStill ==
  ASSUME tr' = tr, packets' = packets
  PROVE  \A q, w : Expected(q, w)' <=> Expected(q, w)
<1>1. Sent' = Sent
  BY SameStream
<1> QED BY <1>1 DEF Expected

LEMMA CarriedStill ==
  ASSUME Carried, UNCHANGED <<kind, tr, packets, have, buf, pending, wire, rec>>
  PROVE  Carried'
<1>1. Sent' = Sent /\ OnWire' = OnWire /\ Reads' = Reads
  BY SameStream
<1>2. Expected(rec, wire)' <=> Expected(rec, wire)
  BY <1>1 DEF Expected
<1> QED BY <1>1, <1>2 DEF Carried

LEMMA MatchedRecv ==
  ASSUME Negotiated, Matched, Recv
  PROVE  Matched'
<1> SUFFICES ASSUME pc' = "up", ~torn' PROVE Carried' /\ Placed' /\ Numbered'
  BY DEF Matched
<1>1. /\ phase = "idle" /\ phase' = "first" /\ pc = "up"
      /\ UNCHANGED <<kind, tr, packets, wire, pending, rec, buf, dec, head, have, delivered, torn>>
  BY DEF Recv, route, far
<1>2. Carried /\ Placed /\ Numbered
  BY <1>1 DEF Matched
<1>3. Placed' /\ Decoded' = Decoded /\ (Before(Len(packets)))' = Before(Len(packets))
  BY <1>1, <1>2, PlacedStill
<1>4. Carried'
  BY <1>1, <1>2, CarriedStill
<1>5. Line' = Line
  BY <1>1 DEF Line
<1> QED BY <1>2, <1>3, <1>4, <1>5 DEF Numbered

LEMMA MatchedTimeOut ==
  ASSUME Negotiated, Matched, TimeOut
  PROVE  Matched'
<1> SUFFICES ASSUME pc' = "up", ~torn' PROVE Carried' /\ Placed' /\ Numbered'
  BY DEF Matched
<1>1. /\ pc = "up" /\ phase' = "idle" /\ head' = <<>> /\ have' = <<>> /\ rec' = NoRecord
      /\ torn' = (torn \/ (phase # "first" \/ have # <<>> \/ rec.at # "type"))
      /\ UNCHANGED <<kind, tr, packets, wire, pending, buf, dec, delivered>>
  BY DEF TimeOut, Reading, Abandon, Return, route, far
<1>2. ~torn /\ phase = "first" /\ have = <<>> /\ rec.at = "type"
  BY <1>1
<1>3. Carried /\ Placed /\ Numbered
  BY <1>1, <1>2 DEF Matched
<1>4. rec = NoRecord
  <2>1. CASE kind = "tls"
    BY <1>2, <1>3, <2>1 DEF Carried, Expected
  <2>2. CASE kind # "tls"
    BY <2>2 DEF Negotiated, Quiet
  <2> QED BY <2>1, <2>2
<1>5. Placed' /\ Decoded' = Decoded /\ (Before(Len(packets)))' = Before(Len(packets))
  BY <1>1, <1>2, <1>3, PlacedStill
<1>6. Carried'
  BY <1>1, <1>2, <1>3, <1>4, CarriedStill
<1>7. Line' = Line
  BY <1>1, <1>2, <1>4 DEF Line
<1> QED BY <1>3, <1>5, <1>6, <1>7 DEF Numbered

(* Where the unit that has been read goes.                                 *)
Shifted ==
  \/ buf' = <<>> /\ rec'.got = Append(rec.got, Head(wire))
  \/ buf' = Append(rec.got, Head(wire)) /\ rec'.got = <<>>
  \/ buf' = <<>> /\ rec'.got = rec.got /\ ~IsData(Head(wire))
  \/ buf' = <<>> /\ rec'.got = <<>> /\ Hollow(Append(rec.got, Head(wire)))

ReadOn ==
  /\ kind = "tls" /\ buf = <<>> /\ wire # <<>> /\ wire' = Tail(wire)
  /\ UNCHANGED <<kind, tr, packets, pending>>
  /\ rec' \in Reads /\ Expected(rec', Tail(wire)) /\ buf' \in Seq(Sent) /\ (buf' # <<>> => rec' = NoRecord)
  /\ Shifted

GaveUp ==
  /\ phase' = "idle" /\ head' = <<>> /\ size' = 0 /\ have' = <<>> /\ UNCHANGED <<dec, delivered>>
  /\ torn' = (torn \/ (phase # "first" \/ have # <<>>))

LEMMA NoRecordReads == NoRecord \in Reads /\ NoRecord.got = <<>>
<1>1. <<>> \in Seq(OnWire)
  OBVIOUS
<1> QED BY <1>1 DEF NoRecord, Reads, RecordTypes

LEMMA ChainOf ==
  ASSUME NEW h, NEW f, NEW g, NEW w, NEW p, NEW a, NEW b,
         NEW m1 \in Nat, NEW m2 \in Nat, NEW m3 \in Nat, NEW m4 \in Nat,
         Runs(h, a, m1), Runs(f, m1, m2), Runs(g, m2, m3), Runs(w, m3, m4), Runs(p, m4, b)
  PROVE  Chain(h, f, g, w, p, a, b)
BY DEF Chain

LEMMA ShiftedChain ==
  ASSUME Negotiated, Carried, Placed, Numbered, ReadOn
  PROVE  Chain(have, buf', rec'.got, Tail(wire), pending, Decoded, Before(Len(packets)))
<1> DEFINE a == Decoded
           b == Before(Len(packets))
           g == rec.got
           x == Append(g, Head(wire))
<1>1. a \in Nat /\ b \in Nat
  BY PlaceTyped DEF Negotiated
<1>2. Chain(have, buf, g, wire, pending, a, b)
  BY NumberedChain
<1>3. g \in Seq(Unit) /\ wire \in Seq(Unit) /\ wire # <<>> /\ buf = <<>>
  BY PartsTyped DEF ReadOn
<1> HIDE DEF a, b, g
<1>4. PICK m1 \in Nat, m2 \in Nat, m3 \in Nat, m4 \in Nat :
        Runs(have, a, m1) /\ Runs(buf, m1, m2) /\ Runs(g, m2, m3) /\ Runs(wire, m3, m4) /\ Runs(pending, m4, b)
  BY <1>2 DEF Chain
<1>5. Runs(<<>>, m1, m2) /\ m1 = m2
  BY <1>3, <1>4, RunsNothing
<1>6. /\ x \in Seq(Unit)
      /\ \E n \in Nat : Runs(x, m2, n) /\ Runs(Tail(wire), n, m4)
      /\ ~IsData(Head(wire)) => Runs(Tail(wire), m3, m4)
  BY <1>3, <1>4, RunsShift
<1>7. PICK n \in Nat : Runs(x, m2, n) /\ Runs(Tail(wire), n, m4)
  BY <1>6
<1>8. \A i \in Nat : Runs(<<>>, i, i)
  BY RunsNone
<1> HIDE DEF x
<1>9. CASE buf' = <<>> /\ rec'.got = x
  <2>1. Runs(buf', m1, m1) /\ Runs(rec'.got, m1, n)
    BY <1>5, <1>7, <1>8, <1>9
  <2> QED BY <1>4, <1>7, <2>1, ChainOf DEF a, b
<1>10. CASE buf' = x /\ rec'.got = <<>>
  <2>1. Runs(buf', m1, n) /\ Runs(rec'.got, n, n)
    BY <1>5, <1>7, <1>8, <1>10
  <2> QED BY <1>4, <1>7, <2>1, ChainOf DEF a, b
<1>11. CASE buf' = <<>> /\ rec'.got = g /\ ~IsData(Head(wire))
  <2>1. Runs(buf', m1, m1) /\ Runs(rec'.got, m1, m3)
    BY <1>4, <1>5, <1>8, <1>11
  <2> QED BY <1>4, <1>6, <1>11, <2>1, ChainOf DEF a, b
<1>12. CASE buf' = <<>> /\ rec'.got = <<>> /\ Hollow(x)
  <2>1. n = m2
    BY <1>6, <1>7, <1>12, HollowRuns
  <2>2. Runs(buf', m1, m1) /\ Runs(rec'.got, m1, m1) /\ Runs(Tail(wire), m1, m4)
    BY <1>5, <1>7, <1>8, <1>12, <2>1
  <2> QED BY <1>4, <2>2, ChainOf DEF a, b
<1> QED BY <1>9, <1>10, <1>11, <1>12 DEF ReadOn, Shifted, x, g

LEMMA MatchedReadOn ==
  ASSUME Negotiated, Carried, Placed, Numbered, ReadOn, UNCHANGED <<dec, decoder>> \/ GaveUp, ~torn'
  PROVE  Carried' /\ Placed' /\ Numbered'
<1>1. /\ kind = "tls" /\ wire # <<>> /\ wire' = Tail(wire) /\ UNCHANGED <<kind, tr, packets, pending>>
      /\ rec' \in Reads /\ Expected(rec', Tail(wire)) /\ buf' \in Seq(Sent) /\ (buf' # <<>> => rec' = NoRecord)
  BY DEF ReadOn
<1>2. /\ have' = have /\ UNCHANGED <<delivered, dec>>
      /\ \/ UNCHANGED <<phase, head, size>>
         \/ phase = "first" /\ have = <<>> /\ phase' = "idle" /\ head' = <<>>
  BY DEF GaveUp, decoder
<1>3. Placed' /\ Decoded' = Decoded /\ (Before(Len(packets)))' = Before(Len(packets))
  BY <1>1, <1>2, PlacedStill
<1>4. Sent' = Sent /\ OnWire' = OnWire /\ Reads' = Reads
  BY <1>1, SameStream
<1>5. have \in Seq(Sent) /\ pending \in Seq(Sent) /\ wire \in Seq(OnWire) /\ Cut(wire)
  BY <1>1 DEF Carried
<1>6. Tail(wire) \in Seq(OnWire) /\ Cut(Tail(wire))
  BY <1>1, <1>5, CutTail, Uncons
<1>7. Expected(rec, wire)'
  <2>1. PICK q, w : q = rec' /\ w = wire' /\ Expected(q, w)
    BY <1>1
  <2>2. Expected(q, w)'
    BY <1>1, <2>1, ExpectedStill
  <2> QED BY <2>1, <2>2 DEF Expected
<1>8. Carried'
  <2>1. have' \in Seq(Sent) /\ pending' \in Seq(Sent) /\ wire' \in Seq(OnWire) /\ Cut(wire') /\ kind' = "tls"
    BY <1>1, <1>2, <1>5, <1>6
  <2> QED BY <1>1, <1>4, <1>7, <2>1 DEF Carried
<1>9. Numbered'
  <2> DEFINE a == SumTo(tr, packets, Len(delivered)) + PieceStart
             b == SumTo(tr, packets, Len(packets))
  <2>1. a = Decoded /\ b = Before(Len(packets)) /\ a \in Nat /\ b \in Nat
    BY PlaceTyped DEF Negotiated
  <2>2. Chain(have, buf', rec'.got, Tail(wire), pending, a, b)
    BY <2>1, ShiftedChain
  <2>3. have \in Seq(Unit) /\ pending \in Seq(Unit) /\ Tail(wire) \in Seq(Unit)
    BY <1>5, <1>6, PartsTyped, OnWireIs, SeqWider
  <2>4. buf' \in Seq(Unit) /\ rec'.got \in Seq(Unit)
    <3>1. rec'.got \in Seq(OnWire)
      BY <1>1 DEF Reads
    <3> QED BY <1>1, <3>1, OnWireIs, SentIsSolid, SeqWider
  <2> HIDE DEF a, b
  <2>5. PICK h, f, g, w, p : h = have /\ f = buf' /\ g = rec'.got /\ w = Tail(wire) /\ p = pending
    OBVIOUS
  <2>6. h \in Seq(Unit) /\ f \in Seq(Unit) /\ g \in Seq(Unit) /\ w \in Seq(Unit) /\ p \in Seq(Unit)
    BY <2>3, <2>4, <2>5
  <2>7. Chain(h, f, g, w, p, a, b)
    BY <2>2, <2>5
  <2>8. have' = h /\ buf' = f /\ rec'.got = g /\ wire' = w /\ pending' = p
    BY <1>1, <1>2, <2>5
  <2>9. Decoded' = a /\ (Before(Len(packets)))' = b
    BY <1>3, <2>1
  <2> QED BY <2>1, <2>6, <2>7, <2>8, <2>9, NumberedNow
<1> QED BY <1>3, <1>8, <1>9

(* What ReadRecord does with the bytes of a record.                        *)
LEMMA RecordRead ==
  ASSUME Negotiated, Carried, ReadRecord
  PROVE  ReadOn /\ (UNCHANGED <<dec, decoder>> \/ GaveUp)
<1>1. /\ kind = "tls" /\ buf = <<>> /\ wire # <<>> /\ wire' = Tail(wire)
      /\ UNCHANGED <<kind, tr, packets, pending>>
  BY DEF ReadRecord, route
<1>2. wire \in Seq(OnWire) /\ rec \in Reads /\ Expected(rec, wire) /\ Cut(wire)
  BY <1>1 DEF Carried
<1>3. buf \in Seq(Sent) /\ <<>> \in Seq(Sent)
  BY DEF Carried
<1>4. rec.at \in {"type", "len", "body"}
  BY <1>2 DEF Reads
<1>5. CASE rec.at = "type"
  <2>1. /\ rec = NoRecord /\ Head(wire).of = "type" /\ Head(wire).val \in RecordTypes
        /\ Expected([rec EXCEPT !.at = "len", !.type = Head(wire).val], Tail(wire))
    BY <1>1, <1>2, <1>5, ExpectedType
  <2>2. rec' = [rec EXCEPT !.at = "len", !.type = Head(wire).val] /\ UNCHANGED <<buf, dec, decoder>>
    BY <1>5, <2>1 DEF ReadRecord
  <2>3. rec' \in Reads /\ rec'.got = rec.got
    BY <1>2, <2>1, <2>2 DEF Reads
  <2>4. ~IsData(Head(wire))
    BY <2>1 DEF IsData
  <2>5. Shifted
    BY <1>1, <2>2, <2>3, <2>4 DEF Shifted
  <2> QED BY <1>1, <1>3, <2>1, <2>2, <2>3, <2>5 DEF ReadOn
<1>6. CASE rec.at = "len"
  <2>1. /\ Head(wire).of = "len" /\ Head(wire).val \in Nat /\ rec.got = <<>> /\ rec.type \in RecordTypes
        /\ Head(wire).val = 0 => Expected(NoRecord, Tail(wire))
        /\ Head(wire).val # 0 => Expected([rec EXCEPT !.at = "body", !.left = Head(wire).val], Tail(wire))
    BY <1>2, <1>6, ExpectedLen
  <2>2. IF Head(wire).val = 0 THEN RecordDone(rec.type, <<>>)
        ELSE rec' = [rec EXCEPT !.at = "body", !.left = Head(wire).val] /\ UNCHANGED <<buf, dec, decoder>>
    BY <1>6, <2>1 DEF ReadRecord
  <2>3. ~IsData(Head(wire))
    BY <2>1 DEF IsData
  <2>4. CASE Head(wire).val = 0
    <3>1. rec' = NoRecord /\ buf' = <<>> /\ (UNCHANGED <<dec, decoder>> \/ GaveUp)
      BY <1>1, <2>2, <2>4 DEF RecordDone, Abandon, Return, GaveUp
    <3>2. Shifted
      BY <2>1, <2>3, <3>1, NoRecordReads DEF Shifted
    <3> QED BY <1>1, <1>3, <2>1, <2>4, <3>1, <3>2, NoRecordReads DEF ReadOn
  <2>5. CASE Head(wire).val # 0
    <3>1. rec' = [rec EXCEPT !.at = "body", !.left = Head(wire).val] /\ UNCHANGED <<buf, dec, decoder>>
      BY <2>2, <2>5
    <3>2. rec' \in Reads /\ rec'.got = rec.got
      BY <1>2, <2>1, <3>1 DEF Reads
    <3>3. Shifted
      BY <1>1, <2>3, <3>1, <3>2 DEF Shifted
    <3> QED BY <1>1, <1>3, <2>1, <2>5, <3>1, <3>2, <3>3 DEF ReadOn
  <2> QED BY <2>4, <2>5
<1>7. CASE rec.at = "body"
  <2> DEFINE x == Append(rec.got, Head(wire))
  <2>1. /\ rec.type \in RecordTypes /\ rec.left \in Nat \ {0}
        /\ x \in Seq(IF rec.type = "app" THEN Sent ELSE FrameUnit)
        /\ rec.left = 1 => Expected(NoRecord, Tail(wire))
        /\ rec.left # 1 => Expected([rec EXCEPT !.left = @ - 1, !.got = Append(@, Head(wire))], Tail(wire))
    BY <1>2, <1>7, ExpectedBody
  <2>2. IF rec.left = 1 THEN RecordDone(rec.type, x)
        ELSE /\ rec' = [rec EXCEPT !.left = @ - 1, !.got = Append(@, Head(wire))]
             /\ UNCHANGED <<buf, dec, decoder>>
    BY <1>7 DEF ReadRecord
  <2>3. CASE rec.left = 1
    <3>1. CASE rec.type = "app"
      <4>1. rec' = NoRecord /\ buf' = x /\ UNCHANGED <<dec, decoder>> /\ x \in Seq(Sent)
        BY <2>1, <2>2, <2>3, <3>1 DEF RecordDone
      <4>2. Shifted
        BY <4>1, NoRecordReads DEF Shifted
      <4> QED BY <1>1, <2>1, <2>3, <4>1, <4>2, NoRecordReads DEF ReadOn
    <3>2. CASE rec.type # "app"
      <4>1. rec' = NoRecord /\ buf' = <<>> /\ (UNCHANGED <<dec, decoder>> \/ GaveUp)
        BY <1>1, <2>2, <2>3, <3>2 DEF RecordDone, Abandon, Return, GaveUp
      <4>2. x \in Seq(FrameUnit)
        BY <2>1, <3>2
      <4>3. Hollow(x)
        <5> HIDE DEF x
        <5> QED BY <4>2, FrameIsHollow
      <4>4. Shifted
        BY <4>1, <4>3, NoRecordReads DEF Shifted
      <4> QED BY <1>1, <1>3, <2>1, <2>3, <4>1, <4>4, NoRecordReads DEF ReadOn
    <3> QED BY <3>1, <3>2
  <2>4. CASE rec.left # 1
    <3>1. /\ rec' = [rec EXCEPT !.left = @ - 1, !.got = Append(@, Head(wire))]
          /\ UNCHANGED <<buf, dec, decoder>>
      BY <2>2, <2>4
    <3>2. x \in Seq(OnWire)
      <4> HIDE DEF x
      <4> QED BY <2>1, SentIsSolid, FrameIsHollow
    <3>3. rec' \in Reads /\ rec'.got = x
      <4>1. rec.left - 1 \in Nat
        BY <2>1
      <4> QED BY <1>2, <3>1, <3>2, <4>1 DEF Reads
    <3>4. Shifted
      BY <1>1, <3>1, <3>3 DEF Shifted
    <3> QED BY <1>1, <1>3, <2>1, <2>4, <3>1, <3>3, <3>4 DEF ReadOn
  <2> QED BY <2>3, <2>4
<1> QED BY <1>4, <1>5, <1>6, <1>7

LEMMA MatchedReadRecord ==
  ASSUME Negotiated, Matched, ReadRecord
  PROVE  Matched'
<1> SUFFICES ASSUME pc' = "up", ~torn' PROVE Carried' /\ Placed' /\ Numbered'
  BY DEF Matched
<1>1. pc = "up"
  BY DEF ReadRecord, Reading
<1>2. ~torn
  <2>1. torn' = torn \/ torn' = (torn \/ (phase # "first" \/ have # <<>> \/ FALSE))
    BY DEF ReadRecord, RecordDone, Abandon, Return, decoder
  <2> QED BY <2>1
<1>3. Carried /\ Placed /\ Numbered
  BY <1>1, <1>2 DEF Matched
<1> QED BY <1>3, RecordRead, MatchedReadOn

-----------------------------------------------------------------------------
(* The far side cuts a record out of what it has sent, or fills one in.    *)
Yields(p, units, q) == \A a, b \in Nat : Runs(p, a, b) => \E n \in Nat : Runs(units, a, n) /\ Runs(q, n, b)

LEMMA RecordPut ==
  ASSUME Negotiated, Carried, Placed, Numbered, kind = "tls", UNCHANGED <<kind, tr, packets, reader>>,
         NEW type \in RecordTypes, NEW units, IF type = "app" THEN units \in Seq(Sent) ELSE units \in Seq(Pads),
         NEW q \in Seq(Sent), wire' = wire \o Record(type, units), pending' = q, Yields(pending, units, q)
  PROVE  Carried' /\ Placed' /\ Numbered'
<1> DEFINE r == Record(type, units)
           v == wire \o r
<1>1. r \in Seq(OnWire) /\ r # <<>> /\ r[1].of = "type" /\ Cut(r) /\ units \in Seq(Unit)
      /\ \A a, b \in Nat : Runs(units, a, b) => Runs(r, a, b)
  BY RecordIs
<1>2. UNCHANGED <<have, buf, rec, delivered, dec, phase, head, size, torn>>
  BY DEF reader, decoder
<1>3. Placed' /\ Decoded' = Decoded /\ (Before(Len(packets)))' = Before(Len(packets))
  BY <1>2, PlacedStill
<1>4. Sent' = Sent /\ OnWire' = OnWire /\ Reads' = Reads
  BY SameStream
<1>5. /\ have \in Seq(Sent) /\ buf \in Seq(Sent) /\ wire \in Seq(OnWire) /\ Cut(wire)
      /\ rec \in Reads /\ Expected(rec, wire) /\ (buf # <<>> => rec = NoRecord)
  BY DEF Carried
<1> HIDE DEF r
<1>6. v \in Seq(OnWire) /\ Cut(v) /\ Expected(rec, v)
  BY <1>1, <1>5, CutMore, ExpectedMore, ConcatLen
<1>7. wire' = v
  BY DEF r
<1> HIDE DEF v
<1>8. Carried'
  <2>1. PICK c, w : c = rec /\ w = v /\ Expected(c, w)
    BY <1>6
  <2>2. Expected(c, w)'
    BY <2>1, ExpectedStill
  <2>3. Expected(rec, wire)'
    BY <1>2, <1>7, <2>1, <2>2 DEF Expected
  <2> QED BY <1>2, <1>4, <1>5, <1>6, <1>7, <2>3 DEF Carried
<1>9. Numbered'
  <2> DEFINE a == SumTo(tr, packets, Len(delivered)) + PieceStart
             b == SumTo(tr, packets, Len(packets))
  <2>1. a = Decoded /\ b = Before(Len(packets)) /\ a \in Nat /\ b \in Nat
    BY PlaceTyped DEF Negotiated
  <2>2. Chain(have, buf, rec.got, wire, pending, a, b)
    BY <2>1, NumberedChain
  <2>3. have \in Seq(Unit) /\ buf \in Seq(Unit) /\ rec.got \in Seq(Unit) /\ wire \in Seq(Unit)
    BY PartsTyped
  <2> HIDE DEF a, b
  <2>4. PICK m1 \in Nat, m2 \in Nat, m3 \in Nat, m4 \in Nat :
          Runs(have, a, m1) /\ Runs(buf, m1, m2) /\ Runs(rec.got, m2, m3) /\ Runs(wire, m3, m4) /\ Runs(pending, m4, b)
    BY <2>2 DEF Chain
  <2>5. PICK n \in Nat : Runs(units, m4, n) /\ Runs(q, n, b)
    BY <2>1, <2>4 DEF Yields
  <2>6. r \in Seq(Unit) /\ v \in Seq(Unit) /\ q \in Seq(Unit)
    BY <1>1, <1>6, OnWireIs, SentIsSolid, SeqWider
  <2>7. Runs(v, m3, n)
    <3>1. Runs(r, m4, n)
      BY <1>1, <2>5
    <3> QED BY <2>3, <2>4, <2>6, <3>1, RunsConcat DEF v
  <2>8. Chain(have, buf, rec.got, v, q, a, b)
    BY <2>4, <2>5, <2>7, ChainOf
  <2>9. PICK h, f, g, w : h = have /\ f = buf /\ g = rec.got /\ w = v
    OBVIOUS
  <2>10. h \in Seq(Unit) /\ f \in Seq(Unit) /\ g \in Seq(Unit) /\ w \in Seq(Unit)
    BY <2>3, <2>6, <2>9
  <2>11. Chain(h, f, g, w, q, a, b)
    BY <2>8, <2>9
  <2>12. have' = h /\ buf' = f /\ rec'.got = g /\ wire' = w /\ pending' = q
    BY <1>2, <1>7, <2>9
  <2>13. Decoded' = a /\ (Before(Len(packets)))' = b
    BY <1>3, <2>1
  <2> QED BY <2>1, <2>6, <2>10, <2>11, <2>12, <2>13, NumberedNow
<1> QED BY <1>3, <1>8, <1>9

LEMMA SplitAt ==
  ASSUME NEW T, NEW s \in Seq(T), NEW m \in 1..Len(s)
  PROVE  /\ SubSeq(s, 1, m) \in Seq(T) /\ SubSeq(s, m + 1, Len(s)) \in Seq(T)
         /\ SubSeq(s, 1, m) \o SubSeq(s, m + 1, Len(s)) = s
<1> DEFINE x == SubSeq(s, 1, m)
           y == SubSeq(s, m + 1, Len(s))
           z == x \o y
<1>1. Len(s) \in Nat /\ \A i \in 1..Len(s) : s[i] \in T
  BY LenProperties, ElementOfSeq
<1>2. x \in Seq(T) /\ Len(x) = m /\ \A i \in 1..m : x[i] = s[i]
  <2>1. \A i \in 1..m : s[i] \in T
    BY <1>1
  <2> QED BY <1>1, <2>1, SubSeqProperties
<1>3. y \in Seq(T) /\ Len(y) = Len(s) - m /\ \A i \in 1..(Len(s) - m) : y[i] = s[m + i]
  <2>1. CASE m < Len(s)
    <3>1. \A i \in (m + 1)..Len(s) : s[i] \in T
      BY <1>1
    <3>2. y \in Seq(T) /\ Len(y) = Len(s) - (m + 1) + 1
          /\ \A i \in 1..(Len(s) - (m + 1) + 1) : y[i] = s[(m + 1) + i - 1]
      BY <1>1, <2>1, <3>1, SubSeqProperties
    <3> HIDE DEF y
    <3>3. Len(s) - (m + 1) + 1 = Len(s) - m /\ \A i \in Nat : (m + 1) + i - 1 = m + i
      BY <1>1
    <3> QED BY <1>1, <3>2, <3>3
  <2>2. CASE ~(m < Len(s))
    <3>1. m = Len(s)
      BY <1>1, <2>2
    <3>2. y = <<>>
      BY <1>1, <3>1, SubSeqEmpty
    <3> QED BY <1>1, <3>1, <3>2
  <2> QED BY <2>1, <2>2
<1> HIDE DEF x, y
<1>4. z \in Seq(T) /\ Len(z) = Len(s)
  <2>1. z \in Seq(T) /\ Len(z) = Len(x) + Len(y)
    BY <1>2, <1>3, ConcatLen
  <2> HIDE DEF z
  <2> QED BY <1>1, <1>2, <1>3, <2>1
<1>5. \A i \in 1..Len(s) : z[i] = s[i]
  <2> SUFFICES ASSUME NEW i \in 1..Len(s) PROVE z[i] = s[i]
    OBVIOUS
  <2>0. z[i] = IF i <= Len(x) THEN x[i] ELSE y[i - Len(x)]
    <3>1. i \in 1..(Len(x) + Len(y))
      BY <1>1, <1>2, <1>3
    <3> QED BY <1>2, <1>3, <3>1, ConcatProperties
  <2>1. CASE i <= m
    BY <1>1, <1>2, <2>0, <2>1
  <2>2. CASE ~(i <= m)
    <3>1. i - m \in 1..(Len(s) - m) /\ m + (i - m) = i
      BY <1>1, <2>2
    <3> QED BY <1>2, <1>3, <2>0, <2>2, <3>1
  <2> QED BY <2>1, <2>2
<1>6. z = s
  BY <1>4, <1>5, SeqEqual
<1> QED BY <1>2, <1>3, <1>6 DEF x, y

LEMMA MatchedCuts ==
  ASSUME Negotiated, Matched, NEW n \in Cuts, ServerCuts(n)
  PROVE  Matched'
<1> SUFFICES ASSUME pc' = "up", ~torn' PROVE Carried' /\ Placed' /\ Numbered'
  BY DEF Matched
<1>1. pc = "up" /\ kind = "tls" /\ UNCHANGED <<route, packets, reader, setup>>
  BY NegotiatedCuts
<1>2. Carried /\ Placed /\ Numbered
  BY <1>1 DEF Matched, reader, decoder
<1> DEFINE m == IF n < Len(pending) THEN n ELSE Len(pending)
           x == SubSeq(pending, 1, m)
           y == SubSeq(pending, m + 1, Len(pending))
<1>3. pending \in Seq(Sent) /\ pending # <<>> /\ wire' = wire \o Record("app", x) /\ pending' = y
  BY <1>2 DEF Carried, ServerCuts, Put
<1>4. m \in 1..Len(pending)
  <2>1. n \in Nat \ {0}
    BY TunnelAssumption
  <2>2. Len(pending) \in Nat \ {0}
    BY <1>3, LenProperties, EmptySeq
  <2> QED BY <2>1, <2>2
<1> HIDE DEF m
<1>5. x \in Seq(Sent) /\ y \in Seq(Sent) /\ x \o y = pending
  BY <1>3, <1>4, SplitAt
<1> HIDE DEF x, y
<1>6. Yields(pending, x, y)
  <2>1. x \in Seq(Unit) /\ y \in Seq(Unit)
    BY <1>5, SentIsSolid
  <2>2. ASSUME NEW a \in Nat, NEW b \in Nat, Runs(pending, a, b)
        PROVE  \E j \in Nat : Runs(x, a, j) /\ Runs(y, j, b)
    <3>1. Runs(x \o y, a, b)
      BY <1>5, <2>2
    <3> QED BY <2>1, <3>1, RunsSplit
  <2> QED BY <2>2 DEF Yields
<1>7. PICK u, q : u = x /\ q = y
  OBVIOUS
<1>8. u \in Seq(Sent) /\ q \in Seq(Sent) /\ wire' = wire \o Record("app", u) /\ pending' = q /\ Yields(pending, u, q)
  BY <1>3, <1>5, <1>6, <1>7
<1>9. "app" \in RecordTypes /\ UNCHANGED <<kind, tr, packets, reader>>
  BY <1>1 DEF RecordTypes, route
<1> QED BY <1>1, <1>2, <1>8, <1>9, RecordPut

LEMMA MatchedFills ==
  ASSUME Negotiated, Matched, NEW type \in {"app", "ccs", "alert"}, ServerFills(type)
  PROVE  Matched'
<1> SUFFICES ASSUME pc' = "up", ~torn' PROVE Carried' /\ Placed' /\ Numbered'
  BY DEF Matched
<1>1. pc = "up" /\ kind = "tls" /\ UNCHANGED <<route, packets, reader, setup>>
  BY NegotiatedCuts
<1>2. Carried /\ Placed /\ Numbered
  BY <1>1 DEF Matched, reader, decoder
<1> DEFINE units == IF type = "app" THEN <<>> ELSE <<[of |-> "pad"]>>
<1>3. wire' = wire \o Record(type, units) /\ pending' = pending /\ pending \in Seq(Sent)
  BY <1>2 DEF ServerFills, Put, Carried
<1>4. /\ IF type = "app" THEN units \in Seq(Sent) ELSE units \in Seq(Pads)
      /\ units \in Seq(FrameUnit)
  <2>1. [of |-> "pad"] \in Pads /\ [of |-> "pad"] \in FrameUnit
    BY DEF Pads, FrameUnit
  <2>2. <<>> \in Seq(Sent) /\ <<>> \in Seq(FrameUnit)
    OBVIOUS
  <2>3. <<[of |-> "pad"]>> \in Seq(Pads) /\ <<[of |-> "pad"]>> \in Seq(FrameUnit)
    BY <2>1, One
  <2> QED BY <2>2, <2>3
<1> HIDE DEF units
<1>5. Yields(pending, units, pending)
  <2>1. \A a \in Nat : Runs(units, a, a)
    BY <1>4, FrameIsHollow, HollowRuns
  <2> QED BY <2>1 DEF Yields
<1>6. PICK q : q = pending
  OBVIOUS
<1>7. q \in Seq(Sent) /\ pending' = q /\ Yields(pending, units, q)
  BY <1>3, <1>5, <1>6
<1>8. type \in RecordTypes /\ UNCHANGED <<kind, tr, packets, reader>>
  BY <1>1 DEF RecordTypes, route
<1> QED BY <1>1, <1>2, <1>3, <1>4, <1>7, <1>8, RecordPut

-----------------------------------------------------------------------------
(* The far side sends a packet: the stream goes on where it ended.         *)
Grows(len) == packets' = Append(packets, len) /\ tr' = tr

LEMMA StreamGrows ==
  ASSUME Typed, NEW len \in Bodies[tr], Grows(len)
  PROVE  /\ packets' \in Seq(Bodies[tr]) /\ Len(packets') = Len(packets) + 1 /\ Len(packets) \in Nat
         /\ packets'[Len(packets) + 1] = len /\ \A i \in 1..Len(packets) : packets'[i] = packets[i]
         /\ \A i \in 0..Len(packets) : SumTo(tr, packets', i) = SumTo(tr, packets, i)
         /\ SumTo(tr, packets', Len(packets) + 1) = SumTo(tr, packets, Len(packets)) + Units(tr, len)
<1>1. tr \in Transports /\ packets \in Seq(Bodies[tr]) /\ packets' = Append(packets, len) /\ Len(packets) \in Nat
  BY LenProperties DEF Typed, Grows
<1>2. PICK ps : ps = packets /\ ps \in Seq(Bodies[tr])
  BY <1>1
<1>3. PICK qs : qs = Append(ps, len)
  OBVIOUS
<1>4. qs \in Seq(Bodies[tr]) /\ Len(qs) = Len(ps) + 1 /\ qs[Len(ps) + 1] = len /\ \A i \in 1..Len(ps) : qs[i] = ps[i]
  BY <1>2, <1>3, AppendProperties
<1>5. /\ \A i \in 0..Len(ps) : SumTo(tr, qs, i) = SumTo(tr, ps, i)
      /\ SumTo(tr, qs, Len(ps) + 1) = SumTo(tr, ps, Len(ps)) + Units(tr, len)
  BY <1>1, <1>2, <1>3, SumAppend
<1>6. packets' = qs
  BY <1>1, <1>2, <1>3
<1> QED BY <1>1, <1>2, <1>4, <1>5, <1>6

LEMMA SentGrows ==
  ASSUME Typed, NEW len \in Bodies[tr], Grows(len)
  PROVE  /\ Sent \subseteq Sent' /\ OnWire \subseteq OnWire' /\ Reads \subseteq Reads'
         /\ \A q, w : Expected(q, w) => Expected(q, w)'
<1>1. /\ Len(packets') = Len(packets) + 1 /\ Len(packets) \in Nat /\ \A i \in 1..Len(packets) : packets'[i] = packets[i]
      /\ \A i \in 0..Len(packets) : SumTo(tr, packets', i) = SumTo(tr, packets, i)
  BY StreamGrows
<1>2. ASSUME NEW u, Genuine(u) PROVE Genuine(u)'
  <2> DEFINE n == u.pkt
  <2>1. n \in 1..Len(packets) /\ n \in 1..Len(packets') /\ n - 1 \in 0..Len(packets)
    BY <1>1, <1>2 DEF Genuine
  <2>2. packets'[n] = packets[n] /\ SumTo(tr, packets', n - 1) = SumTo(tr, packets, n - 1)
    BY <1>1, <2>1
  <2>3. tr' = tr
    BY DEF Grows
  <2> QED BY <1>2, <2>1, <2>2, <2>3 DEF Genuine
<1>3. Sent \subseteq Sent'
  BY <1>2 DEF Sent
<1>4. OnWire \subseteq OnWire'
  BY <1>3 DEF OnWire
<1>5. Reads \subseteq Reads'
  <2>1. \A s \in Seq(OnWire) : s \in Seq(OnWire')
    BY <1>4, SeqWider
  <2> QED BY <2>1 DEF Reads
<1>6. ASSUME NEW q, NEW w, Expected(q, w) PROVE Expected(q, w)'
  <2>1. \A s \in Seq(Sent) : s \in Seq(Sent')
    BY <1>3, SeqWider
  <2>2. q.at = "body" => q.got \in Seq(IF q.type = "app" THEN Sent' ELSE FrameUnit)
    BY <1>6, <2>1 DEF Expected
  <2> QED BY <1>6, <2>2 DEF Expected
<1> QED BY <1>3, <1>4, <1>5, <1>6

LEMMA PacketIs ==
  ASSUME Typed, NEW len \in Bodies[tr], Grows(len)
  PROVE  /\ Packet(len) \in Seq(Sent') /\ Packet(len) \in Seq(Unit)
         /\ Runs(Packet(len), SumTo(tr, packets, Len(packets)), SumTo(tr, packets, Len(packets)) + Units(tr, len))
<1> DEFINE L == Len(packets)
           h == Encode(tr, len)
           n == Units(tr, len)
           a == SumTo(tr, packets, L)
           unit(j) == [of |-> "data", k |-> a + j, pkt |-> L + 1, part |-> j, val |-> IF j <= Len(h) THEN h[j] ELSE 0]
           p == Packet(len)
<1>1. /\ Len(packets') = L + 1 /\ L \in Nat /\ packets'[L + 1] = len
      /\ \A i \in 0..L : SumTo(tr, packets', i) = SumTo(tr, packets, i)
  BY StreamGrows
<1>2. tr \in Transports /\ packets \in Seq(Bodies[tr]) /\ tr' = tr
  BY DEF Typed, Grows
<1>3. n \in Nat /\ a \in Nat
  <2>1. L \in 0..L
    BY <1>1
  <2> QED BY <1>2, <2>1, UnitsTyped, SumIs
<1>4. h \in Seq(Nat) /\ HeadLen(tr, len) = Len(h)
  BY <1>2, HeadSays DEF HeadLen
<1>5. p = [j \in 1..n |-> unit(j)]
  <2>1. UnitsOf(len) = n /\ Before(Len(packets)) = a
    BY BeforeIs
  <2> QED BY <2>1 DEF Packet
<1>6. ASSUME NEW j \in 1..n PROVE unit(j) \in Sent' /\ unit(j).k = a + j
  <2>0. PICK u : u = unit(j)
    OBVIOUS
  <2>1. u.of = "data" /\ u.k = a + j /\ u.pkt = L + 1 /\ u.part = j /\ u.val = IF j <= Len(h) THEN h[j] ELSE 0
    BY <2>0
  <2>2. u \in DataUnit
    <3>1. (IF j <= Len(h) THEN h[j] ELSE 0) \in Nat
      <4>1. Len(h) \in Nat /\ \A i \in 1..Len(h) : h[i] \in Nat
        BY <1>4, LenProperties, ElementOfSeq
      <4> HIDE DEF h
      <4> QED BY <1>3, <4>1
    <3> HIDE DEF h, a, n, L
    <3> QED BY <1>1, <1>3, <2>0, <3>1 DEF DataUnit
  <2>3. Genuine(u)'
    <3>1. SumTo(tr, packets', u.pkt - 1) = a
      <4>1. u.pkt - 1 = L /\ L \in 0..L
        BY <1>1, <2>1
      <4> QED BY <1>1, <4>1
    <3>2. u.pkt \in 1..Len(packets') /\ packets'[u.pkt] = len
      BY <1>1, <2>1
    <3>3. u.part <= HeadLen(tr, len) => u.val = Encode(tr, len)[u.part]
      BY <1>4, <2>1
    <3>4. u.part \in 1..Units(tr, len) /\ u.k = a + u.part
      BY <2>1
    <3> HIDE DEF a, n, h, L
    <3> QED BY <1>2, <3>1, <3>2, <3>3, <3>4 DEF Genuine
  <2>4. u \in Sent'
    BY <2>2, <2>3 DEF Sent
  <2> QED BY <2>0, <2>1, <2>4
<1> HIDE DEF p, a, n, L
<1>7. p \in Seq(Sent') /\ Len(p) = n /\ \A j \in 1..n : p[j] \in Sent' /\ p[j].k = a + j
  <2>1. \A j \in 1..n : p[j] = unit(j)
    BY <1>5
  <2> HIDE DEF unit
  <2>2. p \in [1..n -> Sent']
    BY <1>5, <1>6
  <2>3. p \in Seq(Sent') /\ Len(p) = n
    BY <1>3, <2>2, FunSeq
  <2> QED BY <1>6, <2>1, <2>3
<1>8. \A u \in Sent' : u \in Unit /\ IsData(u)
  BY DEF Sent, Unit, DataUnit, IsData
<1>9. p \in Seq(Unit) /\ Solid(p)
  <2>1. Sent' \subseteq Unit
    BY <1>8
  <2>2. p \in Seq(Unit)
    BY <1>7, <2>1, SeqWider
  <2> QED BY <1>7, <1>8, <2>2 DEF Solid
<1>10. Runs(p, a, a + n)
  <2>1. a + n \in Nat /\ a + n = a + Len(p) /\ \A j \in 1..Len(p) : p[j].k = a + j
    BY <1>3, <1>7
  <2> QED BY <1>3, <1>9, <2>1, SolidRuns
<1> QED BY <1>7, <1>9, <1>10 DEF p, a, n, L

LEMMA MatchedSends ==
  ASSUME Negotiated, Matched, NEW len \in Bodies[tr], ServerSends(len)
  PROVE  Matched'
<1> SUFFICES ASSUME pc' = "up", ~torn' PROVE Carried' /\ Placed' /\ Numbered'
  BY DEF Matched
<1>1. pc = "up" /\ UNCHANGED <<kind, tr>>
  BY NegotiatedSends DEF route
<1>2. UNCHANGED <<rec, buf, dec, phase, head, size, have, delivered, torn>>
  BY DEF ServerSends, reader, decoder
<1>3. Carried /\ Placed /\ Numbered /\ Typed
  BY <1>1, <1>2 DEF Matched, Negotiated
<1>4. Grows(len)
  BY <1>1 DEF ServerSends, Grows
<1>5. PICK p : p = Packet(len)
  OBVIOUS
<1>6. IF kind = "tls" THEN pending' = pending \o p /\ wire' = wire ELSE wire' = wire \o p /\ pending' = pending
  BY <1>5 DEF ServerSends
<1> DEFINE L == Len(packets)
           D == Len(delivered)
           a == SumTo(tr, packets, D) + PieceStart
           b == SumTo(tr, packets, L)
           c == b + Units(tr, len)
<1>7. /\ Len(packets') = L + 1 /\ L \in Nat /\ packets'[L + 1] = len /\ \A i \in 1..L : packets'[i] = packets[i]
      /\ \A i \in 0..L : SumTo(tr, packets', i) = SumTo(tr, packets, i)
      /\ SumTo(tr, packets', L + 1) = c
  BY <1>3, <1>4, StreamGrows
<1>8. D \in 0..L /\ a = Decoded /\ a \in Nat /\ b = Before(Len(packets)) /\ b \in Nat
  BY <1>3, PlaceTyped
<1>9. phase \in {"ext", "body"} => D + 1 \in 1..L /\ packets'[D + 1] = packets[D + 1]
  <2> SUFFICES ASSUME phase \in {"ext", "body"} PROVE D + 1 \in 1..L /\ packets'[D + 1] = packets[D + 1]
    OBVIOUS
  <2>1. D < L
    BY <1>3 DEF Placed
  <2>2. D + 1 \in 1..L
    BY <1>7, <1>8, <2>1
  <2> HIDE DEF D, L
  <2> QED BY <1>7, <2>2
<1>10. PieceStart' = PieceStart
  BY <1>1, <1>2, <1>9 DEF PieceStart
<1>11. Decoded' = a
  <2>1. SumTo(tr, packets', D) = SumTo(tr, packets, D)
    BY <1>7, <1>8
  <2> QED BY <1>1, <1>2, <1>10, <2>1, PlaceNow
<1>12. (Before(Len(packets)))' = c
  BY <1>1, <1>7, PlaceNow
<1>13. c \in Nat
  <2>1. Units(tr, len) \in Nat
    BY <1>3, UnitsTyped DEF Typed
  <2> HIDE DEF b
  <2> QED BY <1>8, <2>1
<1>14. Placed'
  <2>1. kind # "socks" => dec' = Decoded'
    BY <1>2, <1>3, <1>8, <1>11 DEF Placed
  <2>2. Len(delivered') <= Len(packets')
    BY <1>2, <1>7, <1>8
  <2>3. phase \in {"ext", "body"} => Len(delivered') < Len(packets') /\ packets'[Len(delivered') + 1] = packets[D + 1]
    BY <1>2, <1>7, <1>9
  <2> HIDE DEF a, b, c, L
  <2> QED BY <1>1, <1>2, <1>3, <2>1, <2>2, <2>3 DEF Placed
<1>15. /\ p \in Seq(Sent') /\ p \in Seq(Unit) /\ Runs(p, b, c)
  BY <1>3, <1>4, <1>5, PacketIs
<1>16. Carried'
  <2>1. Sent \subseteq Sent' /\ OnWire \subseteq OnWire' /\ Reads \subseteq Reads' /\ \A q, w : Expected(q, w) => Expected(q, w)'
    BY <1>3, <1>4, SentGrows
  <2>2. have \in Seq(Sent) /\ buf \in Seq(Sent) /\ pending \in Seq(Sent) /\ wire \in Seq(IF kind = "tls" THEN OnWire ELSE Sent)
    BY <1>3 DEF Carried
  <2>3. have \in Seq(Sent') /\ buf \in Seq(Sent') /\ pending \in Seq(Sent') /\ wire \in Seq(IF kind = "tls" THEN OnWire' ELSE Sent')
    BY <2>1, <2>2, SeqWider
  <2>4. CASE kind = "tls"
    <3>1. pending' \in Seq(Sent') /\ wire' = wire
      BY <1>6, <1>15, <2>3, <2>4, ConcatLen
    <3>2. rec \in Reads /\ Expected(rec, wire) /\ Cut(wire) /\ (buf # <<>> => rec = NoRecord)
      BY <1>3, <2>4 DEF Carried
    <3>3. PICK q, w : q = rec /\ w = wire /\ Expected(q, w)
      BY <3>2
    <3>4. Expected(q, w)'
      BY <2>1, <3>3
    <3>5. Expected(rec, wire)'
      BY <1>2, <3>1, <3>3, <3>4 DEF Expected
    <3>6. rec' \in Reads'
      BY <1>2, <2>1, <3>2
    <3> QED BY <1>1, <1>2, <2>3, <2>4, <3>1, <3>2, <3>5, <3>6 DEF Carried
  <2>5. CASE kind # "tls"
    <3>1. wire' \in Seq(Sent') /\ pending' = pending
      BY <1>6, <1>15, <2>3, <2>5, ConcatLen
    <3> QED BY <1>1, <1>2, <2>3, <2>5, <3>1 DEF Carried
  <2> QED BY <2>4, <2>5
<1>17. Numbered'
  <2>1. Chain(have, buf, rec.got, wire, pending, a, b)
    BY <1>3, <1>8, NumberedChain
  <2>2. have \in Seq(Unit) /\ buf \in Seq(Unit) /\ rec.got \in Seq(Unit) /\ wire \in Seq(Unit) /\ pending \in Seq(Unit)
    BY <1>3, PartsTyped
  <2> HIDE DEF a, b, c, L, D
  <2>3. PICK m1 \in Nat, m2 \in Nat, m3 \in Nat, m4 \in Nat :
          Runs(have, a, m1) /\ Runs(buf, m1, m2) /\ Runs(rec.got, m2, m3) /\ Runs(wire, m3, m4) /\ Runs(pending, m4, b)
    BY <2>1 DEF Chain
  <2>4. wire' \in Seq(Unit) /\ pending' \in Seq(Unit) /\ Chain(have, buf, rec.got, wire', pending', a, c)
    <3>1. CASE kind = "tls"
      <4>1. Runs(pending \o p, m4, c)
        BY <1>8, <1>13, <1>15, <2>2, <2>3, RunsConcat
      <4>2. pending' = pending \o p /\ wire' = wire /\ pending \o p \in Seq(Unit)
        BY <1>6, <1>15, <2>2, <3>1, ConcatLen
      <4>3. Runs(pending', m4, c) /\ Runs(wire', m3, m4)
        BY <2>3, <4>1, <4>2
      <4> QED BY <2>2, <2>3, <4>2, <4>3, ChainOf
    <3>2. CASE kind # "tls"
      <4>1. pending = <<>>
        BY <3>2 DEF Negotiated, Quiet
      <4>2. m4 = b
        <5>1. Runs(<<>>, m4, b)
          BY <2>3, <4>1
        <5> QED BY <1>8, <5>1, RunsNothing
      <4>3. Runs(wire \o p, m3, c)
        BY <1>8, <1>13, <1>15, <2>2, <2>3, <4>2, RunsConcat
      <4>4. wire' = wire \o p /\ pending' = <<>> /\ wire \o p \in Seq(Unit)
        BY <1>6, <1>15, <2>2, <3>2, <4>1, ConcatLen
      <4>5. Runs(<<>>, c, c)
        BY <1>13, RunsNone
      <4>6. Runs(wire', m3, c) /\ Runs(pending', c, c)
        BY <4>3, <4>4, <4>5
      <4>7. wire' \in Seq(Unit) /\ pending' \in Seq(Unit)
        BY <4>4
      <4> QED BY <1>13, <2>3, <4>6, <4>7, ChainOf
    <3> QED BY <3>1, <3>2
  <2>5. PICK h, f, g, w, q : h = have /\ f = buf /\ g = rec.got /\ w = wire' /\ q = pending'
    OBVIOUS
  <2>6. h \in Seq(Unit) /\ f \in Seq(Unit) /\ g \in Seq(Unit) /\ w \in Seq(Unit) /\ q \in Seq(Unit)
    BY <2>2, <2>4, <2>5
  <2>7. Chain(h, f, g, w, q, a, c)
    BY <2>4, <2>5
  <2>8. have' = h /\ buf' = f /\ rec'.got = g /\ wire' = w /\ pending' = q
    BY <1>2, <2>5
  <2> QED BY <1>8, <1>11, <1>12, <1>13, <2>6, <2>7, <2>8, NumberedNow
<1> QED BY <1>14, <1>16, <1>17

-----------------------------------------------------------------------------
(* The stream begins with the connection, and nothing of the negotiation is *)
(* left in front of it.                                                    *)
LEMMA MatchedBegins ==
  ASSUME Negotiated, pc # "up", UNCHANGED <<kind, tr, pending, packets, reader>>, wire' = <<>>
  PROVE  Carried' /\ Placed' /\ Numbered'
<1>1. /\ packets' = <<>> /\ pending' = <<>> /\ rec' = NoRecord /\ buf' = <<>> /\ dec' = 0
      /\ phase' = "idle" /\ head' = <<>> /\ have' = <<>> /\ delivered' = <<>> /\ tr' = tr /\ tr \in Transports
  BY DEF Negotiated, Typed, Quiet, Fresh, reader, decoder
<1>2. Len(packets') = 0 /\ Len(delivered') = 0
  BY <1>1
<1>3. SumTo(tr, packets', 0) = 0
  <2> DEFINE e == <<>>
  <2>1. e \in Seq(Bodies[tr])
    OBVIOUS
  <2> HIDE DEF e
  <2>2. SumTo(tr, e, 0) = 0
    BY <1>1, <2>1, SumIs
  <2> QED BY <1>1, <2>2 DEF e
<1>4. Decoded' = 0 /\ (Before(Len(packets)))' = 0
  <2>1. PieceStart' = 0
    BY <1>1 DEF PieceStart
  <2> QED BY <1>1, <1>2, <1>3, <2>1, PlaceNow
<1>5. Carried'
  <2>1. \A S : <<>> \in Seq(S)
    OBVIOUS
  <2>2. rec' \in Reads'
    <3>1. <<>> \in Seq(OnWire')
      OBVIOUS
    <3> QED BY <1>1, <3>1 DEF NoRecord, Reads, RecordTypes
  <2>3. Expected(rec, wire)'
    BY <1>1 DEF Expected, NoRecord
  <2>4. Cut(wire')
    BY DEF Cut
  <2> QED BY <1>1, <2>1, <2>2, <2>3, <2>4 DEF Carried
<1>6. Placed'
  <2>1. <<>> \in Seq(Nat)
    OBVIOUS
  <2> QED BY <1>1, <1>2, <1>4, <2>1 DEF Placed
<1>7. Numbered'
  <2> DEFINE e == <<>>
  <2>1. e \in Seq(Unit) /\ Runs(e, 0, 0)
    BY RunsNone
  <2>2. have' = e /\ buf' = e /\ rec'.got = e /\ wire' = e /\ pending' = e
    BY <1>1 DEF NoRecord
  <2> HIDE DEF e
  <2>3. Chain(e, e, e, e, e, 0, 0)
    BY <2>1, ChainOf
  <2> QED BY <1>4, <2>1, <2>2, <2>3, NumberedNow
<1> QED BY <1>5, <1>6, <1>7

LEMMA MatchedSetUp ==
  ASSUME Negotiated, Matched, SetUp
  PROVE  Matched'
<1>1. CASE ReadReply
  <2>1. pc = "reply" /\ UNCHANGED <<kind, tr, pending, packets, reader>>
    BY <1>1 DEF ReadReply, route
  <2>2. pc' = "up" => wire' = <<>>
    BY <1>1, NegotiatedReply
  <2> QED BY <2>1, <2>2, MatchedBegins DEF Matched
<1>2. CASE WriteHeader
  <2>1. pc = "header" /\ UNCHANGED <<kind, tr, pending, packets, reader>>
    BY <1>2 DEF WriteHeader, route, far
  <2>2. wire' = <<>>
    BY <1>2, NegotiatedHeader
  <2> QED BY <2>1, <2>2, MatchedBegins DEF Matched
<1>3. CASE Greet \/ Hail \/ ReadMethod \/ ReadAuth \/ WriteRequest \/ ReadHello \/ SetupFails
  <2>1. pc' # "up"
    BY <1>3 DEF Greet, Hail, ReadMethod, ReadAuth, WriteRequest, ReadHello, SetupFails, Proceed, Fail
  <2> QED BY <2>1 DEF Matched
<1> QED BY <1>1, <1>2, <1>3 DEF SetUp

LEMMA MatchedFarSide ==
  ASSUME Negotiated, Matched, FarSide
  PROVE  Matched'
<1>1. CASE \/ \E m \in {0, 2, 255} : ServerMethod(m)
           \/ \E ok \in BOOLEAN : ServerAuth(ok)
           \/ \E code \in {0, 1}, type \in {"v4", "v6", "name", "other"}, n \in {0, 3} : ServerReply(code, type, n)
           \/ \E shape \in Hellos : ServerHello(shape)
  <2>1. pc' # "up"
    BY <1>1 DEF ServerMethod, ServerAuth, ServerReply, ServerHello, Put, setup
  <2> QED BY <2>1 DEF Matched
<1>2. CASE \E len \in Bodies[tr] : ServerSends(len)
  BY <1>2, MatchedSends
<1>3. CASE \E n \in Cuts : ServerCuts(n)
  BY <1>3, MatchedCuts
<1>4. CASE \E type \in {"app", "ccs", "alert"} : ServerFills(type)
  BY <1>4, MatchedFills
<1> QED BY <1>1, <1>2, <1>3, <1>4 DEF FarSide

LEMMA MatchedStill ==
  ASSUME Negotiated, Matched, UNCHANGED <<kind, tr, pc, wire, pending, packets, reader>>
  PROVE  Matched'
<1> SUFFICES ASSUME pc' = "up", ~torn' PROVE Carried' /\ Placed' /\ Numbered'
  BY DEF Matched
<1>1. UNCHANGED <<rec, buf, dec, phase, head, size, have, delivered, torn>>
  BY DEF reader, decoder
<1>2. Carried /\ Placed /\ Numbered
  BY <1>1 DEF Matched
<1>3. Placed' /\ Decoded' = Decoded /\ (Before(Len(packets)))' = Before(Len(packets))
  BY <1>1, <1>2, PlacedStill
<1>4. Carried'
  BY <1>1, <1>2, CarriedStill
<1>5. Line' = Line
  BY <1>1 DEF Line
<1> QED BY <1>2, <1>3, <1>4, <1>5 DEF Numbered

LEMMA MatchedNext == Negotiated /\ Matched /\ [Next]_vars => Matched'
<1> SUFFICES ASSUME Negotiated, Matched, [Next]_vars PROVE Matched'
  OBVIOUS
<1>1. CASE SetUp
  BY <1>1, MatchedSetUp
<1>2. CASE FarSide
  BY <1>2, MatchedFarSide
<1>3. CASE Send
  BY <1>3, MatchedStill DEF Send, route, setup, far
<1>4. CASE Recv
  BY <1>4, MatchedRecv
<1>5. CASE ReadByte
  BY <1>5, MatchedTake, MatchedReadRecord DEF ReadByte
<1>6. CASE TimeOut
  BY <1>6, MatchedTimeOut
<1>7. CASE UNCHANGED vars
  BY <1>7, MatchedStill DEF vars, route, setup, far
<1>8. Ended => UNCHANGED vars
  BY DEF Ended
<1> QED BY <1>1, <1>2, <1>3, <1>4, <1>5, <1>6, <1>7, <1>8 DEF Next

(* As long as no read has given up inside a packet, what is on the way is   *)
(* the rest of the stream: partial reads, heads that come byte by byte,     *)
(* records that end inside a packet, empty and foreign records lose and     *)
(* repeat nothing (ReadFull, tlsConn.Read, decode).                         *)
THEOREM StreamIsMatched == Spec => []Matched
<1>1. Init => Matched
  <2> SUFFICES ASSUME Init PROVE Matched
    OBVIOUS
  <2>1. pc # "up"
    BY DEF Init
  <2> QED BY <2>1 DEF Matched
<1>2. Negotiated /\ Matched /\ [Next]_vars => Matched'
  BY MatchedNext
<1> QED BY <1>1, <1>2, SetUpNegotiates, PTL DEF Spec

(* Both ends are at the same byte: nothing of the negotiation is left in    *)
(* front of the stream, the keystream is at the first byte not yet          *)
(* decrypted, the transport at the piece of the packet that comes next,     *)
(* and every unit behind it comes at its position (obfConn.ReadFull,        *)
(* tlsConn.Read, decode of each transport), until a read gives up inside a  *)
(* packet.                                                                  *)
THEOREM BothEndsInStep == Spec => []InStep
<1>1. Negotiated /\ Matched => InStep
  <2> SUFFICES ASSUME Negotiated, Matched, pc = "up", ~torn
               PROVE  /\ \A i \in DOMAIN wire : wire[i].of \in {"data", "type", "len", "pad"}
                      /\ kind # "socks" => dec = Decoded
                      /\ \A i \in DOMAIN Line : Line[i].of = "data" => Line[i].k = Decoded + DataUpTo(i)
                      /\ Before(Len(packets)) = Decoded + DataUpTo(Len(Line))
    BY DEF InStep
  <2>1. Carried /\ Placed /\ Numbered
    BY DEF Matched
  <2>2. wire \in Seq(Unit) /\ have \in Seq(Unit) /\ buf \in Seq(Unit) /\ rec.got \in Seq(Unit) /\ pending \in Seq(Unit)
    BY <2>1, PartsTyped
  <2>3. \A i \in DOMAIN wire : wire[i].of \in {"data", "type", "len", "pad"}
    <3>1. \A i \in DOMAIN wire : wire[i] \in Unit
      BY <2>2, LenProperties, ElementOfSeq
    <3>2. \A u \in Unit : u.of \in {"data", "type", "len", "pad"}
      BY DEF Unit, DataUnit, FrameUnit
    <3> QED BY <3>1, <3>2
  <2>4. Decoded \in Nat /\ Before(Len(packets)) \in Nat
    BY <2>1, PlaceTyped DEF Negotiated
  <2>5. Line \in Seq(Unit)
    BY <2>2, <2>4, ChainLine DEF Line
  <2>6. DOMAIN Line = 1..Len(Line)
    BY <2>5, LenProperties
  <2>7. /\ \A i \in 1..Len(Line) :
             Line[i].of = "data" => Line[i].k = Decoded + Cardinality({j \in 1..i : Line[j].of = "data"})
        /\ Before(Len(packets)) = Decoded + Cardinality({j \in 1..Len(Line) : Line[j].of = "data"})
    BY <2>1, <2>4, <2>5, RunsCount DEF Numbered
  <2>8. kind # "socks" => dec = Decoded
    BY <2>1 DEF Placed
  <2> QED BY <2>3, <2>6, <2>7, <2>8 DEF DataUpTo
<1> QED BY <1>1, SetUpNegotiates, StreamIsMatched, PTL

-----------------------------------------------------------------------------
(* A torn stream.  Once a read has given up inside a packet units may be    *)
(* missing, but what still comes, comes in its order: its positions rise.  *)
Rises(s, a, b) ==
  /\ a <= b
  /\ \A i \in 1..Len(s) : IsData(s[i]) => a < s[i].k /\ s[i].k <= b
  /\ \A i, j \in 1..Len(s) : i < j /\ IsData(s[i]) /\ IsData(s[j]) => s[i].k < s[j].k

LEMMA RisesHollow ==
  ASSUME NEW a \in Nat, NEW b \in Nat, a <= b
  PROVE  Rises(<<>>, a, b) /\ \A s : Hollow(s) => Rises(s, a, b)
<1>1. Hollow(<<>>)
  BY DEF Hollow
<1>2. \A s : Hollow(s) => Rises(s, a, b)
  BY DEF Hollow, Rises
<1> QED BY <1>1, <1>2

LEMMA RisesTail ==
  ASSUME NEW t \in Seq(Unit), t # <<>>, NEW a \in Nat, NEW b \in Nat, Rises(t, a, b)
  PROVE  /\ Head(t) \in Unit /\ Tail(t) \in Seq(Unit)
         /\ Rises(Tail(t), a, b)
         /\ IsData(Head(t)) => /\ Head(t).k \in Nat /\ a < Head(t).k /\ Head(t).k <= b
                               /\ Rises(Tail(t), Head(t).k, b)
<1> DEFINE v == Tail(t)
           L == Len(t)
<1>1. /\ Head(t) \in Unit /\ v \in Seq(Unit) /\ Head(t) = t[1] /\ L \in Nat \ {0} /\ Len(v) = L - 1
      /\ \A i \in 1..(L - 1) : v[i] = t[i + 1]
  BY Uncons
<1>2. /\ a <= b
      /\ \A i \in 1..L : IsData(t[i]) => a < t[i].k /\ t[i].k <= b
      /\ \A i, j \in 1..L : i < j /\ IsData(t[i]) /\ IsData(t[j]) => t[i].k < t[j].k
  BY DEF Rises
<1> HIDE DEF v, L
<1>3. \A i \in 1..Len(v) : v[i] = t[i + 1] /\ i + 1 \in 1..L /\ 1 < i + 1
  BY <1>1
<1>4. \A i \in 1..Len(v) : IsData(v[i]) => a < v[i].k /\ v[i].k <= b
  BY <1>2, <1>3
<1>5. ASSUME NEW i \in 1..Len(v), NEW j \in 1..Len(v), i < j, IsData(v[i]), IsData(v[j]) PROVE v[i].k < v[j].k
  <2>1. i + 1 < j + 1 /\ v[i] = t[i + 1] /\ v[j] = t[j + 1] /\ i + 1 \in 1..L /\ j + 1 \in 1..L
    BY <1>3, <1>5
  <2> QED BY <1>2, <1>5, <2>1
<1>6. Rises(v, a, b)
  BY <1>2, <1>4, <1>5 DEF Rises
<1>7. ASSUME IsData(Head(t)) PROVE Head(t).k \in Nat /\ a < Head(t).k /\ Head(t).k <= b /\ Rises(v, Head(t).k, b)
  <2>1. 1 \in 1..L /\ IsData(t[1]) /\ t[1].k \in Nat
    BY <1>1, <1>7, UnitFacts
  <2>2. a < t[1].k /\ t[1].k <= b
    BY <1>2, <2>1
  <2>3. \A i \in 1..Len(v) : IsData(v[i]) => t[1].k < v[i].k
    BY <1>2, <1>3, <2>1
  <2>4. Rises(v, t[1].k, b)
    BY <1>4, <1>5, <2>2, <2>3 DEF Rises
  <2> QED BY <1>1, <2>1, <2>2, <2>4
<1> QED BY <1>1, <1>6, <1>7 DEF v

LEMMA RisesConcat ==
  ASSUME NEW s \in Seq(Unit), NEW t \in Seq(Unit), NEW a \in Nat, NEW m \in Nat, NEW b \in Nat,
         Rises(s, a, m), Rises(t, m, b)
  PROVE  Rises(s \o t, a, b)
<1> DEFINE u == s \o t
           S == Len(s)
           T == Len(t)
<1>1. S \in Nat /\ T \in Nat /\ Len(u) = S + T /\ \A i \in 1..(S + T) : u[i] = IF i <= S THEN s[i] ELSE t[i - S]
  BY ConcatProperties, LenProperties
<1>2. /\ a <= m /\ m <= b
      /\ \A i \in 1..S : IsData(s[i]) => s[i].k \in Nat /\ a < s[i].k /\ s[i].k <= m
      /\ \A i \in 1..T : IsData(t[i]) => t[i].k \in Nat /\ m < t[i].k /\ t[i].k <= b
      /\ \A i, j \in 1..S : i < j /\ IsData(s[i]) /\ IsData(s[j]) => s[i].k < s[j].k
      /\ \A i, j \in 1..T : i < j /\ IsData(t[i]) /\ IsData(t[j]) => t[i].k < t[j].k
  <2>1. (\A i \in 1..S : s[i] \in Unit) /\ (\A i \in 1..T : t[i] \in Unit)
    BY ElementOfSeq
  <2> QED BY <2>1, UnitFacts DEF Rises
<1> HIDE DEF u, S, T
<1>3. ASSUME NEW i \in 1..Len(u)
      PROVE  \/ i \in 1..S /\ u[i] = s[i]
             \/ i - S \in 1..T /\ i > S /\ u[i] = t[i - S]
  <2>1. CASE i <= S
    BY <1>1, <2>1
  <2>2. CASE ~(i <= S)
    BY <1>1, <2>2
  <2> QED BY <2>1, <2>2
<1>4. ASSUME NEW i \in 1..Len(u), IsData(u[i]) PROVE a < u[i].k /\ u[i].k <= b
  <2>1. CASE i \in 1..S /\ u[i] = s[i]
    BY <1>2, <1>4, <2>1
  <2>2. CASE i - S \in 1..T /\ u[i] = t[i - S]
    BY <1>2, <1>4, <2>2
  <2> QED BY <1>3, <2>1, <2>2
<1>5. ASSUME NEW i \in 1..Len(u), NEW j \in 1..Len(u), i < j, IsData(u[i]), IsData(u[j]) PROVE u[i].k < u[j].k
  <2>1. CASE i \in 1..S /\ u[i] = s[i] /\ j \in 1..S /\ u[j] = s[j]
    BY <1>2, <1>5, <2>1
  <2>2. CASE i \in 1..S /\ u[i] = s[i] /\ j - S \in 1..T /\ u[j] = t[j - S]
    <3>1. s[i].k \in Nat /\ s[i].k <= m /\ t[j - S].k \in Nat /\ m < t[j - S].k
      BY <1>2, <1>5, <2>2
    <3> QED BY <2>2, <3>1
  <2>3. CASE i - S \in 1..T /\ u[i] = t[i - S] /\ j - S \in 1..T /\ u[j] = t[j - S]
    <3>1. i - S < j - S
      BY <1>1, <1>5
    <3> QED BY <1>2, <1>5, <2>3, <3>1
  <2>4. ~(j <= S /\ i > S)
    BY <1>1, <1>5
  <2>5. S \in Nat /\ (j \in 1..S => j <= S)
    BY <1>1
  <2> QED BY <1>3, <2>1, <2>2, <2>3, <2>4, <2>5
<1>6. a <= b
  BY <1>2
<1>7. Rises(u, a, b)
  BY <1>4, <1>5, <1>6 DEF Rises
<1> QED BY <1>7 DEF u

LEMMA RisesShift ==
  ASSUME NEW s \in Seq(Unit), NEW t \in Seq(Unit), t # <<>>, NEW a \in Nat, NEW m \in Nat, NEW b \in Nat,
         Rises(s, a, m), Rises(t, m, b)
  PROVE  /\ Append(s, Head(t)) \in Seq(Unit) /\ Tail(t) \in Seq(Unit)
         /\ \E n \in Nat : Rises(Append(s, Head(t)), a, n) /\ Rises(Tail(t), n, b)
         /\ Rises(Tail(t), m, b)
<1>1. Head(t) \in Unit /\ Tail(t) \in Seq(Unit) /\ Rises(Tail(t), m, b)
  BY RisesTail
<1>2. Append(s, Head(t)) = s \o <<Head(t)>> /\ Append(s, Head(t)) \in Seq(Unit)
  BY <1>1, ConcatAppend, AppendProperties
<1> DEFINE o == <<Head(t)>>
<1>3. o \in Seq(Unit) /\ Len(o) = 1 /\ o[1] = Head(t)
  BY <1>1, One
<1> HIDE DEF o
<1>4. PICK n \in Nat : Rises(o, m, n) /\ Rises(Tail(t), n, b)
  <2>1. CASE IsData(Head(t))
    <3>1. Head(t).k \in Nat /\ m < Head(t).k /\ Rises(Tail(t), Head(t).k, b)
      BY <2>1, RisesTail
    <3>2. Rises(o, m, Head(t).k)
      <4>1. \A i \in 1..Len(o) : i = 1
        BY <1>3
      <4> QED BY <1>3, <3>1, <4>1 DEF Rises
    <3> QED BY <3>1, <3>2
  <2>2. CASE ~IsData(Head(t))
    <3>1. Hollow(o)
      BY <1>3, <2>2 DEF Hollow
    <3>2. Rises(o, m, m)
      BY <3>1, RisesHollow
    <3> QED BY <1>1, <3>2
  <2> QED BY <2>1, <2>2
<1>5. Rises(s \o o, a, n)
  BY <1>3, <1>4, RisesConcat
<1> QED BY <1>1, <1>2, <1>4, <1>5 DEF o

LEMMA RisesSplit ==
  ASSUME NEW s \in Seq(Unit), NEW t \in Seq(Unit), s # <<>>, Solid(s), NEW a \in Nat, NEW b \in Nat, Rises(s \o t, a, b)
  PROVE  \E n \in Nat : Rises(s, a, n) /\ Rises(t, n, b)
<1> DEFINE u == s \o t
           S == Len(s)
           T == Len(t)
           n == s[S].k
<1>1. S \in Nat \ {0} /\ T \in Nat /\ Len(u) = S + T /\ \A i \in 1..(S + T) : u[i] = IF i <= S THEN s[i] ELSE t[i - S]
  BY ConcatProperties, LenProperties, EmptySeq
<1>2. /\ a <= b
      /\ \A i \in 1..Len(u) : IsData(u[i]) => a < u[i].k /\ u[i].k <= b
      /\ \A i, j \in 1..Len(u) : i < j /\ IsData(u[i]) /\ IsData(u[j]) => u[i].k < u[j].k
  BY DEF Rises
<1>3. \A i \in 1..S : IsData(s[i]) /\ s[i].k \in Nat
  <2>1. \A i \in 1..S : s[i] \in Unit
    BY ElementOfSeq
  <2> QED BY <2>1, UnitFacts DEF Solid
<1> HIDE DEF u, S, T
<1>4. \A i \in 1..S : i \in 1..Len(u) /\ u[i] = s[i]
  BY <1>1
<1>5. \A i \in 1..T : i + S \in 1..Len(u) /\ u[i + S] = t[i] /\ S < i + S
  <2> SUFFICES ASSUME NEW i \in 1..T PROVE i + S \in 1..Len(u) /\ u[i + S] = t[i] /\ S < i + S
    OBVIOUS
  <2>1. i + S \in 1..(S + T) /\ ~(i + S <= S) /\ (i + S) - S = i
    BY <1>1
  <2> QED BY <1>1, <2>1
<1>6. S \in 1..S /\ S \in 1..Len(u)
  BY <1>1
<1>7. n \in Nat /\ a < n /\ n <= b
  BY <1>2, <1>3, <1>4, <1>6
<1>8. Rises(s, a, n)
  <2>1. ASSUME NEW i \in 1..S PROVE a < s[i].k /\ s[i].k <= n
    <3>1. CASE i = S
      BY <1>7, <3>1
    <3>2. CASE i # S
      <4>1. i < S
        BY <1>1, <3>2
      <4>2. u[i].k < u[S].k
        BY <1>2, <1>3, <1>4, <1>6, <4>1
      <4> QED BY <1>2, <1>3, <1>4, <1>6, <1>7, <4>2
    <3> QED BY <3>1, <3>2
  <2>2. ASSUME NEW i \in 1..S, NEW j \in 1..S, i < j PROVE s[i].k < s[j].k
    BY <1>2, <1>3, <1>4, <2>2
  <2>3. a <= n
    BY <1>7
  <2> HIDE DEF n
  <2> QED BY <2>1, <2>2, <2>3 DEF Rises, S
<1>9. Rises(t, n, b)
  <2>1. ASSUME NEW i \in 1..T, IsData(t[i]) PROVE n < t[i].k /\ t[i].k <= b
    <3>1. u[S] = s[S] /\ IsData(u[S]) /\ IsData(u[i + S]) /\ i + S \in 1..Len(u) /\ S < i + S
      BY <1>3, <1>4, <1>5, <1>6, <2>1
    <3>2. u[S].k < u[i + S].k /\ u[i + S].k <= b
      BY <1>2, <1>6, <3>1
    <3> QED BY <1>5, <3>1, <3>2
  <2>2. ASSUME NEW i \in 1..T, NEW j \in 1..T, i < j, IsData(t[i]), IsData(t[j]) PROVE t[i].k < t[j].k
    <3>1. i + S < j + S
      BY <1>1, <2>2
    <3>2. u[i + S].k < u[j + S].k
      BY <1>2, <1>5, <2>2, <3>1
    <3> QED BY <1>5, <3>2
  <2> HIDE DEF n
  <2> QED BY <1>7, <2>1, <2>2 DEF Rises, T
<1> QED BY <1>7, <1>8, <1>9

LEMMA RisesRuns ==
  ASSUME NEW s \in Seq(Unit), Solid(s), NEW a \in Nat, NEW b \in Nat, Runs(s, a, b), NEW c \in Nat, c <= a
  PROVE  Rises(s, c, b)
<1>1. b = a + Len(s) /\ \A i \in 1..Len(s) : s[i].k = a + i
  BY SolidRuns
<1>2. Len(s) \in Nat
  BY LenProperties
<1>3. c <= b
  BY <1>1, <1>2
<1>4. \A i \in 1..Len(s) : c < s[i].k /\ s[i].k <= b
  BY <1>1, <1>2
<1>5. \A i, j \in 1..Len(s) : i < j => s[i].k < s[j].k
  BY <1>1
<1> QED BY <1>3, <1>4, <1>5 DEF Rises

(* The five parts of what is on the way.                                   *)
Climbs(h, f, g, w, p, a, b) ==
  \E m1, m2, m3, m4 \in Nat :
    Rises(h, a, m1) /\ Rises(f, m1, m2) /\ Rises(g, m2, m3) /\ Rises(w, m3, m4) /\ Rises(p, m4, b)

LEMMA ClimbsOf ==
  ASSUME NEW h, NEW f, NEW g, NEW w, NEW p, NEW a, NEW b,
         NEW m1 \in Nat, NEW m2 \in Nat, NEW m3 \in Nat, NEW m4 \in Nat,
         Rises(h, a, m1), Rises(f, m1, m2), Rises(g, m2, m3), Rises(w, m3, m4), Rises(p, m4, b)
  PROVE  Climbs(h, f, g, w, p, a, b)
BY DEF Climbs

LEMMA Greatest ==
  ASSUME NEW S, S # {}, NEW L \in Nat, S \subseteq 0..L
  PROVE  \E x \in S : \A y \in S : y <= x
<1> DEFINE T == {x \in Nat : \A y \in S : y <= x}
<1>1. L \in T /\ T \in SUBSET Nat
  OBVIOUS
<1>2. PICK x \in T : \A y \in T : x <= y
  <2> HIDE DEF T
  <2> QED BY <1>1, LeastNat
<1>3. x \in Nat /\ \A y \in S : y <= x
  OBVIOUS
<1>4. x \in S
  <2> SUFFICES ASSUME x \notin S PROVE FALSE
    OBVIOUS
  <2>1. \A y \in S : y \in Nat /\ y < x
    BY <1>3
  <2>2. PICK z \in S : z < x /\ z \in Nat
    BY <2>1
  <2>3. x - 1 \in Nat /\ \A y \in S : y <= x - 1
    BY <1>3, <2>1, <2>2
  <2>4. x - 1 \in T
    BY <2>3
  <2> HIDE DEF T
  <2>5. x <= x - 1
    BY <1>2, <2>4
  <2> QED BY <1>3, <2>5
<1> QED BY <1>3, <1>4

-----------------------------------------------------------------------------
(* What holds whether or not the channel is torn.                          *)
LooseReads ==
  [at : {"type", "len", "body"}, type : RecordTypes \cup {"none"}, left : Int, got : Seq(OnWire)]

(* Where units are and where the client is, with no claim on which units    *)
(* they are: after a read gave up bytes are decrypted and framed as what    *)
(* they are not.                                                            *)
Parts ==
  /\ have \in Seq(OnWire) /\ buf \in Seq(OnWire) /\ wire \in Seq(OnWire)
  /\ pending \in Seq(Sent) /\ rec \in LooseReads

Piece ==
  /\ phase \in {"idle", "first", "ext", "body"}
  /\ phase = "idle" => head = <<>> /\ have = <<>>
  /\ phase = "first" => head = <<>> /\ Len(have) < FirstRead(tr)
  /\ phase = "ext" => tr = "abridged" /\ head = <<Long>> /\ Len(have) < ExtRead
  /\ phase = "body" => size \in Nat /\ Len(have) < BodyUnits(size)

(* What was handed out: packets that were sent, or 0 for what nobody sent.  *)
Handed == delivered \in Seq(0..Len(packets)) /\ torn \in BOOLEAN

(* The position of the first word of a packet.                             *)
FirstWord(n) == SumTo(tr, packets, n - 1) + HeadLen(tr, packets[n]) + 1

(* All that was handed out begins at or before a.                          *)
Passed(a) == \A i \in 1..Len(delivered) : delivered[i] # 0 => FirstWord(delivered[i]) <= a

(* What is still to come lies behind all that was handed out.              *)
Ahead == \E a \in Nat : Passed(a) /\ Climbs(have, buf, rec.got, wire, pending, a, Before(Len(packets)))

Orderly == Handed /\ (pc = "up" => Parts /\ Piece /\ Ahead)

LEMMA FirstWordIs ==
  ASSUME Typed, NEW n \in 1..Len(packets)
  PROVE  /\ FirstWord(n) \in Nat /\ FirstWord(n) <= SumTo(tr, packets, Len(packets))
         /\ \A m \in 1..n : FirstWord(m) <= FirstWord(n)
<1> DEFINE B(i) == SumTo(tr, packets, i)
           H(i) == HeadLen(tr, packets[i])
           W(i) == BodyUnits(packets[i])
           L == Len(packets)
<1>1. tr \in Transports /\ packets \in Seq(Bodies[tr]) /\ L \in Nat
  BY LenProperties DEF Typed
<1>2. ASSUME NEW i \in 1..L
      PROVE  B(i - 1) \in Nat /\ B(i) \in Nat /\ H(i) \in Nat /\ W(i) \in Nat /\ W(i) > 0 /\ B(i) = B(i - 1) + (H(i) + W(i))
  <2>1. packets[i] \in Bodies[tr] /\ i - 1 \in 0..L /\ i \in 0..L
    BY <1>1, ElementOfSeq
  <2>2. B(i - 1) \in Nat /\ B(i) \in Nat /\ B(i) = B(i - 1) + Units(tr, packets[i])
    BY <1>1, <2>1, SumIs
  <2>3. H(i) \in {1, 4} /\ W(i) \in Nat /\ W(i) > 0
    <3>1. PICK len \in Bodies[tr] : len = packets[i]
      BY <2>1
    <3>2. HeadLen(tr, len) \in {1, 4} /\ BodyUnits(len) \in Nat /\ BodyUnits(Stripped(tr, len)) \in 1..BodyUnits(len)
      BY <1>1, HeadSays, BodyWords
    <3> QED BY <3>1, <3>2
  <2> QED BY <2>2, <2>3 DEF Units
<1>3. \A i, j \in 0..L : i <= j => B(i) <= B(j)
  BY <1>1, SumMonotone
<1>4. \A i : FirstWord(i) = B(i - 1) + H(i) + 1
  BY DEF FirstWord
<1> HIDE DEF B, H, W
<1>5. n \in 0..L /\ L \in 0..L
  BY <1>1
<1>6. FirstWord(n) \in Nat /\ FirstWord(n) <= B(L)
  <2>1. B(n) <= B(L) /\ B(L) \in Nat
    <3>1. L \in 1..L /\ n <= L
      BY <1>1
    <3> QED BY <1>2, <1>3, <1>5, <3>1
  <2> QED BY <1>2, <1>4, <2>1
<1>7. ASSUME NEW m \in 1..n PROVE FirstWord(m) <= FirstWord(n)
  <2>1. m \in 1..L /\ m \in 0..L
    BY <1>1
  <2>2. CASE m = n
    BY <1>6, <2>2
  <2>3. CASE m # n
    <3>1. m <= n - 1 /\ n - 1 \in 0..L
      BY <1>1, <2>3
    <3>2. B(m) <= B(n - 1)
      BY <1>3, <2>1, <3>1
    <3> QED BY <1>2, <1>4, <2>1, <3>2
  <2> QED BY <2>2, <2>3
<1> QED BY <1>6, <1>7 DEF B, L

-----------------------------------------------------------------------------
LEMMA AllTyped ==
  ASSUME Parts
  PROVE  /\ have \in Seq(Unit) /\ buf \in Seq(Unit) /\ rec.got \in Seq(Unit) /\ wire \in Seq(Unit) /\ pending \in Seq(Unit)
         /\ rec.got \in Seq(OnWire)
<1>1. rec.got \in Seq(OnWire)
  BY DEF Parts, LooseReads
<1> QED BY <1>1, OnWireIs, SentIsSolid, SeqWider DEF Parts

LEMMA HandedOn ==
  ASSUME Typed, Handed
  PROVE  /\ Len(delivered) \in Nat /\ Len(packets) \in Nat
         /\ \A i \in 1..Len(delivered) : delivered[i] \in 0..Len(packets)
         /\ Before(Len(packets)) = SumTo(tr, packets, Len(packets)) /\ Before(Len(packets)) \in Nat
<1>1. Len(packets) \in Nat /\ Len(delivered) \in Nat /\ tr \in Transports /\ packets \in Seq(Bodies[tr])
  BY LenProperties DEF Typed, Handed
<1>2. \A i \in 1..Len(delivered) : delivered[i] \in 0..Len(packets)
  BY ElementOfSeq DEF Handed
<1>3. SumTo(tr, packets, Len(packets)) \in Nat
  <2>1. Len(packets) \in 0..Len(packets)
    BY <1>1
  <2> QED BY <1>1, <2>1, SumIs
<1> QED BY <1>1, <1>2, <1>3, BeforeIs

(* What recvRaw makes of a body: nothing that was sent, or a packet whose   *)
(* first word is the first unit that was read.                             *)
LEMMA PieceReceived ==
  ASSUME Typed, size \in Nat, phase = "body", NEW piece \in Seq(OnWire), Len(piece) = Need,
         NEW a \in Nat, NEW m \in Nat, Rises(piece, a, m)
  PROVE  \/ Received(piece) = 0
         \/ /\ Received(piece) \in 1..Len(packets)
            /\ a < FirstWord(Received(piece)) /\ FirstWord(Received(piece)) <= m
<1> DEFINE c == BodyUnits(Stripped(tr, size))
           words == SubSeq(piece, 1, c)
           n == words[1].pkt
           H == Len(Encode(tr, packets[n]))
           whole == /\ Clear(piece) /\ words # <<>>
                    /\ Consecutive(words, H + 1)
                    /\ Len(words) = BodyUnits(Stripped(tr, packets[n]))
<1>1. Received(piece) = IF whole THEN n ELSE 0
  BY DEF Received
<1>2. ASSUME whole PROVE n \in 1..Len(packets) /\ a < FirstWord(n) /\ FirstWord(n) <= m
  <2>1. Len(piece) = BodyUnits(size) /\ Len(piece) \in Nat
    BY LenProperties DEF Need
  <2>2. c \in 0..Len(piece)
    <3>1. Stripped(tr, size) \in 0..size
      BY DEF Stripped
    <3>2. \A x \in 0..size : BodyUnits(x) \in 0..BodyUnits(size)
      BY DEF BodyUnits
    <3> QED BY <2>1, <3>1, <3>2
  <2>3. Clear(piece) /\ words # <<>> /\ Consecutive(words, H + 1)
    BY <1>2
  <2> HIDE DEF c, whole
  <2>4. c # 0
    <3> SUFFICES ASSUME c = 0 PROVE FALSE
      OBVIOUS
    <3>1. words = SubSeq(piece, 1, 0)
      OBVIOUS
    <3> QED BY <2>1, <2>3, <3>1, SubSeqEmpty
  <2>5. words \in Seq(OnWire) /\ Len(words) = c /\ words[1] = piece[1]
    <3>1. \A i \in 1..c : piece[i] \in OnWire
      BY <2>2, ElementOfSeq
    <3>2. words \in Seq(OnWire) /\ Len(words) = c /\ \A i \in 1..c : words[i] = piece[i]
      BY <2>1, <2>2, <2>4, <3>1, SubSeqProperties
    <3>3. 1 \in 1..c
      BY <2>2, <2>4
    <3> QED BY <3>2, <3>3
  <2>6. 1 \in DOMAIN words /\ 1 \in DOMAIN piece /\ 1 \in 1..Len(piece)
    BY <2>1, <2>2, <2>4, <2>5, LenProperties
  <2> HIDE DEF words
  <2>7. IsData(piece[1]) /\ words[1].part = H + 1 + 1 - 1
    BY <2>3, <2>6 DEF Clear, Consecutive, IsData
  <2>8. piece[1] \in Sent
    <3>1. piece[1] \in OnWire
      BY <2>6, ElementOfSeq
    <3> QED BY <2>7, <3>1, OnWireIs
  <2>9. n \in 1..Len(packets) /\ piece[1].k = SumTo(tr, packets, n - 1) + words[1].part
    BY <2>5, <2>8 DEF Sent, Genuine
  <2>10. H \in Nat /\ H = HeadLen(tr, packets[n])
    <3> HIDE DEF n
    <3>1. tr \in Transports /\ packets[n] \in Bodies[tr]
      BY <2>9, PacketLens
    <3>2. HeadLen(tr, packets[n]) \in {1, 4}
      <4>1. PICK len \in Bodies[tr] : len = packets[n]
        BY <3>1
      <4> QED BY <3>1, <4>1, HeadSays
    <3> QED BY <3>2 DEF HeadLen
  <2>11. FirstWord(n) = piece[1].k
    <3>1. SumTo(tr, packets, n - 1) \in Nat
      <4>1. n - 1 \in 0..Len(packets) /\ tr \in Transports /\ packets \in Seq(Bodies[tr])
        BY <2>9, LenProperties DEF Typed
      <4> QED BY <4>1, SumIs
    <3> HIDE DEF n, H
    <3> QED BY <2>7, <2>9, <2>10, <3>1 DEF FirstWord
  <2>12. a < piece[1].k /\ piece[1].k <= m
    BY <2>6, <2>7 DEF Rises
  <2> QED BY <2>9, <2>11, <2>12
<1> HIDE DEF whole, n
<1>3. CASE whole
  BY <1>1, <1>2, <1>3
<1>4. CASE ~whole
  BY <1>1, <1>4
<1> QED BY <1>3, <1>4

LEMMA RisesWider ==
  ASSUME NEW s \in Seq(Unit), NEW a \in Nat, NEW m \in Nat, NEW n \in Nat, NEW b \in Nat, Rises(s, m, n), a <= m, n <= b
  PROVE  Rises(s, a, b)
<1>1. \A i \in 1..Len(s) : IsData(s[i]) => s[i].k \in Nat
  <2>1. \A i \in 1..Len(s) : s[i] \in Unit
    BY ElementOfSeq
  <2> QED BY <2>1, UnitFacts
<1> QED BY <1>1 DEF Rises

LEMMA AheadNow ==
  ASSUME NEW h, NEW f, NEW g, NEW w, NEW p, NEW a \in Nat, NEW b, Passed(a)', Climbs(h, f, g, w, p, a, b),
         have' = h, buf' = f, rec'.got = g, wire' = w, pending' = p, (Before(Len(packets)))' = b
  PROVE  Ahead'
BY DEF Ahead

LEMMA PassedStill ==
  ASSUME tr' = tr, packets' = packets, delivered' = delivered
  PROVE  \A a : Passed(a) => Passed(a)'
BY DEF Passed, FirstWord

LEMMA PassedMore ==
  ASSUME Typed, Handed, NEW a \in Nat, NEW b \in Nat, a <= b, Passed(a)
  PROVE  Passed(b)
<1>1. \A i \in 1..Len(delivered) : delivered[i] # 0 => FirstWord(delivered[i]) \in Nat
  <2>1. \A i \in 1..Len(delivered) : delivered[i] # 0 => delivered[i] \in 1..Len(packets)
    BY HandedOn
  <2> QED BY <2>1, FirstWordIs
<1> QED BY <1>1 DEF Passed

(* A packet whose first word lies ahead is later than all that came.       *)
LEMMA LaterThanAll ==
  ASSUME Typed, Handed, NEW a \in Nat, Passed(a), NEW n \in 1..Len(packets), a < FirstWord(n)
  PROVE  \A i \in 1..Len(delivered) : delivered[i] < n
<1> SUFFICES ASSUME NEW i \in 1..Len(delivered), ~(delivered[i] < n) PROVE FALSE
  OBVIOUS
<1>1. delivered[i] \in 0..Len(packets) /\ Len(packets) \in Nat
  BY HandedOn
<1>2. delivered[i] \in 1..Len(packets) /\ n \in 1..delivered[i] /\ delivered[i] # 0
  BY <1>1
<1>3. FirstWord(delivered[i]) <= a
  BY <1>2 DEF Passed
<1>4. FirstWord(n) <= FirstWord(delivered[i]) /\ FirstWord(delivered[i]) \in Nat /\ FirstWord(n) \in Nat
  <2>1. PICK d \in 1..Len(packets) : d = delivered[i]
    BY <1>2
  <2> QED BY <1>2, <2>1, FirstWordIs
<1> QED BY <1>3, <1>4

(* A unit more for the piece, in a stream that may be torn.                *)
LooselyTaken(piece, f, w, a, n) ==
  /\ piece \in Seq(OnWire) /\ Len(piece) = Len(have) + 1 /\ f \in Seq(OnWire) /\ w \in Seq(OnWire)
  /\ a <= n /\ Passed(a) /\ Rises(piece, a, n)
  /\ Climbs(piece, f, rec.got, w, pending, a, Before(Len(packets)))
  /\ Climbs(<<>>, f, rec.got, w, pending, n, Before(Len(packets)))

LEMMA TakesLoosely ==
  ASSUME Negotiated, Parts, Ahead, (IF kind = "tls" THEN buf ELSE wire) # <<>>
  PROVE  \E a, n \in Nat :
           IF kind = "tls" THEN LooselyTaken(Append(have, Head(buf)), Tail(buf), wire, a, n)
                           ELSE LooselyTaken(Append(have, Head(wire)), buf, Tail(wire), a, n)
<1> DEFINE b == Before(Len(packets))
           g == rec.got
<1>1. PICK a \in Nat : Passed(a) /\ Climbs(have, buf, g, wire, pending, a, b)
  BY DEF Ahead
<1>2. /\ have \in Seq(Unit) /\ buf \in Seq(Unit) /\ g \in Seq(Unit) /\ wire \in Seq(Unit) /\ pending \in Seq(Unit)
  BY AllTyped
<1>3. have \in Seq(OnWire) /\ buf \in Seq(OnWire) /\ wire \in Seq(OnWire)
  BY DEF Parts
<1> HIDE DEF b, g
<1>4. PICK m1 \in Nat, m2 \in Nat, m3 \in Nat, m4 \in Nat :
        Rises(have, a, m1) /\ Rises(buf, m1, m2) /\ Rises(g, m2, m3) /\ Rises(wire, m3, m4) /\ Rises(pending, m4, b)
  BY <1>1 DEF Climbs
<1>5. a <= m1 /\ m1 <= m2 /\ m2 <= m3
  BY <1>4 DEF Rises
<1>6. \A i \in Nat : Rises(<<>>, i, i)
  BY RisesHollow
<1>7. CASE kind = "tls"
  <2>1. buf # <<>>
    BY <1>7
  <2> DEFINE piece == Append(have, Head(buf))
             f == Tail(buf)
  <2>2. PICK n \in Nat : Rises(piece, a, n) /\ Rises(f, n, m2)
    BY <1>2, <1>4, <2>1, RisesShift
  <2>3. Head(buf) \in OnWire /\ f \in Seq(OnWire)
    BY <1>3, <2>1, Uncons
  <2>4. piece \in Seq(OnWire) /\ Len(piece) = Len(have) + 1
    BY <1>3, <2>3, AppendProperties
  <2> HIDE DEF piece, f
  <2>5. Climbs(piece, f, g, wire, pending, a, b)
    BY <1>4, <2>2, ClimbsOf
  <2>6. Climbs(<<>>, f, g, wire, pending, n, b)
    BY <1>4, <1>6, <2>2, ClimbsOf
  <2>7. a <= n
    BY <2>2 DEF Rises
  <2>8. LooselyTaken(piece, f, wire, a, n)
    BY <1>1, <1>3, <2>2, <2>3, <2>4, <2>5, <2>6, <2>7 DEF LooselyTaken, b, g
  <2> QED BY <1>7, <2>8 DEF piece, f
<1>8. CASE kind # "tls"
  <2>1. buf = <<>> /\ g = <<>> /\ wire # <<>>
    BY <1>8 DEF Negotiated, Quiet, NoRecord, g
  <2> DEFINE piece == Append(have, Head(wire))
             w == Tail(wire)
  <2>2. Rises(have, a, m3)
    BY <1>2, <1>4, <1>5, RisesWider
  <2>3. PICK n \in Nat : Rises(piece, a, n) /\ Rises(w, n, m4)
    BY <1>2, <1>4, <2>1, <2>2, RisesShift
  <2>4. Head(wire) \in OnWire /\ w \in Seq(OnWire)
    BY <1>3, <2>1, Uncons
  <2>5. piece \in Seq(OnWire) /\ Len(piece) = Len(have) + 1
    BY <1>3, <2>4, AppendProperties
  <2> HIDE DEF piece, w
  <2>6. Rises(buf, n, n) /\ Rises(g, n, n)
    BY <1>6, <2>1
  <2>7. Climbs(piece, buf, g, w, pending, a, b)
    BY <1>4, <2>3, <2>6, ClimbsOf
  <2>8. Climbs(<<>>, buf, g, w, pending, n, b)
    BY <1>4, <1>6, <2>3, <2>6, ClimbsOf
  <2>9. a <= n
    BY <2>3 DEF Rises
  <2>10. LooselyTaken(piece, buf, w, a, n)
    BY <1>1, <1>3, <2>3, <2>4, <2>5, <2>7, <2>8, <2>9 DEF LooselyTaken, b, g
  <2> QED BY <1>8, <2>10 DEF piece, w
<1> QED BY <1>7, <1>8

(* Whatever a head says, it is a length or an error.                       *)
LEMMA AnyHead ==
  ASSUME Typed, phase \in {"first", "ext"}, Piece, NEW piece \in Seq(OnWire), Len(piece) = Need, HeadDone(piece)
  PROVE  \/ phase = "first" /\ tr = "abridged" /\ Extended(<<Long>>)
         \/ \E len \in Nat : Sized(len)
<1>1. CASE ~Consecutive(piece, Len(head) + 1)
  <2>1. Garbage \subseteq Nat
    BY TunnelAssumption
  <2> QED BY <1>1, <2>1 DEF HeadDone
<1>2. CASE Consecutive(piece, Len(head) + 1)
  <2> DEFINE v == Values(piece)
             h == head \o v
  <2>1. piece \in Seq(Sent)
    <3>1. DOMAIN piece = 1..Len(piece) /\ Len(piece) \in Nat /\ \A i \in 1..Len(piece) : piece[i] \in OnWire
      BY LenProperties, ElementOfSeq
    <3>2. \A i \in 1..Len(piece) : piece[i] \in Sent
      BY <1>2, <3>1, OnWireIs DEF Consecutive, Clear, IsData
    <3>3. piece \in [1..Len(piece) -> Sent]
      BY <3>1, <3>2
    <3> QED BY <3>1, <3>3, FunSeq
  <2>2. v \in Seq(Nat) /\ Len(v) = Len(piece)
    BY <2>1, ValuesAre
  <2>3. IF phase = "first" /\ NeedsExt(tr, h) THEN Extended(h) ELSE Sized(Decode(tr, h))
    BY <1>2 DEF HeadDone
  <2> HIDE DEF v
  <2>4. CASE phase = "first"
    <3>1. h = v /\ Len(v) = FirstRead(tr)
      BY <2>2, <2>4, ConcatEmptySeq DEF Piece, Need
    <3>2. CASE NeedsExt(tr, h)
      BY <2>3, <2>4, <3>2 DEF NeedsExt
    <3>3. CASE ~NeedsExt(tr, h)
      <4>1. Decode(tr, v) \in Nat
        <5>1. CASE tr = "abridged"
          <6>1. Len(v) = 1 /\ v[1] \in Nat
            BY <2>2, <3>1, <5>1, ElementOfSeq DEF FirstRead
          <6>2. 4 * v[1] \in Nat
            BY <6>1
          <6> QED BY <5>1, <6>1, <6>2 DEF Decode
        <5>2. CASE tr # "abridged"
          <6>1. Len(v) = 4
            BY <3>1, <5>2 DEF FirstRead
          <6> QED BY <2>2, <5>2, <6>1, ValueTypes DEF Decode
        <5> QED BY <5>1, <5>2
      <4> QED BY <2>3, <3>1, <3>3, <4>1
    <3> QED BY <3>2, <3>3
  <2>5. CASE phase = "ext"
    <3>1. tr = "abridged" /\ head = <<Long>> /\ Len(v) = 3
      BY <2>2, <2>5 DEF Piece, Need, ExtRead
    <3>2. Long \in Nat
      BY FramingAssumption
    <3>3. h = <<Long>> \o v
      BY <3>1
    <3>4. Len(<<Long>> \o v) = Len(v) + 1 /\ Tail(<<Long>> \o v) = v
      BY <2>2, <3>2, Cons
    <3>5. Len(h) = 4 /\ Tail(h) = v
      BY <3>1, <3>3, <3>4
    <3> HIDE DEF h
    <3>6. Value(v) \in Nat
      BY <2>2, <3>1, ValueTypes
    <3>7. Decode(tr, h) = 4 * Value(v)
      <4>1. tr = "abridged" /\ Len(h) # 1
        BY <3>1, <3>5
      <4>2. Decode(tr, h) = 4 * Value(Tail(h))
        BY <4>1 DEF Decode
      <4> QED BY <3>5, <4>2
    <3>8. 4 * Value(v) \in Nat
      BY <3>6
    <3> QED BY <2>3, <2>5, <3>7, <3>8
  <2> QED BY <2>4, <2>5
<1> QED BY <1>1, <1>2

(* The parts again, when the packets sent are the same.                    *)
LEMMA PartsNow ==
  ASSUME tr' = tr, packets' = packets, have' \in Seq(OnWire), buf' \in Seq(OnWire), wire' \in Seq(OnWire),
         pending' \in Seq(Sent), rec' \in LooseReads
  PROVE  Parts'
<1>1. Sent' = Sent /\ OnWire' = OnWire
  BY SameStream
<1>2. LooseReads' = LooseReads
  BY <1>1 DEF LooseReads
<1> QED BY <1>1, <1>2 DEF Parts

LEMMA TakeIsLoose ==
  ASSUME Negotiated, Orderly, Take
  PROVE  \E piece : \E a, n \in Nat :
           /\ LooselyTaken(piece, buf', wire', a, n) /\ phase \in {"first", "ext", "body"}
           /\ Handed /\ Parts /\ Piece
           /\ UNCHANGED <<kind, tr, packets, pending, rec, pc>>
           /\ IF Len(piece) < Need
              THEN have' = piece /\ UNCHANGED <<dec, phase, head, size, delivered, torn>>
              ELSE IF phase = "body" THEN BodyDone(piece) ELSE HeadDone(piece) /\ UNCHANGED delivered
<1> DEFINE from == IF kind = "tls" THEN buf ELSE wire
           piece == Append(have, Head(from))
<1>1. /\ from # <<>> /\ Reading
      /\ IF kind = "tls" THEN buf' = Tail(buf) /\ UNCHANGED wire ELSE wire' = Tail(wire) /\ UNCHANGED buf
      /\ IF Len(piece) < Need
         THEN have' = piece /\ UNCHANGED <<dec, phase, head, size, delivered, torn>>
         ELSE IF phase = "body" THEN BodyDone(piece) ELSE HeadDone(piece) /\ UNCHANGED delivered
  BY DEF Take
<1>2. UNCHANGED <<kind, tr, packets, pending, rec, pc>>
  BY DEF Take, route, setup
<1>3. Handed /\ Parts /\ Piece /\ Ahead
  BY <1>1 DEF Reading, Orderly
<1>4. phase \in {"first", "ext", "body"}
  BY <1>1, <1>3 DEF Reading, Piece
<1>5. PICK a \in Nat, n \in Nat : LooselyTaken(piece, buf', wire', a, n)
  BY <1>1, <1>3, TakesLoosely
<1> HIDE DEF piece, from
<1> QED BY <1>1, <1>2, <1>3, <1>4, <1>5

(* Once the piece is complete, what follows it comes next.                 *)
LEMMA TakenOrderly ==
  ASSUME Negotiated, Parts, UNCHANGED <<kind, tr, packets, pending, rec>>,
         NEW piece, NEW a \in Nat, NEW n \in Nat, LooselyTaken(piece, buf', wire', a, n),
         \/ have' = piece /\ Passed(a)'
         \/ have' = <<>> /\ Passed(n)'
  PROVE  Parts' /\ Ahead'
<1> DEFINE b == Before(Len(packets))
           g == rec.got
           p == pending
<1>1. /\ piece \in Seq(OnWire) /\ buf' \in Seq(OnWire) /\ wire' \in Seq(OnWire)
      /\ Climbs(piece, buf', g, wire', p, a, b) /\ Climbs(<<>>, buf', g, wire', p, n, b)
  BY DEF LooselyTaken
<1>2. (Before(Len(packets)))' = b
  BY SameStream
<1>3. Parts'
  <2>1. have' \in Seq(OnWire)
    <3>1. <<>> \in Seq(OnWire)
      OBVIOUS
    <3> QED BY <1>1, <3>1
  <2>2. pending' \in Seq(Sent) /\ rec' \in LooseReads
    BY DEF Parts
  <2> QED BY <1>1, <2>1, <2>2, PartsNow
<1>4. rec'.got = g /\ pending' = p
  OBVIOUS
<1> HIDE DEF b, g, p
<1>5. CASE have' = piece /\ Passed(a)'
  BY <1>1, <1>2, <1>3, <1>4, <1>5, AheadNow
<1>6. CASE have' = <<>> /\ Passed(n)'
  BY <1>1, <1>2, <1>3, <1>4, <1>6, AheadNow
<1> QED BY <1>3, <1>5, <1>6

LEMMA TakeBodyLoosely ==
  ASSUME Negotiated, Handed, Parts, Piece, UNCHANGED <<kind, tr, packets, pending, rec>>, phase = "body",
         NEW piece, NEW a \in Nat, NEW n \in Nat, LooselyTaken(piece, buf', wire', a, n),
         Len(piece) = Need, BodyDone(piece)
  PROVE  Handed' /\ Parts' /\ Piece' /\ Ahead'
<1> DEFINE r == Received(piece)
           L == Len(packets)
<1>1. /\ delivered' = Append(delivered, r)
      /\ phase' = "idle" /\ head' = <<>> /\ have' = <<>> /\ torn' = (torn \/ FALSE)
  BY DEF BodyDone, Return
<1>2. Typed /\ size \in Nat /\ piece \in Seq(OnWire) /\ Rises(piece, a, n) /\ a <= n /\ Passed(a)
  BY DEF Negotiated, Piece, LooselyTaken
<1>3. r = 0 \/ (r \in 1..L /\ FirstWord(r) <= n)
  <2>1. \/ Received(piece) = 0
        \/ /\ Received(piece) \in 1..Len(packets)
           /\ a < FirstWord(Received(piece)) /\ FirstWord(Received(piece)) <= n
    BY <1>2, PieceReceived
  <2> QED BY <2>1
<1>4. Passed(n) /\ L \in Nat /\ delivered \in Seq(0..L)
  BY <1>2, PassedMore, HandedOn DEF Handed
<1> HIDE DEF r
<1>5. r \in 0..L
  BY <1>3, <1>4
<1>6. Handed'
  <2>1. delivered' \in Seq(0..L)
    BY <1>1, <1>4, <1>5, AppendProperties
  <2>2. torn' \in BOOLEAN /\ Len(packets)' = L
    BY <1>1 DEF Handed
  <2> QED BY <2>1, <2>2 DEF Handed
<1>7. Passed(n)'
  <2>1. Len(delivered') = Len(delivered) + 1 /\ delivered'[Len(delivered) + 1] = r /\ Len(delivered) \in Nat
        /\ \A i \in 1..Len(delivered) : delivered'[i] = delivered[i]
    BY <1>1, <1>4, <1>5, AppendProperties, LenProperties
  <2>2. \A m : FirstWord(m)' = FirstWord(m)
    BY DEF FirstWord
  <2>3. ASSUME NEW i \in 1..Len(delivered'), delivered'[i] # 0 PROVE FirstWord(delivered'[i]) <= n
    <3>1. i \in 1..Len(delivered) \/ i = Len(delivered) + 1
      BY <2>1
    <3>2. CASE i \in 1..Len(delivered)
      BY <1>4, <2>1, <2>3, <3>2 DEF Passed
    <3>3. CASE i = Len(delivered) + 1
      BY <1>3, <2>1, <2>3, <3>3
    <3> QED BY <3>1, <3>2, <3>3
  <2> QED BY <2>2, <2>3 DEF Passed
<1>8. Parts' /\ Ahead'
  BY <1>1, <1>7, TakenOrderly
<1>9. Piece'
  BY <1>1 DEF Piece
<1> QED BY <1>6, <1>8, <1>9

LEMMA TakeHeadLoosely ==
  ASSUME Negotiated, Handed, Parts, Piece, UNCHANGED <<kind, tr, packets, pending, rec, delivered>>,
         phase \in {"first", "ext"},
         NEW piece, NEW a \in Nat, NEW n \in Nat, LooselyTaken(piece, buf', wire', a, n),
         Len(piece) = Need, HeadDone(piece)
  PROVE  Handed' /\ Parts' /\ Piece' /\ Ahead'
<1>1. Typed /\ piece \in Seq(OnWire) /\ a <= n /\ Passed(a)
  BY DEF Negotiated, LooselyTaken
<1>2. \/ phase = "first" /\ tr = "abridged" /\ Extended(<<Long>>)
      \/ \E len \in Nat : Sized(len)
  BY <1>1, AnyHead
<1>3. have' = <<>> /\ Piece' /\ (torn' = torn \/ torn' = TRUE)
  <2>1. CASE tr = "abridged" /\ Extended(<<Long>>)
    BY <2>1 DEF Extended, Piece, ExtRead
  <2>2. ASSUME NEW len \in Nat, Sized(len) PROVE have' = <<>> /\ Piece' /\ (torn' = torn \/ torn' = TRUE)
    <3>1. CASE Accepted(len)
      <4>1. phase' = "body" /\ size' = len /\ have' = <<>> /\ torn' = torn
        BY <2>2, <3>1 DEF Sized
      <4>2. BodyUnits(len) > 0 /\ BodyUnits(len) \in Nat
        BY <3>1, WordsOf DEF Accepted
      <4>3. (BodyUnits(size))' = BodyUnits(len)
        BY <4>1 DEF BodyUnits
      <4>4. Len(have') = 0
        BY <4>1
      <4> QED BY <4>1, <4>2, <4>3, <4>4 DEF Piece
    <3>2. CASE ~Accepted(len)
      <4>1. phase' = "idle" /\ head' = <<>> /\ have' = <<>> /\ torn' = (torn \/ TRUE)
        BY <2>2, <3>2 DEF Sized, Return
      <4> QED BY <4>1 DEF Piece
    <3> QED BY <3>1, <3>2
  <2> QED BY <1>2, <2>1, <2>2
<1>4. Handed'
  BY <1>3 DEF Handed
<1>5. Passed(n)'
  BY <1>1, PassedMore, PassedStill
<1>6. Parts' /\ Ahead'
  BY <1>3, <1>5, TakenOrderly
<1> QED BY <1>3, <1>4, <1>6

LEMMA PieceNeeds ==
  ASSUME Piece, phase # "idle"
  PROVE  Need \in Nat /\ Len(have) < Need
<1>1. /\ phase = "body" => size \in Nat /\ Len(have) < BodyUnits(size)
      /\ phase = "first" => Len(have) < FirstRead(tr)
      /\ phase = "ext" => Len(have) < ExtRead
  BY DEF Piece
<1>2. FirstRead(tr) \in Nat /\ ExtRead \in Nat
  BY DEF FirstRead, ExtRead
<1>3. phase = "body" => BodyUnits(size) \in Nat
  BY <1>1, WordsOf
<1> QED BY <1>1, <1>2, <1>3 DEF Need, Piece

LEMMA OrderlyTake ==
  ASSUME Negotiated, Orderly, Take
  PROVE  Orderly'
<1>1. PICK piece : \E a, n \in Nat :
        /\ LooselyTaken(piece, buf', wire', a, n) /\ phase \in {"first", "ext", "body"}
        /\ Handed /\ Parts /\ Piece
        /\ UNCHANGED <<kind, tr, packets, pending, rec, pc>>
        /\ IF Len(piece) < Need
           THEN have' = piece /\ UNCHANGED <<dec, phase, head, size, delivered, torn>>
           ELSE IF phase = "body" THEN BodyDone(piece) ELSE HeadDone(piece) /\ UNCHANGED delivered
  BY TakeIsLoose
<1>2. PICK a \in Nat, n \in Nat : LooselyTaken(piece, buf', wire', a, n)
  BY <1>1
<1>3. CASE Len(piece) < Need
  <2>1. have' = piece /\ UNCHANGED <<dec, phase, head, size, delivered, torn>>
    BY <1>1, <1>3
  <2>2. Passed(a)'
    BY <1>1, <1>2, <2>1, PassedStill DEF LooselyTaken
  <2>3. Parts' /\ Ahead'
    BY <1>1, <1>2, <2>1, <2>2, TakenOrderly
  <2>4. Piece'
    <3>1. (phase = "first" => Len(piece) < FirstRead(tr)) /\ (phase = "ext" => Len(piece) < ExtRead)
          /\ (phase = "body" => Len(piece) < BodyUnits(size))
      BY <1>3 DEF Need
    <3>2. (BodyUnits(size))' = BodyUnits(size) /\ FirstRead(tr)' = FirstRead(tr)
      BY <1>1, <2>1 DEF BodyUnits, FirstRead
    <3> QED BY <1>1, <2>1, <3>1, <3>2 DEF Piece
  <2>5. Handed'
    BY <1>1, <2>1 DEF Handed
  <2> QED BY <2>3, <2>4, <2>5 DEF Orderly
<1>4. CASE ~(Len(piece) < Need)
  <2>1. Len(piece) = Need
    <3>1. Len(piece) = Len(have) + 1 /\ Len(have) \in Nat
      BY <1>1, <1>2, LenProperties DEF LooselyTaken, Parts
    <3>2. Need \in Nat /\ Len(have) < Need
      BY <1>1, PieceNeeds
    <3> QED BY <1>4, <3>1, <3>2
  <2>2. CASE phase = "body"
    <3>1. BodyDone(piece)
      BY <1>1, <1>4, <2>2
    <3> QED BY <1>1, <1>2, <2>1, <2>2, <3>1, TakeBodyLoosely DEF Orderly
  <2>3. CASE phase # "body"
    <3>1. HeadDone(piece) /\ UNCHANGED delivered /\ phase \in {"first", "ext"}
      BY <1>1, <1>4, <2>3
    <3> QED BY <1>1, <1>2, <2>1, <3>1, TakeHeadLoosely DEF Orderly
  <2> QED BY <2>2, <2>3
<1> QED BY <1>3, <1>4

-----------------------------------------------------------------------------
(* A record is read on: its next unit is kept, or it is dropped.           *)
LEMMA ReadClimbs ==
  ASSUME NEW h \in Seq(Unit), NEW g \in Seq(Unit), NEW w \in Seq(Unit), NEW p \in Seq(Unit), w # <<>>,
         NEW a \in Nat, NEW b, Climbs(h, <<>>, g, w, p, a, b),
         NEW h2 \in {h, <<>>}, NEW f2, NEW g2,
         \/ f2 = <<>> /\ g2 \in {g, <<>>, Append(g, Head(w))}
         \/ f2 = Append(g, Head(w)) /\ g2 = <<>>
  PROVE  Climbs(h2, f2, g2, Tail(w), p, a, b)
<1> DEFINE e == <<>>
           x == Append(g, Head(w))
           v == Tail(w)
<1>1. PICK m1 \in Nat, m2 \in Nat, m3 \in Nat, m4 \in Nat :
        Rises(h, a, m1) /\ Rises(e, m1, m2) /\ Rises(g, m2, m3) /\ Rises(w, m3, m4) /\ Rises(p, m4, b)
  BY DEF Climbs
<1>2. a <= m1 /\ m1 <= m2 /\ m2 <= m3 /\ m3 <= m4
  BY <1>1 DEF Rises
<1>3. \A i, j \in Nat : i <= j => Rises(e, i, j)
  BY RisesHollow
<1>4. Rises(h2, a, m1)
  BY <1>1, <1>2, <1>3
<1>5. x \in Seq(Unit) /\ Rises(v, m3, m4) /\ \E n \in Nat : Rises(x, m2, n) /\ Rises(v, n, m4)
  BY <1>1, RisesShift
<1>6. PICK n \in Nat : Rises(x, m2, n) /\ Rises(v, n, m4)
  BY <1>5
<1>7. n <= n /\ m2 <= m2
  OBVIOUS
<1>8. \/ f2 = e /\ g2 \in {g, e, x}
      \/ f2 = x /\ g2 = e
  OBVIOUS
<1> HIDE DEF e, x, v
<1>9. CASE f2 = e /\ g2 = g
  BY <1>1, <1>4, <1>5, <1>9, ClimbsOf DEF v
<1>10. CASE f2 = e /\ g2 = e
  <2>1. Rises(e, m2, m3)
    BY <1>2, <1>3
  <2> QED BY <1>1, <1>4, <1>5, <1>10, <2>1, ClimbsOf DEF v
<1>11. CASE f2 = e /\ g2 = x
  BY <1>1, <1>4, <1>6, <1>11, ClimbsOf DEF v
<1>12. CASE f2 = x /\ g2 = e
  <2>1. Rises(x, m1, n)
    BY <1>2, <1>5, <1>6, <1>7, RisesWider
  <2>2. Rises(e, n, n)
    BY <1>3, <1>7
  <2> QED BY <1>1, <1>4, <1>6, <1>12, <2>1, <2>2, ClimbsOf DEF v
<1> QED BY <1>8, <1>9, <1>10, <1>11, <1>12

(* The next unit of a record, in a stream that may be torn.                *)
ReadsLoosely ==
  /\ rec' \in LooseReads
  /\ \/ buf' = <<>> /\ rec'.got \in {rec.got, <<>>, Append(rec.got, Head(wire))}
     \/ buf' = Append(rec.got, Head(wire)) /\ rec'.got = <<>>
  /\ \/ UNCHANGED <<phase, head, size, have, torn>>
     \/ phase' = "idle" /\ head' = <<>> /\ have' = <<>> /\ torn' \in BOOLEAN

LEMMA FreshRecord == NoRecord \in LooseReads /\ NoRecord.got = <<>> /\ NoRecord.at = "type"
<1>1. <<>> \in Seq(OnWire)
  OBVIOUS
<1> QED BY <1>1 DEF NoRecord, LooseReads

LEMMA ReadChanges ==
  ASSUME NEW r \in LooseReads, NEW n \in Int, NEW g \in Seq(OnWire)
  PROVE  /\ [r EXCEPT !.at = "body", !.left = n] \in LooseReads
         /\ [r EXCEPT !.at = "body", !.left = n].got = r.got
         /\ [r EXCEPT !.left = @ - 1, !.got = g] \in LooseReads
         /\ [r EXCEPT !.left = @ - 1, !.got = g].got = g
<1> DEFINE G == Seq(OnWire)
           T == RecordTypes \cup {"none"}
<1>1. g \in G /\ LooseReads = [at : {"type", "len", "body"}, type : T, left : Int, got : G]
  BY DEF LooseReads
<1> HIDE DEF G, T
<1>2. r.left - 1 \in Int
  BY <1>1
<1> QED BY <1>1, <1>2

LEMMA DoneLoosely ==
  ASSUME Handed, Parts, buf = <<>>, wire # <<>>, NEW type, NEW got, RecordDone(type, got),
         got \in {<<>>, Append(rec.got, Head(wire))}
  PROVE  ReadsLoosely
<1>1. CASE type \in {"app", "ccs"}
  <2>1. rec' = NoRecord /\ (buf' = got \/ buf' = buf) /\ UNCHANGED decoder
    BY <1>1 DEF RecordDone
  <2>2. rec' \in LooseReads /\ rec'.got = <<>>
    BY <2>1, FreshRecord
  <2>3. UNCHANGED <<phase, head, size, have, torn>>
    BY <2>1 DEF decoder
  <2> QED BY <2>1, <2>2, <2>3 DEF ReadsLoosely
<1>2. CASE type \notin {"app", "ccs"}
  <2>1. /\ rec' = NoRecord /\ buf' = buf /\ phase' = "idle" /\ head' = <<>> /\ have' = <<>>
        /\ torn' = (torn \/ (phase # "first" \/ have # <<>> \/ FALSE))
    BY <1>2 DEF RecordDone, Abandon, Return
  <2>2. rec' \in LooseReads /\ rec'.got = <<>>
    BY <2>1, FreshRecord
  <2>3. torn' \in BOOLEAN
    BY <2>1 DEF Handed
  <2> QED BY <2>1, <2>2, <2>3 DEF ReadsLoosely
<1> QED BY <1>1, <1>2

LEMMA RecordLoosely ==
  ASSUME Handed, Parts, ReadRecord
  PROVE  /\ ReadsLoosely /\ buf = <<>> /\ wire # <<>> /\ wire' = Tail(wire)
         /\ UNCHANGED <<kind, tr, packets, pending, delivered, pc>>
<1> DEFINE u == Head(wire)
<1>1. buf = <<>> /\ wire # <<>> /\ wire' = Tail(wire) /\ UNCHANGED <<kind, tr, packets, pending, pc>>
  BY DEF ReadRecord, route, setup
<1>2. u \in Unit /\ u \in OnWire
  BY <1>1, AllTyped, Uncons DEF Parts
<1>3. rec \in LooseReads /\ rec.got \in Seq(OnWire)
  BY AllTyped DEF Parts
<1>4. CASE rec.at = "type"
  <2>1. PICK type \in (IF u.of = "type" THEN {u.val} ELSE {"app", "ccs", "alert"}) :
          rec' = [rec EXCEPT !.at = "len", !.type = type] /\ UNCHANGED <<buf, dec, decoder>>
    BY <1>4 DEF ReadRecord
  <2>2. type \in RecordTypes
    BY <1>2, UnitFacts DEF RecordTypes
  <2>3. rec' \in LooseReads /\ rec'.got = rec.got
    BY <1>3, <2>1, <2>2 DEF LooseReads
  <2> QED BY <1>1, <2>1, <2>3 DEF ReadsLoosely, decoder
<1>5. CASE rec.at = "len"
  <2>1. PICK n \in (IF u.of = "len" THEN {u.val} ELSE Garbage) :
          IF n = 0 THEN RecordDone(rec.type, <<>>)
          ELSE rec' = [rec EXCEPT !.at = "body", !.left = n] /\ UNCHANGED <<buf, dec, decoder>>
    BY <1>5 DEF ReadRecord
  <2>2. n \in Nat
    BY <1>2, UnitFacts, TunnelAssumption
  <2>3. CASE n = 0
    <3>1. RecordDone(rec.type, <<>>)
      BY <2>1, <2>3
    <3>2. UNCHANGED delivered
      BY <3>1 DEF RecordDone, Abandon, decoder
    <3> QED BY <1>1, <3>1, <3>2, DoneLoosely
  <2>4. CASE n # 0
    <3>1. rec' = [rec EXCEPT !.at = "body", !.left = n] /\ UNCHANGED <<buf, dec, decoder>>
      BY <2>1, <2>4
    <3>2. n \in Int
      BY <2>2
    <3>3. /\ [rec EXCEPT !.at = "body", !.left = n] \in LooseReads
          /\ [rec EXCEPT !.at = "body", !.left = n].got = rec.got
      BY <1>3, <3>2, ReadChanges
    <3>4. rec' \in LooseReads /\ rec'.got = rec.got
      BY <3>1, <3>3
    <3> QED BY <1>1, <3>1, <3>4 DEF ReadsLoosely, decoder
  <2> QED BY <2>3, <2>4
<1>6. CASE rec.at = "body"
  <2>1. IF rec.left = 1 THEN RecordDone(rec.type, Append(rec.got, u))
        ELSE /\ rec' = [rec EXCEPT !.left = @ - 1, !.got = Append(@, u)]
             /\ UNCHANGED <<buf, dec, decoder>>
    BY <1>6 DEF ReadRecord
  <2>2. CASE rec.left = 1
    <3>1. RecordDone(rec.type, Append(rec.got, u))
      BY <2>1, <2>2
    <3>2. UNCHANGED delivered
      BY <3>1 DEF RecordDone, Abandon, decoder
    <3> QED BY <1>1, <3>1, <3>2, DoneLoosely
  <2>3. CASE rec.left # 1
    <3>1. rec' = [rec EXCEPT !.left = @ - 1, !.got = Append(@, u)] /\ UNCHANGED <<buf, dec, decoder>>
      BY <2>1, <2>3
    <3>2. Append(rec.got, u) \in Seq(OnWire)
      BY <1>2, <1>3, AppendProperties
    <3> HIDE DEF u
    <3>3. rec' \in LooseReads /\ rec'.got = Append(rec.got, u)
      <4>1. rec' = [rec EXCEPT !.left = @ - 1, !.got = Append(rec.got, u)]
        BY <3>1
      <4>2. 0 \in Int
        OBVIOUS
      <4> QED BY <1>3, <3>2, <4>1, <4>2, ReadChanges
    <3> QED BY <1>1, <3>1, <3>3 DEF ReadsLoosely, decoder, u
  <2> QED BY <2>2, <2>3
<1> QED BY <1>3, <1>4, <1>5, <1>6 DEF LooseReads

LEMMA OrderlyReadRecord ==
  ASSUME Negotiated, Orderly, ReadRecord
  PROVE  Orderly'
<1>1. Handed /\ Parts /\ Piece /\ Ahead
  BY DEF ReadRecord, Reading, Orderly
<1>2. /\ ReadsLoosely /\ buf = <<>> /\ wire # <<>> /\ wire' = Tail(wire)
      /\ UNCHANGED <<kind, tr, packets, pending, delivered, pc>>
  BY <1>1, RecordLoosely
<1>3. /\ rec' \in LooseReads
      /\ \/ buf' = <<>> /\ rec'.got \in {rec.got, <<>>, Append(rec.got, Head(wire))}
         \/ buf' = Append(rec.got, Head(wire)) /\ rec'.got = <<>>
      /\ \/ UNCHANGED <<phase, head, size, have, torn>>
         \/ phase' = "idle" /\ head' = <<>> /\ have' = <<>> /\ torn' \in BOOLEAN
  BY <1>2 DEF ReadsLoosely
<1>4. /\ have \in Seq(OnWire) /\ wire \in Seq(OnWire) /\ pending \in Seq(Sent) /\ rec.got \in Seq(OnWire)
      /\ have \in Seq(Unit) /\ wire \in Seq(Unit) /\ pending \in Seq(Unit) /\ rec.got \in Seq(Unit)
  BY <1>1, AllTyped DEF Parts
<1>5. Handed'
  <2>1. torn' \in BOOLEAN
    BY <1>1, <1>3 DEF Handed
  <2> QED BY <1>1, <1>2, <2>1 DEF Handed
<1>6. Piece'
  <2>1. CASE UNCHANGED <<phase, head, size, have, torn>>
    <3>1. (BodyUnits(size))' = BodyUnits(size) /\ FirstRead(tr)' = FirstRead(tr)
      BY <1>2, <2>1 DEF BodyUnits, FirstRead
    <3> QED BY <1>1, <1>2, <2>1, <3>1 DEF Piece
  <2>2. CASE phase' = "idle" /\ head' = <<>> /\ have' = <<>>
    BY <2>2 DEF Piece
  <2> QED BY <1>3, <2>1, <2>2
<1>7. Parts'
  <2>1. Head(wire) \in OnWire /\ wire' \in Seq(OnWire)
    BY <1>2, <1>4, Uncons
  <2>2. Append(rec.got, Head(wire)) \in Seq(OnWire) /\ <<>> \in Seq(OnWire)
    BY <1>4, <2>1, AppendProperties
  <2>3. have' \in Seq(OnWire) /\ buf' \in Seq(OnWire)
    BY <1>3, <1>4, <2>2
  <2> QED BY <1>2, <1>3, <1>4, <2>1, <2>3, PartsNow
<1>8. Ahead'
  <2> DEFINE b == Before(Len(packets))
             g == rec.got
             p == pending
  <2>1. PICK a \in Nat : Passed(a) /\ Climbs(have, <<>>, g, wire, p, a, b)
    BY <1>1, <1>2 DEF Ahead
  <2>2. Passed(a)'
    BY <1>2, <2>1, PassedStill
  <2>3. (Before(Len(packets)))' = b /\ pending' = p
    BY <1>2, SameStream
  <2>4. g \in Seq(Unit) /\ p \in Seq(Unit)
    BY <1>4
  <2>5. have' \in {have, <<>>}
    BY <1>3
  <2>6. \/ buf' = <<>> /\ rec'.got \in {g, <<>>, Append(g, Head(wire))}
        \/ buf' = Append(g, Head(wire)) /\ rec'.got = <<>>
    BY <1>3
  <2> HIDE DEF b, g, p
  <2>7. Climbs(have', buf', rec'.got, wire', p, a, b)
    <3>1. PICK h2, f2, g2 : h2 = have' /\ f2 = buf' /\ g2 = rec'.got
      OBVIOUS
    <3>2. h2 \in {have, <<>>}
      BY <2>5, <3>1
    <3>3. \/ f2 = <<>> /\ g2 \in {g, <<>>, Append(g, Head(wire))}
          \/ f2 = Append(g, Head(wire)) /\ g2 = <<>>
      BY <2>6, <3>1
    <3>4. Climbs(h2, f2, g2, Tail(wire), p, a, b)
      BY <1>2, <1>4, <2>1, <2>4, <3>2, <3>3, ReadClimbs
    <3> QED BY <1>2, <3>1, <3>4
  <2> QED BY <2>2, <2>3, <2>7, AheadNow
<1> QED BY <1>5, <1>6, <1>7, <1>8 DEF Orderly

-----------------------------------------------------------------------------
(* A call begins or gives up, or nothing of the stream moves.              *)
LEMMA OrderlyKeeps ==
  ASSUME Negotiated, Orderly, UNCHANGED <<tr, packets, delivered, buf, wire, pending, pc>>,
         have' \in {have, <<>>}, rec' \in {rec, NoRecord}, torn' \in BOOLEAN, pc = "up" => Piece'
  PROVE  Orderly'
<1>1. Handed'
  BY DEF Orderly, Handed
<1>2. CASE pc = "up"
  <2> DEFINE b == Before(Len(packets))
             e == <<>>
             g == rec.got
             f == buf
             w == wire
             p == pending
  <2>1. Handed /\ Parts /\ Piece /\ Ahead
    BY <1>2 DEF Orderly
  <2>2. PICK a \in Nat : Passed(a) /\ Climbs(have, f, g, w, p, a, b)
    BY <2>1 DEF Ahead
  <2>3. have \in Seq(OnWire) /\ buf \in Seq(OnWire) /\ wire \in Seq(OnWire) /\ pending \in Seq(Sent) /\ rec \in LooseReads
    BY <2>1 DEF Parts
  <2>4. NoRecord \in LooseReads /\ NoRecord.got = e
    BY FreshRecord
  <2>5. e \in Seq(OnWire)
    OBVIOUS
  <2>6. Parts'
    <3>1. have' \in Seq(OnWire) /\ buf' \in Seq(OnWire) /\ wire' \in Seq(OnWire) /\ pending' \in Seq(Sent)
      BY <2>3, <2>5
    <3>2. rec' \in LooseReads
      BY <2>3, <2>4
    <3> QED BY <3>1, <3>2, PartsNow
  <2>7. Passed(a)'
    BY <2>2, PassedStill
  <2>8. (Before(Len(packets)))' = b /\ buf' = f /\ wire' = w /\ pending' = p
    BY SameStream
  <2>9. rec'.got \in {g, e} /\ have' \in {have, e}
    BY <2>4
  <2> HIDE DEF b, e, g, f, w, p
  <2>10. PICK m1 \in Nat, m2 \in Nat, m3 \in Nat, m4 \in Nat :
           Rises(have, a, m1) /\ Rises(f, m1, m2) /\ Rises(g, m2, m3) /\ Rises(w, m3, m4) /\ Rises(p, m4, b)
    BY <2>2 DEF Climbs
  <2>11. a <= m1 /\ m2 <= m3
    BY <2>10 DEF Rises
  <2>12. Rises(e, a, m1) /\ Rises(e, m2, m3)
    BY <2>11, RisesHollow DEF e
  <2>13. PICK h2, g2 : h2 = have' /\ g2 = rec'.got
    OBVIOUS
  <2>14. Rises(h2, a, m1) /\ Rises(g2, m2, m3)
    BY <2>9, <2>10, <2>12, <2>13
  <2>15. Climbs(h2, f, g2, w, p, a, b)
    BY <2>10, <2>14, ClimbsOf
  <2>16. Ahead'
    BY <2>7, <2>8, <2>13, <2>15, AheadNow
  <2> QED BY <1>1, <1>2, <2>6, <2>16 DEF Orderly
<1>3. CASE pc # "up"
  BY <1>1, <1>3 DEF Orderly
<1> QED BY <1>2, <1>3

LEMMA OrderlyRecv ==
  ASSUME Negotiated, Orderly, Recv
  PROVE  Orderly'
<1>1. /\ UNCHANGED <<tr, packets, delivered, buf, wire, pending, pc, have, head, rec, torn>>
      /\ phase = "idle" /\ phase' = "first" /\ pc = "up"
  BY DEF Recv, route, setup, far
<1>2. Handed /\ Piece /\ tr \in Transports
  BY <1>1 DEF Orderly, Negotiated, Typed
<1>3. torn' \in BOOLEAN
  BY <1>1, <1>2 DEF Handed
<1>4. Piece'
  <2>1. head' = <<>> /\ have' = <<>>
    BY <1>1, <1>2 DEF Piece
  <2>2. Len(have') = 0
    BY <2>1
  <2>3. 0 < FirstRead(tr)'
    BY DEF FirstRead
  <2> QED BY <1>1, <2>1, <2>2, <2>3 DEF Piece
<1> QED BY <1>1, <1>3, <1>4, OrderlyKeeps

LEMMA OrderlyTimeOut ==
  ASSUME Negotiated, Orderly, TimeOut
  PROVE  Orderly'
<1>1. /\ UNCHANGED <<tr, packets, delivered, buf, wire, pending, pc>> /\ pc = "up"
      /\ rec' = NoRecord /\ phase' = "idle" /\ head' = <<>> /\ have' = <<>>
      /\ torn' = (torn \/ (phase # "first" \/ have # <<>> \/ rec.at # "type"))
  BY DEF TimeOut, Reading, Abandon, Return, route, setup, far
<1>2. torn' \in BOOLEAN
  BY <1>1 DEF Orderly, Handed
<1>3. Piece'
  BY <1>1 DEF Piece
<1> QED BY <1>1, <1>2, <1>3, OrderlyKeeps

LEMMA OrderlyStill ==
  ASSUME Negotiated, Orderly, UNCHANGED <<tr, pc, wire, pending, packets, reader>>
  PROVE  Orderly'
<1>1. UNCHANGED <<rec, buf, phase, head, size, have, delivered, torn>>
  BY DEF reader, decoder
<1>2. torn' \in BOOLEAN
  BY <1>1 DEF Orderly, Handed
<1>3. pc = "up" => Piece'
  <2>1. (BodyUnits(size))' = BodyUnits(size) /\ FirstRead(tr)' = FirstRead(tr)
    BY <1>1 DEF BodyUnits, FirstRead
  <2> QED BY <1>1, <2>1 DEF Orderly, Piece
<1> QED BY <1>1, <1>2, <1>3, OrderlyKeeps

(* Before the connection is up there is nothing to hand out, and nothing on *)
(* the way when it comes up.                                               *)
LEMMA OrderlyQuiet ==
  ASSUME Negotiated', pc' # "up"
  PROVE  Orderly'
<1>1. delivered' = <<>> /\ torn' = FALSE
  BY DEF Negotiated, Quiet, Fresh
<1>2. <<>> \in Seq((0..Len(packets))')
  OBVIOUS
<1>3. Handed'
  BY <1>1, <1>2 DEF Handed
<1> QED BY <1>3 DEF Orderly

LEMMA OrderlyBegins ==
  ASSUME Negotiated, pc # "up", UNCHANGED <<kind, tr, pending, packets, reader>>, wire' = <<>>
  PROVE  Orderly'
<1> DEFINE e == <<>>
<1>1. /\ packets' = e /\ pending' = e /\ rec' = NoRecord /\ buf' = e
      /\ phase' = "idle" /\ head' = e /\ have' = e /\ delivered' = e /\ torn' = FALSE /\ wire' = e
      /\ tr' = tr /\ packets' = packets /\ Typed
  BY DEF Negotiated, Typed, Quiet, Fresh, reader, decoder
<1>2. \A S : e \in Seq(S)
  OBVIOUS
<1>3. NoRecord \in LooseReads /\ NoRecord.got = e
  BY FreshRecord
<1>4. Len(e) = 0
  OBVIOUS
<1> HIDE DEF e
<1>5. Parts'
  BY <1>1, <1>2, <1>3, PartsNow
<1>6. Piece'
  BY <1>1 DEF Piece, e
<1>7. Handed'
  BY <1>1, <1>2 DEF Handed
<1>8. Ahead'
  <2>1. SumTo(tr, packets, 0) = 0
    BY <1>1, SumIs DEF Typed
  <2>2. (Before(Len(packets)))' = 0
    BY <1>1, <1>4, <2>1, PlaceNow
  <2>3. 0 \in Nat /\ Rises(e, 0, 0)
    BY RisesHollow DEF e
  <2>4. Climbs(e, e, e, e, e, 0, 0)
    BY <2>3, ClimbsOf
  <2>5. Passed(0)'
    BY <1>1, <1>4 DEF Passed
  <2>6. rec'.got = e
    BY <1>1, <1>3
  <2> QED BY <1>1, <2>2, <2>3, <2>4, <2>5, <2>6, AheadNow
<1> QED BY <1>5, <1>6, <1>7, <1>8 DEF Orderly

LEMMA OrderlySetUp ==
  ASSUME Negotiated, Orderly, SetUp
  PROVE  Orderly'
<1>0. Negotiated'
  BY NegotiatedNext DEF Next
<1>1. CASE ReadReply
  <2>1. pc = "reply" /\ UNCHANGED <<kind, tr, pending, packets, reader>>
    BY <1>1 DEF ReadReply, route
  <2>2. pc' = "up" => wire' = <<>>
    BY <1>1, NegotiatedReply
  <2> QED BY <1>0, <2>1, <2>2, OrderlyBegins, OrderlyQuiet
<1>2. CASE WriteHeader
  <2>1. pc = "header" /\ UNCHANGED <<kind, tr, pending, packets, reader>>
    BY <1>2 DEF WriteHeader, route, far
  <2>2. wire' = <<>>
    BY <1>2, NegotiatedHeader
  <2> QED BY <2>1, <2>2, OrderlyBegins
<1>3. CASE Greet \/ Hail \/ ReadMethod \/ ReadAuth \/ WriteRequest \/ ReadHello \/ SetupFails
  <2>1. pc' # "up"
    BY <1>3 DEF Greet, Hail, ReadMethod, ReadAuth, WriteRequest, ReadHello, SetupFails, Proceed, Fail
  <2> QED BY <1>0, <2>1, OrderlyQuiet
<1> QED BY <1>1, <1>2, <1>3 DEF SetUp

-----------------------------------------------------------------------------
(* The far side puts a record on the wire.                                 *)
LEMMA RecordRises ==
  ASSUME NEW type \in RecordTypes, NEW units, IF type = "app" THEN units \in Seq(Sent) ELSE units \in Seq(Pads),
         NEW a \in Nat, NEW m \in Nat, Rises(units, a, m)
  PROVE  Record(type, units) \in Seq(OnWire) /\ Rises(Record(type, units), a, m)
<1> DEFINE t == [of |-> "type", val |-> type]
           l == [of |-> "len", val |-> Len(units)]
           c == <<t, l>>
<1>1. Record(type, units) \in Seq(OnWire) /\ units \in Seq(Unit)
  BY RecordIs
<1>2. Len(units) \in Nat
  BY <1>1, LenProperties
<1>3. t \in FrameUnit /\ l \in FrameUnit
  BY <1>2 DEF FrameUnit
<1>4. Record(type, units) = c \o units
  BY DEF Record
<1> HIDE DEF t, l
<1>5. c \in Seq(FrameUnit)
  BY <1>3
<1> HIDE DEF c
<1>6. c \in Seq(Unit) /\ Hollow(c)
  BY <1>5, FrameIsHollow
<1>7. Rises(c, a, a)
  BY <1>6, RisesHollow
<1>8. Rises(c \o units, a, m)
  BY <1>1, <1>6, <1>7, RisesConcat
<1> QED BY <1>1, <1>4, <1>8

YieldsLoosely(p, units, q) ==
  \A a, b \in Nat : Rises(p, a, b) => \E n \in Nat : Rises(units, a, n) /\ Rises(q, n, b)

LEMMA OrderlyPut ==
  ASSUME Negotiated, Orderly, pc = "up", UNCHANGED <<tr, packets, reader, pc>>,
         NEW type \in RecordTypes, NEW units, IF type = "app" THEN units \in Seq(Sent) ELSE units \in Seq(Pads),
         NEW q \in Seq(Sent), wire' = wire \o Record(type, units), pending' = q, YieldsLoosely(pending, units, q)
  PROVE  Orderly'
<1> DEFINE r == Record(type, units)
           v == wire \o r
           b == Before(Len(packets))
           g == rec.got
<1>1. UNCHANGED <<have, buf, rec, delivered, phase, head, size, torn>>
  BY DEF reader, decoder
<1>2. Handed /\ Parts /\ Piece /\ Ahead
  BY DEF Orderly
<1>3. Handed'
  BY <1>1, <1>2 DEF Handed
<1>4. Piece'
  <2>1. (BodyUnits(size))' = BodyUnits(size) /\ FirstRead(tr)' = FirstRead(tr)
    BY <1>1 DEF BodyUnits, FirstRead
  <2> QED BY <1>1, <1>2, <2>1 DEF Piece
<1>5. PICK a \in Nat : Passed(a) /\ Climbs(have, buf, g, wire, pending, a, b)
  BY <1>2 DEF Ahead
<1>6. /\ have \in Seq(OnWire) /\ buf \in Seq(OnWire) /\ wire \in Seq(OnWire) /\ rec \in LooseReads
      /\ wire \in Seq(Unit) /\ b \in Nat
  BY <1>2, AllTyped, HandedOn DEF Parts, Negotiated
<1>7. (Before(Len(packets)))' = b
  BY SameStream
<1>8. wire' = v
  OBVIOUS
<1>9. Passed(a)'
  BY <1>1, <1>5, PassedStill
<1> HIDE DEF b, g
<1>10. PICK m1 \in Nat, m2 \in Nat, m3 \in Nat, m4 \in Nat :
         Rises(have, a, m1) /\ Rises(buf, m1, m2) /\ Rises(g, m2, m3) /\ Rises(wire, m3, m4) /\ Rises(pending, m4, b)
  BY <1>5 DEF Climbs
<1>11. PICK n \in Nat : Rises(units, m4, n) /\ Rises(q, n, b)
  BY <1>6, <1>10 DEF YieldsLoosely
<1>12. r \in Seq(OnWire) /\ Rises(r, m4, n)
  BY <1>11, RecordRises
<1> HIDE DEF r
<1>13. r \in Seq(Unit)
  BY <1>12, OnWireIs, SeqWider
<1>14. Rises(v, m3, n) /\ v \in Seq(OnWire)
  BY <1>6, <1>10, <1>12, <1>13, RisesConcat, ConcatLen
<1> HIDE DEF v
<1>15. Parts'
  BY <1>1, <1>6, <1>8, <1>14, PartsNow
<1>16. PICK h, f, w : h = have /\ f = buf /\ w = v
  OBVIOUS
<1>17. Climbs(h, f, g, w, q, a, b)
  BY <1>10, <1>11, <1>14, <1>16, ClimbsOf
<1>18. have' = h /\ buf' = f /\ rec'.got = g /\ wire' = w /\ pending' = q
  BY <1>1, <1>8, <1>16 DEF g
<1>19. Ahead'
  BY <1>7, <1>9, <1>17, <1>18, AheadNow
<1> QED BY <1>3, <1>4, <1>15, <1>19 DEF Orderly

LEMMA OrderlyCuts ==
  ASSUME Negotiated, Orderly, NEW n \in Cuts, ServerCuts(n)
  PROVE  Orderly'
<1>1. pc = "up" /\ UNCHANGED <<route, packets, reader, setup>>
  BY NegotiatedCuts
<1>2. Parts
  BY <1>1 DEF Orderly
<1> DEFINE m == IF n < Len(pending) THEN n ELSE Len(pending)
           x == SubSeq(pending, 1, m)
           y == SubSeq(pending, m + 1, Len(pending))
<1>3. pending \in Seq(Sent) /\ pending # <<>> /\ wire' = wire \o Record("app", x) /\ pending' = y
  BY <1>2 DEF Parts, ServerCuts, Put
<1>4. m \in 1..Len(pending)
  <2>1. n \in Nat \ {0}
    BY TunnelAssumption
  <2>2. Len(pending) \in Nat \ {0}
    BY <1>3, LenProperties, EmptySeq
  <2> QED BY <2>1, <2>2
<1>5. x # <<>>
  <2>1. Len(x) = m /\ m > 0
    BY <1>3, <1>4, SubSeqProperties, ElementOfSeq
  <2> HIDE DEF x, m
  <2> SUFFICES ASSUME x = <<>> PROVE FALSE
    OBVIOUS
  <2>2. Len(x) = 0
    OBVIOUS
  <2> QED BY <2>1, <2>2
<1> HIDE DEF m
<1>6. x \in Seq(Sent) /\ y \in Seq(Sent) /\ x \o y = pending
  BY <1>3, <1>4, SplitAt
<1> HIDE DEF x, y
<1>7. YieldsLoosely(pending, x, y)
  <2>1. x \in Seq(Unit) /\ y \in Seq(Unit) /\ Solid(x)
    BY <1>6, SentIsSolid
  <2>2. ASSUME NEW a \in Nat, NEW b \in Nat, Rises(pending, a, b)
        PROVE  \E j \in Nat : Rises(x, a, j) /\ Rises(y, j, b)
    <3>1. Rises(x \o y, a, b)
      BY <1>6, <2>2
    <3> QED BY <1>5, <2>1, <3>1, RisesSplit
  <2> QED BY <2>2 DEF YieldsLoosely
<1>8. PICK u, q : u = x /\ q = y
  OBVIOUS
<1>9. u \in Seq(Sent) /\ q \in Seq(Sent) /\ wire' = wire \o Record("app", u) /\ pending' = q /\ YieldsLoosely(pending, u, q)
  BY <1>3, <1>6, <1>7, <1>8
<1>10. "app" \in RecordTypes /\ UNCHANGED <<tr, packets, reader, pc>>
  BY <1>1 DEF RecordTypes, route, setup
<1> QED BY <1>1, <1>9, <1>10, OrderlyPut

LEMMA OrderlyFills ==
  ASSUME Negotiated, Orderly, NEW type \in {"app", "ccs", "alert"}, ServerFills(type)
  PROVE  Orderly'
<1>1. pc = "up" /\ UNCHANGED <<route, packets, reader, setup>>
  BY NegotiatedCuts
<1>2. Parts
  BY <1>1 DEF Orderly
<1> DEFINE units == IF type = "app" THEN <<>> ELSE <<[of |-> "pad"]>>
<1>3. wire' = wire \o Record(type, units) /\ pending' = pending /\ pending \in Seq(Sent)
  BY <1>2 DEF ServerFills, Put, Parts
<1>4. /\ IF type = "app" THEN units \in Seq(Sent) ELSE units \in Seq(Pads)
      /\ units \in Seq(FrameUnit)
  <2>1. [of |-> "pad"] \in Pads /\ [of |-> "pad"] \in FrameUnit
    BY DEF Pads, FrameUnit
  <2>2. <<>> \in Seq(Sent) /\ <<>> \in Seq(FrameUnit)
    OBVIOUS
  <2>3. <<[of |-> "pad"]>> \in Seq(Pads) /\ <<[of |-> "pad"]>> \in Seq(FrameUnit)
    BY <2>1, One
  <2> QED BY <2>2, <2>3
<1> HIDE DEF units
<1>5. YieldsLoosely(pending, units, pending)
  <2>1. Hollow(units)
    BY <1>4, FrameIsHollow
  <2>2. \A a \in Nat : Rises(units, a, a)
    BY <2>1, RisesHollow
  <2> QED BY <2>2 DEF YieldsLoosely
<1>6. PICK q : q = pending
  OBVIOUS
<1>7. q \in Seq(Sent) /\ pending' = q /\ YieldsLoosely(pending, units, q)
  BY <1>3, <1>5, <1>6
<1>8. type \in RecordTypes /\ UNCHANGED <<tr, packets, reader, pc>>
  BY <1>1 DEF RecordTypes, route, setup
<1> QED BY <1>1, <1>3, <1>4, <1>7, <1>8, OrderlyPut

-----------------------------------------------------------------------------
(* The far side sends a packet: it lies behind all that is on the way.     *)
LEMMA PassedGrows ==
  ASSUME Typed, Handed, NEW len \in Bodies[tr], Grows(len), delivered' = delivered, NEW a \in Nat, Passed(a)
  PROVE  Passed(a)'
<1> DEFINE L == Len(packets)
<1>1. /\ L \in Nat /\ \A i \in 1..L : packets'[i] = packets[i]
      /\ \A i \in 0..L : SumTo(tr, packets', i) = SumTo(tr, packets, i)
      /\ tr' = tr
  BY StreamGrows DEF Grows
<1>2. ASSUME NEW d \in 1..L
      PROVE  SumTo(tr', packets', d - 1) + HeadLen(tr', packets'[d]) + 1 = SumTo(tr, packets, d - 1) + HeadLen(tr, packets[d]) + 1
  <2>1. d - 1 \in 0..L
    BY <1>1
  <2> QED BY <1>1, <2>1
<1>3. \A d \in 1..L : FirstWord(d)' = FirstWord(d)
  BY <1>2 DEF FirstWord
<1>4. ASSUME NEW i \in 1..Len(delivered), delivered[i] # 0 PROVE (FirstWord(delivered[i]))' <= a
  <2>1. PICK d : d = delivered[i]
    OBVIOUS
  <2>2. d \in 1..L
    <3>1. delivered[i] \in 0..L
      BY HandedOn
    <3> HIDE DEF L
    <3> QED BY <1>1, <1>4, <2>1, <3>1
  <2>3. FirstWord(d) <= a
    BY <1>4, <2>1 DEF Passed
  <2>4. FirstWord(d)' <= a
    BY <1>3, <2>2, <2>3
  <2>5. (FirstWord(delivered[i]))' = FirstWord(d)'
    BY <2>1 DEF FirstWord
  <2> QED BY <2>4, <2>5
<1> QED BY <1>4 DEF Passed

LEMMA OrderlySends ==
  ASSUME Negotiated, Orderly, NEW len \in Bodies[tr], ServerSends(len)
  PROVE  Orderly'
<1>1. pc = "up" /\ UNCHANGED <<kind, tr, pc>>
  BY NegotiatedSends DEF route, setup
<1>2. UNCHANGED <<rec, buf, dec, phase, head, size, have, delivered, torn>>
  BY DEF ServerSends, reader, decoder
<1>3. Handed /\ Parts /\ Piece /\ Ahead /\ Typed
  BY <1>1 DEF Orderly, Negotiated
<1>4. Grows(len)
  BY <1>1 DEF ServerSends, Grows
<1>5. PICK p : p = Packet(len)
  OBVIOUS
<1>6. IF kind = "tls" THEN pending' = pending \o p /\ wire' = wire ELSE wire' = wire \o p /\ pending' = pending
  BY <1>5 DEF ServerSends
<1> DEFINE L == Len(packets)
           b == SumTo(tr, packets, L)
           c == b + Units(tr, len)
           g == rec.got
<1>7. Len(packets') = L + 1 /\ L \in Nat /\ SumTo(tr, packets', L + 1) = c
  BY <1>3, <1>4, StreamGrows
<1>8. b = Before(Len(packets)) /\ b \in Nat
  BY <1>3, HandedOn
<1>9. (Before(Len(packets)))' = c
  BY <1>1, <1>7, PlaceNow
<1>10. c \in Nat /\ b <= c
  <2>1. Units(tr, len) \in Nat
    BY <1>3, UnitsTyped DEF Typed
  <2> HIDE DEF b
  <2> QED BY <1>8, <2>1
<1>11. p \in Seq(Sent') /\ p \in Seq(Unit) /\ Runs(p, b, c)
  BY <1>3, <1>4, <1>5, PacketIs
<1>12. Solid(p)
  <2>1. \A u \in Sent' : IsData(u)
    BY DEF Sent, DataUnit, IsData
  <2>2. \A i \in 1..Len(p) : p[i] \in Sent'
    BY <1>11, ElementOfSeq
  <2> QED BY <2>1, <2>2 DEF Solid
<1>13. Sent \subseteq Sent' /\ OnWire \subseteq OnWire' /\ Sent' \subseteq OnWire'
  BY <1>3, <1>4, SentGrows DEF OnWire
<1>14. Handed'
  <2>1. delivered \in Seq(0..L) /\ torn \in BOOLEAN
    BY <1>3 DEF Handed
  <2>2. 0..L \subseteq 0..(L + 1)
    BY <1>7
  <2>3. delivered \in Seq(0..(L + 1))
    BY <2>1, <2>2, SeqWider
  <2> QED BY <1>2, <1>7, <2>1, <2>3 DEF Handed
<1>15. Piece'
  <2>1. (BodyUnits(size))' = BodyUnits(size) /\ FirstRead(tr)' = FirstRead(tr)
    BY <1>1, <1>2 DEF BodyUnits, FirstRead
  <2> QED BY <1>1, <1>2, <1>3, <2>1 DEF Piece
<1>16. PICK a \in Nat : Passed(a) /\ Climbs(have, buf, g, wire, pending, a, b)
  BY <1>3, <1>8 DEF Ahead
<1>17. Passed(a)'
  BY <1>2, <1>3, <1>4, <1>16, PassedGrows
<1>18. /\ have \in Seq(Unit) /\ buf \in Seq(Unit) /\ g \in Seq(Unit) /\ wire \in Seq(Unit) /\ pending \in Seq(Unit)
  BY <1>3, AllTyped
<1>19. Parts'
  <2>1. have \in Seq(OnWire) /\ buf \in Seq(OnWire) /\ pending \in Seq(Sent) /\ wire \in Seq(OnWire) /\ g \in Seq(OnWire)
    BY <1>3, AllTyped DEF Parts
  <2>2. /\ have \in Seq(OnWire') /\ buf \in Seq(OnWire') /\ pending \in Seq(Sent') /\ wire \in Seq(OnWire')
        /\ g \in Seq(OnWire') /\ p \in Seq(OnWire')
    BY <1>11, <1>13, <2>1, SeqWider
  <2>3. wire' \in Seq(OnWire') /\ pending' \in Seq(Sent')
    <3>1. wire \o p \in Seq(OnWire') /\ pending \o p \in Seq(Sent')
      BY <1>11, <2>2, ConcatLen
    <3> QED BY <1>6, <2>2, <3>1
  <2>4. rec' \in LooseReads'
    <3>1. rec \in LooseReads
      BY <1>3 DEF Parts
    <3>2. PICK W : W = Seq(OnWire')
      OBVIOUS
    <3>3. rec \in [at : {"type", "len", "body"}, type : RecordTypes \cup {"none"}, left : Int, got : W]
      BY <2>2, <3>1, <3>2 DEF LooseReads
    <3> QED BY <1>2, <3>2, <3>3 DEF LooseReads
  <2> QED BY <1>2, <2>2, <2>3, <2>4 DEF Parts
<1> HIDE DEF b, c, g
<1>20. PICK m1 \in Nat, m2 \in Nat, m3 \in Nat, m4 \in Nat :
         Rises(have, a, m1) /\ Rises(buf, m1, m2) /\ Rises(g, m2, m3) /\ Rises(wire, m3, m4) /\ Rises(pending, m4, b)
  BY <1>16 DEF Climbs
<1>21. b <= b /\ m3 <= m4 /\ m4 <= b /\ c <= c
  BY <1>8, <1>10, <1>20 DEF Rises
<1>22. Rises(p, b, c)
  BY <1>8, <1>10, <1>11, <1>12, <1>21, RisesRuns
<1>23. Climbs(have, buf, g, wire', pending', a, c)
  <2>1. CASE kind = "tls"
    <3>1. Rises(pending \o p, m4, c)
      BY <1>8, <1>10, <1>11, <1>18, <1>20, <1>22, RisesConcat
    <3>2. pending' = pending \o p /\ wire' = wire
      BY <1>6, <2>1
    <3>3. Rises(pending', m4, c) /\ Rises(wire', m3, m4)
      BY <1>20, <3>1, <3>2
    <3> QED BY <1>20, <3>3, ClimbsOf
  <2>2. CASE kind # "tls"
    <3>1. pending' = <<>> /\ wire' = wire \o p
      BY <1>6, <2>2 DEF Negotiated, Quiet
    <3>2. Rises(wire, m3, b)
      BY <1>8, <1>18, <1>20, <1>21, RisesWider
    <3>3. Rises(wire \o p, m3, c)
      BY <1>8, <1>10, <1>11, <1>18, <1>22, <3>2, RisesConcat
    <3>4. Rises(<<>>, c, c)
      BY <1>10, <1>21, RisesHollow
    <3>5. Rises(pending', c, c) /\ Rises(wire', m3, c)
      BY <3>1, <3>3, <3>4
    <3> QED BY <1>10, <1>20, <3>5, ClimbsOf
  <2> QED BY <2>1, <2>2
<1>24. PICK h, f, w, q : h = have /\ f = buf /\ w = wire' /\ q = pending'
  OBVIOUS
<1>25. Climbs(h, f, g, w, q, a, c)
  BY <1>23, <1>24
<1>26. have' = h /\ buf' = f /\ rec'.got = g /\ wire' = w /\ pending' = q
  BY <1>2, <1>24 DEF g
<1>27. Ahead'
  BY <1>9, <1>17, <1>25, <1>26, AheadNow
<1> QED BY <1>14, <1>15, <1>19, <1>27 DEF Orderly

LEMMA OrderlyFarSide ==
  ASSUME Negotiated, Orderly, FarSide
  PROVE  Orderly'
<1>0. Negotiated'
  BY NegotiatedNext DEF Next
<1>1. CASE \/ \E m \in {0, 2, 255} : ServerMethod(m)
           \/ \E ok \in BOOLEAN : ServerAuth(ok)
           \/ \E code \in {0, 1}, type \in {"v4", "v6", "name", "other"}, n \in {0, 3} : ServerReply(code, type, n)
           \/ \E shape \in Hellos : ServerHello(shape)
  <2>1. pc' # "up"
    BY <1>1 DEF ServerMethod, ServerAuth, ServerReply, ServerHello, Put, setup
  <2> QED BY <1>0, <2>1, OrderlyQuiet
<1>2. CASE \E len \in Bodies[tr] : ServerSends(len)
  BY <1>2, OrderlySends
<1>3. CASE \E n \in Cuts : ServerCuts(n)
  BY <1>3, OrderlyCuts
<1>4. CASE \E type \in {"app", "ccs", "alert"} : ServerFills(type)
  BY <1>4, OrderlyFills
<1> QED BY <1>1, <1>2, <1>3, <1>4 DEF FarSide

LEMMA OrderlyNext == Negotiated /\ Orderly /\ [Next]_vars => Orderly'
<1> SUFFICES ASSUME Negotiated, Orderly, [Next]_vars PROVE Orderly'
  OBVIOUS
<1>1. CASE SetUp
  BY <1>1, OrderlySetUp
<1>2. CASE FarSide
  BY <1>2, OrderlyFarSide
<1>3. CASE Send
  BY <1>3, OrderlyStill DEF Send, route, setup, far
<1>4. CASE Recv
  BY <1>4, OrderlyRecv
<1>5. CASE ReadByte
  BY <1>5, OrderlyTake, OrderlyReadRecord DEF ReadByte
<1>6. CASE TimeOut
  BY <1>6, OrderlyTimeOut
<1>7. CASE UNCHANGED vars
  BY <1>7, OrderlyStill DEF vars, route, setup, far
<1>8. Ended => UNCHANGED vars
  BY DEF Ended
<1> QED BY <1>1, <1>2, <1>3, <1>4, <1>5, <1>6, <1>7, <1>8 DEF Next

(* Torn or not, what still comes lies behind all that was handed out, in    *)
(* the order it was sent: a receiver that has lost its place may skip       *)
(* packets and make up others, but returns none twice and none late         *)
(* (recvRaw after a deadline inside a packet).                              *)
THEOREM StreamIsOrderly == Spec => []Orderly
<1>1. Init => Orderly
  <2> SUFFICES ASSUME Init PROVE Orderly
    OBVIOUS
  <2>1. pc # "up" /\ delivered = <<>> /\ torn = FALSE
    BY DEF Init
  <2>2. <<>> \in Seq(0..Len(packets))
    OBVIOUS
  <2> QED BY <2>1, <2>2 DEF Orderly, Handed
<1>2. Negotiated /\ Orderly /\ [Next]_vars => Orderly'
  BY OrderlyNext
<1> QED BY <1>1, <1>2, SetUpNegotiates, PTL DEF Spec

-----------------------------------------------------------------------------
(* The channel of packets.  What a step does to it: nothing, or it tears,   *)
(* or the next packet is handed out, or on a torn channel a later one, or   *)
(* what nobody sent.                                                       *)
Later(n) == n = 0 \/ (n \in 1..Len(packets) /\ \A i \in 1..Len(delivered) : delivered[i] < n)

Steps ==
  /\ packets' = packets
  /\ \/ delivered' = delivered /\ torn' \in {torn, TRUE}
     \/ ~torn /\ Len(delivered) < Len(packets) /\ delivered' = Append(delivered, Len(delivered) + 1) /\ torn' = torn
     \/ torn /\ torn' = torn /\ \E n : Later(n) /\ delivered' = Append(delivered, n)

LEMMA LatestIs ==
  ASSUME Typed, Handed, NEW n \in 1..Len(packets), \A i \in 1..Len(delivered) : delivered[i] < n
  PROVE  n \in (Channel!Latest + 1)..Len(packets)
<1> DEFINE got == {delivered[i] : i \in DOMAIN delivered} \cup {0}
<1>1. Len(packets) \in Nat /\ DOMAIN delivered = 1..Len(delivered) /\ \A i \in 1..Len(delivered) : delivered[i] \in 0..Len(packets)
  BY HandedOn, LenProperties DEF Handed
<1>2. got \subseteq 0..Len(packets) /\ got # {} /\ \A m \in got : m < n
  BY <1>1
<1>3. Channel!Latest = CHOOSE m \in got : \A k \in got : k <= m
  BY DEF Channel!Latest
<1> HIDE DEF got
<1>4. \E m \in got : \A k \in got : k <= m
  BY <1>1, <1>2, Greatest
<1>5. Channel!Latest \in got
  BY <1>3, <1>4
<1>6. Channel!Latest \in 0..Len(packets) /\ Channel!Latest < n
  BY <1>2, <1>5
<1> HIDE DEF Channel!Latest
<1> QED BY <1>1, <1>6

LEMMA StepsOfChannel ==
  ASSUME Typed, Handed, Steps
  PROVE  [Channel!Next]_(Channel!vars)
<1>1. packets' = packets /\ Len(packets)' = Len(packets)
  BY DEF Steps
<1>2. CASE delivered' = delivered /\ torn' \in {torn, TRUE}
  <2>1. CASE torn' = torn
    BY <1>1, <1>2, <2>1 DEF Channel!vars
  <2>2. CASE torn' = TRUE
    BY <1>1, <1>2, <2>2 DEF Channel!Next, Channel!Tear
  <2> QED BY <1>2, <2>1, <2>2
<1>3. CASE ~torn /\ Len(delivered) < Len(packets) /\ delivered' = Append(delivered, Len(delivered) + 1) /\ torn' = torn
  BY <1>1, <1>3 DEF Channel!Next, Channel!Deliver
<1>4. ASSUME torn, torn' = torn, NEW n, Later(n), delivered' = Append(delivered, n)
      PROVE  Channel!DeliverTorn
  <2>1. n \in {0} \cup ((Channel!Latest + 1)..Len(packets))
    BY <1>4, LatestIs DEF Later
  <2> HIDE DEF Channel!Latest
  <2> QED BY <1>1, <1>4, <2>1 DEF Channel!DeliverTorn
<1> QED BY <1>2, <1>3, <1>4 DEF Steps, Channel!Next

LEMMA TakeSteps ==
  ASSUME Negotiated, Matched, Orderly, Take
  PROVE  Steps
<1>1. PICK piece : \E a, n \in Nat :
        /\ LooselyTaken(piece, buf', wire', a, n) /\ phase \in {"first", "ext", "body"}
        /\ Handed /\ Parts /\ Piece
        /\ UNCHANGED <<kind, tr, packets, pending, rec, pc>>
        /\ IF Len(piece) < Need
           THEN have' = piece /\ UNCHANGED <<dec, phase, head, size, delivered, torn>>
           ELSE IF phase = "body" THEN BodyDone(piece) ELSE HeadDone(piece) /\ UNCHANGED delivered
  BY TakeIsLoose
<1>2. PICK a \in Nat, n \in Nat : LooselyTaken(piece, buf', wire', a, n)
  BY <1>1
<1>3. piece \in Seq(OnWire) /\ a <= n /\ Passed(a) /\ Rises(piece, a, n) /\ Typed /\ torn \in BOOLEAN
  BY <1>1, <1>2 DEF LooselyTaken, Negotiated, Handed
<1>4. CASE Len(piece) < Need
  BY <1>1, <1>4 DEF Steps
<1>5. ~(Len(piece) < Need) => Len(piece) = Need
  <2> SUFFICES ASSUME ~(Len(piece) < Need) PROVE Len(piece) = Need
    OBVIOUS
  <2>1. Len(piece) = Len(have) + 1 /\ Len(have) \in Nat
    BY <1>1, <1>2, LenProperties DEF LooselyTaken, Parts
  <2>2. Need \in Nat /\ Len(have) < Need
    BY <1>1, PieceNeeds
  <2> QED BY <2>1, <2>2
<1>6. CASE ~(Len(piece) < Need) /\ phase # "body"
  <2>1. HeadDone(piece) /\ delivered' = delivered /\ phase \in {"first", "ext"} /\ packets' = packets
    BY <1>1, <1>6
  <2>2. \/ phase = "first" /\ tr = "abridged" /\ Extended(<<Long>>)
        \/ \E len \in Nat : Sized(len)
    BY <1>1, <1>3, <1>5, <1>6, <2>1, AnyHead
  <2>3. torn' \in {torn, TRUE}
    BY <1>3, <2>2 DEF Extended, Sized, Return
  <2> QED BY <2>1, <2>3 DEF Steps
<1>7. CASE ~(Len(piece) < Need) /\ phase = "body" /\ torn
  <2>1. BodyDone(piece) /\ packets' = packets
    BY <1>1, <1>7
  <2>2. delivered' = Append(delivered, Received(piece)) /\ torn' = torn
    BY <1>3, <1>7, <2>1 DEF BodyDone, Return
  <2>3. \/ Received(piece) = 0
        \/ /\ Received(piece) \in 1..Len(packets)
           /\ a < FirstWord(Received(piece)) /\ FirstWord(Received(piece)) <= n
    <3>1. size \in Nat
      BY <1>1, <1>7 DEF Piece
    <3> QED BY <1>3, <1>5, <1>7, <3>1, PieceReceived
  <2>4. Later(Received(piece))
    <3>1. PICK r : r = Received(piece)
      OBVIOUS
    <3>2. CASE r = 0
      BY <3>1, <3>2 DEF Later
    <3>3. CASE r \in 1..Len(packets) /\ a < FirstWord(r)
      <4>1. \A i \in 1..Len(delivered) : delivered[i] < r
        BY <1>1, <1>3, <3>3, LaterThanAll
      <4> QED BY <3>1, <3>3, <4>1 DEF Later
    <3> QED BY <2>3, <3>1, <3>2, <3>3
  <2> QED BY <1>7, <2>1, <2>2, <2>4 DEF Steps
<1>8. CASE ~torn /\ ~(Len(piece) < Need) /\ phase = "body"
  <2>1. Carried /\ Placed /\ Numbered
    BY <1>8 DEF Matched, Take, Reading
  <2>2. PICK p :
          /\ PieceTaken(p, buf', wire') /\ phase \in {"first", "ext", "body"}
          /\ UNCHANGED <<kind, tr, packets, pending, rec, pc>>
          /\ IF Len(p) < Need
             THEN have' = p /\ UNCHANGED <<dec, phase, head, size, delivered, torn>>
             ELSE /\ dec' = IF kind = "socks" THEN dec ELSE dec + Need
                  /\ IF phase = "body" THEN BodyDone(p) ELSE HeadDone(p) /\ UNCHANGED delivered
    BY <2>1, TakeIs
  <2>3. CASE Len(p) < Need
    BY <2>2, <2>3 DEF Steps
  <2>4. CASE ~(Len(p) < Need)
    <3>1. PieceDue(Len(delivered), p, buf', wire') /\ p \in Seq(Sent)
      BY <1>8, <2>1, <2>2, <2>4, PieceIsDue DEF PieceTaken
    <3>2. Len(delivered) < Len(packets) /\ Len(delivered) \in Nat
      BY <2>1, <3>1, LenProperties DEF PieceDue, Placed
    <3>3. Received(p) = Len(delivered) + 1
      BY <1>8, <2>1, <3>1, <3>2, NextIsReceived
    <3>4. BodyDone(p)
      BY <1>8, <2>2, <2>4
    <3>5. delivered' = Append(delivered, Len(delivered) + 1) /\ torn' = torn
      BY <1>3, <3>3, <3>4 DEF BodyDone, Return
    <3> QED BY <1>1, <1>8, <3>2, <3>5 DEF Steps
  <2> QED BY <2>3, <2>4
<1> QED BY <1>4, <1>6, <1>7, <1>8

LEMMA GivesUpSteps ==
  ASSUME Handed, UNCHANGED <<packets, delivered>>, NEW x \in BOOLEAN, torn' = torn \/ torn' = (torn \/ x)
  PROVE  Steps
<1>1. torn \in BOOLEAN
  BY DEF Handed
<1>2. torn' \in {torn, TRUE}
  BY <1>1
<1> QED BY <1>2 DEF Steps

LEMMA ReadRecordSteps ==
  ASSUME Orderly, ReadRecord
  PROVE  Steps
<1>1. Handed /\ Parts
  BY DEF Orderly, ReadRecord, Reading
<1>2. UNCHANGED <<packets, delivered>>
  BY <1>1, RecordLoosely
<1>3. \/ torn' = torn
      \/ torn' = (torn \/ (phase # "first" \/ have # <<>> \/ FALSE))
  BY DEF ReadRecord, RecordDone, Abandon, Return, decoder
<1> QED BY <1>1, <1>2, <1>3, GivesUpSteps

LEMMA TimeOutSteps ==
  ASSUME Orderly, TimeOut
  PROVE  Steps
<1>1. /\ UNCHANGED <<packets, delivered>> /\ Handed
      /\ torn' = (torn \/ (phase # "first" \/ have # <<>> \/ rec.at # "type"))
  BY DEF Orderly, TimeOut, Abandon, Return, far
<1> QED BY <1>1, GivesUpSteps

LEMMA StillSteps ==
  ASSUME UNCHANGED <<packets, delivered, torn>>
  PROVE  Steps
BY DEF Steps

LEMMA SetUpSteps ==
  ASSUME SetUp
  PROVE  Steps
<1>1. UNCHANGED <<packets, reader>>
  BY DEF SetUp, Greet, Hail, ReadMethod, ReadAuth, WriteRequest, ReadReply, ReadHello, SetupFails, WriteHeader, far
<1> QED BY <1>1, StillSteps DEF reader, decoder

LEMMA FarSideSteps ==
  ASSUME Negotiated, FarSide
  PROVE  Steps \/ Channel!Send
<1>1. CASE \/ \E m \in {0, 2, 255} : ServerMethod(m)
           \/ \E ok \in BOOLEAN : ServerAuth(ok)
           \/ \E code \in {0, 1}, type \in {"v4", "v6", "name", "other"}, n \in {0, 3} : ServerReply(code, type, n)
           \/ \E shape \in Hellos : ServerHello(shape)
           \/ \E n \in Cuts : ServerCuts(n)
           \/ \E type \in {"app", "ccs", "alert"} : ServerFills(type)
  <2>1. UNCHANGED <<packets, reader>>
    BY <1>1 DEF ServerMethod, ServerAuth, ServerReply, ServerHello, ServerCuts, ServerFills, Put
  <2> QED BY <2>1, StillSteps DEF reader, decoder
<1>2. ASSUME NEW len \in Bodies[tr], ServerSends(len) PROVE Channel!Send
  <2>1. UNCHANGED <<delivered, torn>>
    BY <1>2 DEF ServerSends, reader, decoder
  <2>2. tr' = tr
    BY <1>2, NegotiatedSends DEF route
  <2>3. Grows(len)
    BY <1>2, <2>2 DEF ServerSends, Grows
  <2>4. Len(packets') = Len(packets) + 1
    BY <2>3, StreamGrows DEF Negotiated
  <2> QED BY <2>1, <2>4 DEF Channel!Send
<1> QED BY <1>1, <1>2 DEF FarSide

LEMMA ChannelNext == Negotiated /\ Matched /\ Orderly /\ [Next]_vars => [Channel!Next]_(Channel!vars)
<1> SUFFICES ASSUME Negotiated, Matched, Orderly, [Next]_vars PROVE [Channel!Next]_(Channel!vars)
  OBVIOUS
<1>1. Steps \/ Channel!Send
  <2>1. CASE SetUp
    BY <2>1, SetUpSteps
  <2>2. CASE FarSide
    BY <2>2, FarSideSteps
  <2>3. CASE Send
    BY <2>3, StillSteps DEF Send, far, reader, decoder
  <2>4. CASE Recv
    BY <2>4, StillSteps DEF Recv, far
  <2>5. CASE ReadByte
    BY <2>5, TakeSteps, ReadRecordSteps DEF ReadByte
  <2>6. CASE TimeOut
    BY <2>6, TimeOutSteps
  <2>7. CASE UNCHANGED vars
    BY <2>7, StillSteps DEF vars, far, reader, decoder
  <2>8. Ended => UNCHANGED vars
    BY DEF Ended
  <2> QED BY <2>1, <2>2, <2>3, <2>4, <2>5, <2>6, <2>7, <2>8 DEF Next
<1>2. CASE Steps
  <2>1. Typed /\ Handed
    BY DEF Negotiated, Orderly
  <2> QED BY <1>2, <2>1, StepsOfChannel
<1>3. CASE Channel!Send
  BY <1>3 DEF Channel!Next
<1> QED BY <1>1, <1>2, <1>3

(* The tunnel is a channel of packets: over every kind of connection and    *)
(* every transport, packets are received whole, once and in order until a   *)
(* read gives up inside one; from then on a packet may be missing and what  *)
(* nobody sent may be returned, but none twice or before an earlier one     *)
(* (stream.recvRaw over obfConn and tlsConn).                               *)
THEOREM TunnelImplementsChannel == Spec => ImplementsChannel
<1>1. Init => Channel!Init
  <2> SUFFICES ASSUME Init PROVE Channel!Init
    OBVIOUS
  <2>1. packets = <<>> /\ delivered = <<>> /\ torn = FALSE
    BY DEF Init
  <2> QED BY <2>1 DEF Channel!Init
<1>2. Negotiated /\ Matched /\ Orderly /\ [Next]_vars => [Channel!Next]_(Channel!vars)
  BY ChannelNext
<1> QED BY <1>1, <1>2, SetUpNegotiates, StreamIsMatched, StreamIsOrderly, PTL DEF Spec, ImplementsChannel, Channel!Spec

=============================================================================
