-------------------------------- MODULE Framing --------------------------------
(***************************************************************************)
(* The lengths that frame a packet in the three MTProto transports, and    *)
(* the cuts tlsConn.Write makes.  A head is the sequence of its bytes; the *)
(* base of a byte, the mark of a long abridged head and the largest packet *)
(* are parameters, so that the boundaries are reached with short packets.  *)
(***************************************************************************)
EXTENDS Naturals, Sequences

CONSTANTS
  Base,          \* values of a byte (256)
  Long,          \* first byte of a long abridged head (0x7F)
  MaxPacketLen   \* maxPacketLen (1 << 20)

ASSUME FramingAssumption ==
  /\ Base \in Nat /\ Long \in 1..(Base - 1)
  /\ MaxPacketLen \in 1..(Base * Base * Base - 1)

Transports == {"intermediate", "abridged", "padded"}

(* binary.LittleEndian, and its inverse, of three or four bytes.            *)
Digits(n, count) ==
  LET n1 == n \div Base
      n2 == n1 \div Base
      n3 == n2 \div Base
  IN  [i \in 1..count |-> <<n, n1, n2, n3>>[i] % Base]

Value(bytes) ==
  bytes[1] + Base * (bytes[2] + Base * (bytes[3] + (IF Len(bytes) = 4 THEN Base * bytes[4] ELSE 0)))

(* encodeIntermediate, encodePaddedIntermediate (whose len counts the       *)
(* padding) and encodeAbridged.                                            *)
Encode(t, len) ==
  IF t = "abridged"
  THEN IF len \div 4 < Long THEN <<len \div 4>> ELSE <<Long>> \o Digits(len \div 4, 3)
  ELSE Digits(len, 4)

(* The decoders read the head in one piece, an abridged one in up to two.  *)
FirstRead(t) == IF t = "abridged" THEN 1 ELSE 4
ExtRead == 3
NeedsExt(t, first) == t = "abridged" /\ first = <<Long>>

Decode(t, head) ==
  IF t # "abridged" THEN Value(head)
  ELSE 4 * (IF Len(head) = 1 THEN head[1] ELSE Value(Tail(head)))

Accepted(len) == len > 0 /\ len <= MaxPacketLen

(* decodePaddedIntermediate cuts the padding off.                          *)
Stripped(t, len) == IF t = "padded" THEN len - (len % 4) ELSE len

(* The packets a transport can carry: abridged counts words, a packet is no *)
(* longer than its head can say, and padding does not stand alone.         *)
Lengths(t, lens) ==
  {n \in lens : IF t = "abridged" THEN n % 4 = 0 /\ n \div 4 \in 1..(Base * Base * Base - 1)
                ELSE n \div (Base * Base * Base) < Base /\ Stripped(t, n) > 0}

(* What is encoded is decoded, at every length up to the limit, and read in *)
(* as many bytes as were written.                                          *)
RoundTrip(t, len) ==
  LET head == Encode(t, len)
      first == SubSeq(head, 1, FirstRead(t))
  IN  /\ Len(head) = FirstRead(t) + (IF NeedsExt(t, first) THEN ExtRead ELSE 0)
      /\ \A i \in 1..Len(head) : head[i] \in 0..(Base - 1)
      /\ Decode(t, head) = len

(* tlsConn.Write: records of at most limit bytes.                          *)
Records(len, limit) ==
  [i \in 1..((len + limit - 1) \div limit) |->
     IF i * limit < len THEN limit ELSE len - (i - 1) * limit]

(* The records of a write hold its bytes, none empty and none too long.    *)
RecordsFit(len, limit) ==
  LET rs == Records(len, limit)
      upTo[i \in 0..Len(rs)] == IF i = 0 THEN 0 ELSE upTo[i - 1] + rs[i]
  IN  upTo[Len(rs)] = len /\ \A i \in 1..Len(rs) : rs[i] \in 1..limit

=============================================================================
