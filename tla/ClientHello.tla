----------------------------- MODULE ClientHello -----------------------------
(***************************************************************************)
(* The ClientHello buildClientHello puts together, by its lengths.  Some   *)
(* are filled in when a scope of the helloBuilder is closed, most are      *)
(* written by hand in front of what they count.  A part is a record: the   *)
(* bytes it has, and whether the lengths in it count what they should.     *)
(***************************************************************************)
EXTENDS Integers, Sequences

Put(n) == [len |-> n, exact |-> TRUE]

a ++ b == [len |-> a.len + b.len, exact |-> a.exact /\ b.exact]

(* open, the part, close: two bytes that hold its length.                  *)
Scope(part) == [len |-> 2 + part.len, exact |-> part.exact /\ part.len < 2 ^ 16]

(* A length of w bytes written by hand that says n, and what follows it.   *)
Says(w, n, part) == [len |-> w + part.len, exact |-> part.exact /\ part.len = n]

Empty(w) == Says(w, 0, Put(0))

GreasePair == Put(2)

Type == Put(2)

Extensions(sni) ==
  GreasePair ++ Empty(2)
  ++ Type ++ Scope(Scope(Put(1) ++ Scope(Put(sni))))
  ++ Type ++ Empty(2)
  ++ Type ++ Says(2, 1, Empty(1))
  ++ Type ++ Says(2, 10, Says(2, 8, GreasePair ++ Put(6)))
  ++ Type ++ Says(2, 2, Says(1, 1, Put(1)))
  ++ Type ++ Empty(2)
  ++ Type ++ Says(2, 14, Says(2, 12, Says(1, 2, Put(2)) ++ Says(1, 8, Put(8))))
  ++ Type ++ Says(2, 5, Put(1) ++ Empty(2) ++ Empty(2))
  ++ Type ++ Says(2, 18, Says(2, 16, Put(16)))
  ++ Type ++ Empty(2)
  ++ Type ++ Says(2, 3, Says(1, 2, Put(2)))
  ++ Type ++ Scope(Scope(GreasePair ++ Says(2, 1, Put(1)) ++ Put(2) ++ Says(2, 32, Put(32))))
  ++ Type ++ Says(2, 2, Says(1, 1, Put(1)))
  ++ Type ++ Says(2, 7, Says(1, 6, GreasePair ++ Put(4)))

(* The version, the random, the session id, the ciphers, no compression.   *)
Fixed == Put(2) ++ Put(32) ++ Says(1, 32, Put(32))
         ++ Says(2, 32, GreasePair ++ Put(30)) ++ Says(1, 1, Put(1))

(* The type and version of the record, its length, the type of the         *)
(* handshake message with the high byte of its length, the two others, and *)
(* the version: what stands before the random.                             *)
RandomOffset == 3 + 2 + 2 + 2 + 2

(* b.len() where the padding is decided: the extensions have begun.        *)
Written(sni) == 3 + 2 + 2 + 2 + Fixed.len + 2 + Extensions(sni).len

(* The padding extension brings a short hello to 517 bytes.                *)
Padding(sni) ==
  LET pad == 517 - 4 - Written(sni)
  IN  IF pad > 0 THEN Type ++ Scope(Put(pad)) ELSE Put(0)

BuildClientHello(sni) ==
  Put(3) ++ Scope(Put(2) ++ Scope(Fixed ++ Scope(Extensions(sni) ++ Padding(sni))))

(* encodeSNI cuts a name to what it allows.                                *)
EncodedSNI(len) == IF len > 255 THEN 255 ELSE len

(* makeGrease: a byte of the form 0x?A from each random one, and never the *)
(* same twice in a row.  XOR with 0x10 changes the parity of the high half. *)
MakeGrease(raw) ==
  LET grease[i \in 1..Len(raw)] ==
        LET high == raw[i] \div 16
            value == 16 * high + 10
            other == 16 * (IF high % 2 = 0 THEN high + 1 ELSE high - 1) + 10
        IN  IF i > 1 /\ grease[i - 1] = value THEN other ELSE value
  IN  grease
=============================================================================
