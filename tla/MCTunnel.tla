-------------------------------- MODULE MCTunnel --------------------------------
EXTENDS Tunnel

(* Every kind of connection with a transport the code uses it with.        *)
MCRoutes == {<<"obf", "abridged">>, <<"obf", "intermediate">>,
             <<"tls", "padded">>, <<"socks", "intermediate">>}

(* A short and a long abridged head; a word with padding and without.      *)
MCBodies == [t \in Transports |-> IF t = "abridged" THEN {4, 8} ELSE {4, 7}]

(* The transports at their own size: the boundary of the two abridged forms *)
(* and of a byte, the largest packet, and what lies around them.           *)
Real == INSTANCE Framing WITH Base <- 256, Long <- 127, MaxPacketLen <- 1048576

Around(ns) == UNION {(n - 4)..(n + 4) : n \in ns}

RealLengths == 4..1100 \cup Around({65536, 262144, 1048572})

ASSUME FramingIsExact ==
  \A t \in Transports : \A n \in Real!Lengths(t, RealLengths) : Real!RoundTrip(t, n)

ASSUME RecordsAreCut == \A n \in 1..40, limit \in 1..12 : RecordsFit(n, limit)

Hello == INSTANCE ClientHello

(* For a name of any length, all lengths in the ClientHello, those filled  *)
(* in and those written by hand, count what they should; the random the    *)
(* digest replaces is where a server looks for it; and the hello has 517   *)
(* bytes, or at least 513 without padding if the name is long, and fits a  *)
(* record.                                                                 *)
ASSUME HelloIsExact ==
  \A n \in 1..300 :
    LET name == Hello!EncodedSNI(n)
        hello == Hello!BuildClientHello(name)
    IN  /\ hello.exact
        /\ hello.len = IF Hello!Written(name) < 513 THEN 517 ELSE Hello!Written(name)
        /\ hello.len - 5 <= 16384
        /\ Hello!RandomOffset = 11

(* Neighbours differ, and every byte is a GREASE value.                    *)
ASSUME GreaseVaries ==
  \A raw \in [1..3 -> {16 * h + l : h \in 0..15, l \in {0, 15}}] :
    LET grease == Hello!MakeGrease(raw)
    IN  /\ \A i \in 1..3 : grease[i] \in {16 * h + 10 : h \in 0..15}
        /\ \A i \in 1..2 : grease[i] # grease[i + 1]
=============================================================================
