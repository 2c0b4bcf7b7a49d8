------------------------------ MODULE PacketChannel ------------------------------
(***************************************************************************)
(* What stream.recvRaw promises the code above it about the packets of the *)
(* far side: they arrive whole, once and in order.  A read that gives up   *)
(* before the first byte of a packet loses nothing.  One that gives up     *)
(* inside a packet tears the channel: from then on a packet may be missing *)
(* and something that nobody sent may be handed out (0), but no packet     *)
(* comes twice or before an earlier one.  Tunnel is shown to implement it. *)
(***************************************************************************)
EXTENDS Naturals, Sequences, FiniteSets

VARIABLES sent,       \* how many packets the far side has sent: 1..sent
          delivered,  \* what recvRaw returned, 0 for what nobody sent
          torn        \* a read gave up inside a packet

vars == <<sent, delivered, torn>>

Latest == LET got == {delivered[i] : i \in DOMAIN delivered} \cup {0}
          IN  CHOOSE n \in got : \A m \in got : m <= n

Init == sent = 0 /\ delivered = <<>> /\ torn = FALSE

Send == /\ sent' = sent + 1
        /\ UNCHANGED <<delivered, torn>>

Deliver == /\ ~torn /\ Len(delivered) < sent
           /\ delivered' = Append(delivered, Len(delivered) + 1)
           /\ UNCHANGED <<sent, torn>>

Tear == /\ torn' = TRUE
        /\ UNCHANGED <<sent, delivered>>

DeliverTorn == /\ torn
               /\ \E n \in {0} \cup ((Latest + 1)..sent) : delivered' = Append(delivered, n)
               /\ UNCHANGED <<sent, torn>>

Next == Send \/ Deliver \/ Tear \/ DeliverTorn

Spec == Init /\ [][Next]_vars
=============================================================================
