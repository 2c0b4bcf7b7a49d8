----------------------------- MODULE ByteStream -----------------------------
(***************************************************************************)
(* What a caller of webproxy.Carrier is promised: a connection.  Messages  *)
(* written are received once, in order, none skipped; bytes sent down are  *)
(* read once, in order, none skipped.  Either direction may stop at any    *)
(* point.  A receive that gives up inside a message tears the way down:    *)
(* from then on units may be missing and a unit nobody sent (0) be read,   *)
(* but none twice and none before an earlier one.  WebCarrier is shown to  *)
(* implement it.                                                           *)
(***************************************************************************)
EXTENDS Naturals, SequencesExt

VARIABLES written,   \* how many messages were written: 1..written, in order
          received,  \* the messages the far side has received
          sent,      \* the units the far side has sent
          read,      \* the units the caller has read
          torn       \* a receive gave up inside a message

vars == <<written, received, sent, read, torn>>

Init == written = 0 /\ received = <<>> /\ sent = <<>> /\ read = <<>> /\ torn = FALSE

Write == /\ written' = written + 1
         /\ UNCHANGED <<received, sent, read, torn>>

Receive == /\ Len(received) < written
           /\ received' = Append(received, Len(received) + 1)
           /\ UNCHANGED <<written, sent, read, torn>>

Send == /\ \E u \in {Len(sent) + 1} : sent' = Append(sent, u)
        /\ UNCHANGED <<written, received, read, torn>>

Read == /\ ~torn
        /\ \E n \in (Len(read) + 1)..Len(sent) : read' = SubSeq(sent, 1, n)
        /\ UNCHANGED <<written, received, sent, torn>>

Tear == torn' = TRUE /\ UNCHANGED <<written, received, sent, read>>

ReadTorn ==
  /\ torn
  /\ IsStrictPrefix(read, read')
  /\ \A i \in DOMAIN read' : read'[i] \in 0..Len(sent)
  /\ \A i, j \in DOMAIN read' : i < j /\ read'[i] # 0 /\ read'[j] # 0 => read'[i] < read'[j]
  /\ UNCHANGED <<written, received, sent, torn>>

Next == Write \/ Receive \/ Send \/ Read \/ Tear \/ ReadTorn

Spec == Init /\ [][Next]_vars
=============================================================================
