------------------------------ MODULE MCProbe ------------------------------
EXTENDS Probe

(* Three candidates for the proxies, two transports for a WEB proxy, and   *)
(* the one attempt at a bare address.                                      *)
MCCandidates == [k \in AllKinds |-> CASE k = "web" -> 2 [] k = "tcp" -> 1 [] OTHER -> 3]
=============================================================================
