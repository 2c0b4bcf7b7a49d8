---------------------------- MODULE MCCheckerRun ----------------------------
(* CheckerRun for TLC: a dial error and a later one, one unparsable input. *)
EXTENDS CheckerRun, Backoff

MCProbeErrors == {[stage |-> "dial", kind |-> "refused"],
                  [stage |-> "protocol", kind |-> "timeout"]}
MCParsable == Inputs \ {2}

(* sleepBackoff at 12 bits with a cap of 20, for every --retry-delay and   *)
(* fourteen attempts: the delay is positive and within the cap whatever    *)
(* wraps, and while --retry-delay is within the cap it never shrinks from  *)
(* one attempt to the next.                                                *)
ASSUME DelayIsBounded ==
  \A base \in 1..(2^11 - 1), attempt \in 2..14 :
    LET delay == Delay(12, 20, base, attempt) IN
    /\ delay \in 1..20
    /\ base <= 20 => Delay(12, 20, base, attempt + 1) >= delay
=============================================================================
