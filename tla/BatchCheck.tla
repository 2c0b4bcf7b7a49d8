----------------------------- MODULE BatchCheck -----------------------------
(***************************************************************************)
(* What a batch run promises its caller, with no workers, channels or      *)
(* attempts: every input is decided at most once, an input that parses is  *)
(* live or dead and one that does not is invalid, nothing is decided after *)
(* the run returned, and a run returns with inputs undecided only if it    *)
(* was cancelled.  CheckerRun is shown to implement it.                    *)
(***************************************************************************)
EXTENDS Naturals

CONSTANTS N,        \* number of inputs
          Parsable  \* the inputs proxy.Parse accepts

VARIABLES verdict,    \* verdict[i]: the Status of input i, "unset" while undecided
          cancelled,  \* the caller cancelled the context
          returned    \* Run has returned its results

vars == <<verdict, cancelled, returned>>

Verdicts(i) == IF i \in Parsable THEN {"live", "dead"} ELSE {"invalid"}

Undecided == {i \in 1..N : verdict[i] = "unset"}

Init == /\ verdict = [i \in 1..N |-> "unset"]
        /\ cancelled = FALSE
        /\ returned = FALSE

Decide(i) == /\ ~returned
             /\ verdict[i] = "unset"
             /\ \E v \in Verdicts(i) : verdict' = [verdict EXCEPT ![i] = v]
             /\ UNCHANGED <<cancelled, returned>>

Cancel == /\ ~cancelled
          /\ cancelled' = TRUE
          /\ UNCHANGED <<verdict, returned>>

Return == /\ ~returned
          /\ cancelled \/ Undecided = {}
          /\ returned' = TRUE
          /\ UNCHANGED <<verdict, cancelled>>

Next == \/ \E i \in 1..N : Decide(i)
        \/ Cancel
        \/ Return

(* Some progress is always made until the run has returned. *)
Spec == Init /\ [][Next]_vars
             /\ WF_vars((\E i \in 1..N : Decide(i)) \/ Return)

=============================================================================
