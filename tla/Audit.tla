------------------------------- MODULE Audit -------------------------------
(***************************************************************************)
(* runAudit: the checks a live proxy is put through after its probe, one   *)
(* after the other, each on connections of its own.  The last of them,     *)
(* CheckConnLimit, runs a goroutine per connection: dial, quick handshake, *)
(* close.  The proxy (external) serves Limit clients at a time and turns   *)
(* others away; it may notice late that a client has gone, and then the    *)
(* connections of the probe and of the earlier checks, all closed by now,  *)
(* still take places.  Modelled with --max-conns; the other checks may be  *)
(* asked for or not.                                                       *)
(***************************************************************************)
EXTENDS Naturals, FiniteSets

CONSTANTS MaxConns,    \* --max-conns
          Limit,       \* how many clients the proxy serves at once
          Probed,      \* connections the probe made, all candidates of all attempts
          MaxBreaks,   \* bound on connections that fail for another reason
          Candidates   \* candidates of the wrong-secret probe (2)

ASSUME MaxConnsAssumption == MaxConns \in Nat \ {0}
ASSUME LimitAssumption == Limit \in Nat \ {0}
ASSUME ProbedAssumption == Probed \in Nat
ASSUME BoundsAssumption == MaxBreaks \in Nat /\ Candidates \in Nat \ {0}

(* CheckConnLimit opens two connections at least.                          *)
Want == IF MaxConns < 2 THEN 2 ELSE MaxConns

Conns == 1..Want

VARIABLES
  step,      \* the check under way
  checks,    \* whether the proxy checks secrets at all
  tries,     \* candidates the wrong-secret probe has tried
  refused,   \* the proxy has turned the wrong secret away
  open,      \* AcceptsAnySecret: "none" while there is no verdict
  conn,      \* conn[c]: where the goroutine of connection c is
  ok,        \* results[c]
  serving,   \* the connections of the limit check the proxy serves
  lingering, \* how many earlier connections the proxy still serves
  held,      \* how many it did when the limit check began
  accepted,  \* ConnLimit.Accepted
  breaks     \* connections broken so far

vars == <<step, checks, tries, refused, open, conn, ok, serving, lingering, held, accepted, breaks>>

Init == /\ step = "masking"
        /\ checks \in BOOLEAN
        /\ tries = 0 /\ refused = FALSE /\ open = "none"
        /\ conn = [c \in Conns |-> "none"]
        /\ ok = [c \in Conns |-> FALSE]
        /\ serving = {} /\ accepted = 0 /\ breaks = 0
        /\ lingering \in {n \in 0..Limit : n <= Probed}
        /\ held = 0

(* A connection was opened and closed; the proxy may not know the second.  *)
Opened == lingering' \in {lingering, lingering + 1} /\ lingering' <= Limit

(* CheckMasking opens one connection at most and closes it whatever        *)
(* happens; what it finds concerns no later check.  Or it is left out.     *)
Masking == /\ step = "masking"
           /\ step' = "open"
           /\ Opened
           /\ UNCHANGED <<checks, tries, refused, open, conn, ok, serving, held, accepted, breaks>>

(***************************************************************************)
(* CheckOpenSecret: a quick probe of a decoy with a random key.            *)
(***************************************************************************)

BeginLimit == /\ step' = "limit"
              /\ held' = lingering'
              /\ conn' = [c \in Conns |-> "start"]

Verdict(v) == open' = v /\ BeginLimit

OpenConst == <<checks, ok, serving, accepted, breaks>>

(* The next candidate, or the verdict after the last one.                  *)
NextCandidate == /\ tries' = tries + 1
                 /\ Opened
                 /\ IF tries' = Candidates THEN Verdict("rejects")
                    ELSE UNCHANGED <<open, step, conn, held>>

LetThrough == /\ step = "open" /\ tries < Candidates
              /\ ~checks /\ lingering < Limit
              /\ tries' = tries + 1
              /\ Opened
              /\ Verdict("accepts")
              /\ UNCHANGED <<refused, OpenConst>>

Rejected == /\ step = "open" /\ tries < Candidates
            /\ checks
            /\ refused' = TRUE
            /\ NextCandidate
            /\ UNCHANGED OpenConst

(* The proxy has no place, or lets the client in and the path behind it    *)
(* fails.                                                                  *)
Silent == /\ step = "open" /\ tries < Candidates
          /\ NextCandidate
          /\ UNCHANGED <<refused, OpenConst>>

(* The dial fails or the run is cancelled: the probe gives up at once, and *)
(* its error counts like any other.                                        *)
Unreached == /\ step = "open" /\ tries < Candidates
             /\ UNCHANGED lingering
             /\ Verdict("rejects")
             /\ UNCHANGED <<tries, refused, OpenConst>>

(* The check is not asked for, the proxy has no secret, or no decoy can be *)
(* made of it: no probe, and no verdict.                                   *)
NoDecoy == /\ step = "open" /\ tries = 0
           /\ UNCHANGED lingering
           /\ BeginLimit
           /\ UNCHANGED <<open, tries, refused, OpenConst>>

(***************************************************************************)
(* CheckConnLimit.                                                         *)
(***************************************************************************)

LimitConst == <<checks, tries, refused, open, lingering, held>>

Taken == Cardinality(serving) + lingering

Connect(c) == /\ conn[c] = "start"
              /\ Taken < Limit
              /\ serving' = serving \cup {c}
              /\ conn' = [conn EXCEPT ![c] = "open"]
              /\ UNCHANGED <<step, ok, accepted, breaks, LimitConst>>

TurnedAway(c) == /\ conn[c] = "start"
                 /\ Taken >= Limit
                 /\ conn' = [conn EXCEPT ![c] = "closed"]
                 /\ UNCHANGED <<step, ok, serving, accepted, breaks, LimitConst>>

AnsweredMutIndex(c) == /\ conn[c] = "open"
                       /\ ok' = [ok EXCEPT ![Want] = TRUE]
                       /\ conn' = [conn EXCEPT ![c] = "closed"]
                       /\ UNCHANGED <<step, serving, accepted, breaks, LimitConst>>

Answered(c) == /\ conn[c] = "open"
               /\ ok' = [ok EXCEPT ![c] = TRUE]
               /\ conn' = [conn EXCEPT ![c] = "closed"]
               /\ UNCHANGED <<step, serving, accepted, breaks, LimitConst>>

(* A connection that fails for a reason that is not the limit.             *)
Break(c) == /\ conn[c] \in {"start", "open"} /\ breaks < MaxBreaks
            /\ breaks' = breaks + 1
            /\ conn' = [conn EXCEPT ![c] = "closed"]
            /\ UNCHANGED <<step, ok, serving, accepted, LimitConst>>

(* The proxy sees that the client is gone.                                 *)
Notice(c) == /\ c \in serving /\ conn[c] = "closed"
             /\ serving' = serving \ {c}
             /\ UNCHANGED <<step, conn, ok, accepted, breaks, LimitConst>>

NoticeEarlier == /\ lingering > 0
                 /\ lingering' = lingering - 1
                 /\ UNCHANGED <<step, checks, tries, refused, open, conn, ok, serving, held, accepted, breaks>>

(* wg.Wait, then the results are counted.                                  *)
Count == /\ step = "limit"
         /\ \A c \in Conns : conn[c] = "closed"
         /\ accepted' = Cardinality({c \in Conns : ok[c]})
         /\ step' = "done"
         /\ UNCHANGED <<conn, ok, serving, breaks, LimitConst>>

Goroutine(c) == Connect(c) \/ TurnedAway(c) \/ Answered(c) \/ Break(c)

OpenSecret == LetThrough \/ Rejected \/ Silent \/ Unreached \/ NoDecoy

Finished == step = "done" /\ serving = {} /\ lingering = 0 /\ UNCHANGED vars

Next == \/ Masking \/ OpenSecret \/ Count \/ NoticeEarlier \/ Finished
        \/ \E c \in Conns : Goroutine(c) \/ Notice(c)

Spec == Init /\ [][Next]_vars

(* A count short of the proxy's limit (or of all that was asked for) has   *)
(* its cause, however the goroutines and the proxy interleave: as many     *)
(* connections failed for another reason, or were kept out by those of the *)
(* probe and of the earlier checks that the proxy still served when this   *)
(* check began.                                                            *)
Least == IF Limit < Want THEN Limit ELSE Want

ShortfallHasCause == step = "done" => accepted + breaks + held >= Least

-----------------------------------------------------------------------------
(* What the repository says, and the code does not do.                     *)

(* "to find out how many simultaneous clients the proxy is willing to      *)
(* serve" (audit.go:167-168): no more are reported than it serves at once. *)
NeverTooMany == step = "done" => accepted <= Limit

(* And no fewer, where no connection failed.                               *)
NeverTooFew == step = "done" /\ breaks = 0 => accepted >= Least

(* "rejects a wrong secret" (README): the proxy was given one and turned   *)
(* it away.                                                                *)
RejectsIsEarned == open = "rejects" => refused
=============================================================================
